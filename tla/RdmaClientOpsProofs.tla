------------------------ MODULE RdmaClientOpsProofs ------------------------
(***************************************************************************)
(* For every set of clients, lists of operations, flows and message sizes, *)
(* in both builds: the call trees of RdmaClientOps do not fail except for  *)
(* the nested lock, every completion is of the right message, and nothing  *)
(* stops before the end but for a forgotten announcement or a stranded     *)
(* message.                                                                *)
(*                                                                         *)
(* A handler is an operator from a world to a world, so the proof has no   *)
(* intermediate states to speak of: each operator gets a lemma that says   *)
(* what of the invariant it needs, and what it leaves.  In between, parts  *)
(* of the invariant do not hold, which the parameters of Moving and        *)
(* Clients say: a receiver owes an acknowledgement (A), a client is        *)
(* between two operations (S), a host is idle with something to send (X).  *)
(***************************************************************************)
EXTENDS RdmaClientOps, SumLaws, SequenceTheorems, TLAPS

Frame == [kind : {"data", "ack"}, of : Client, seq : Nat, size : Nat \cup {NoSize}]

----------------------------------------------------------------------------
(***************************************************************************)
(* What is on its way.  Carries says that the frames of one kind and       *)
(* client in a queue have the numbers from a to b, in order: the number of *)
(* a data packet is that of the packet, that of an acknowledgement is one  *)
(* more.                                                                   *)
(***************************************************************************)
Matches(f, kind, c) == f.kind = kind /\ f.of = c

Advances(f, kind, c, m, n) ==
    IF Matches(f, kind, c)
    THEN n = m + 1 /\ f.seq = IF kind = "data" THEN m ELSE n
    ELSE n = m

Carries(q, kind, c, a, b) ==
    \E at \in [0 .. Len(q) -> Nat] :
        /\ at[0] = a /\ at[Len(q)] = b
        /\ \A i \in 1 .. Len(q) : Advances(q[i], kind, c, at[i - 1], at[i])

\* An empty queue carries nothing, from any number.
LEMMA CarriesNothing ==
    ASSUME NEW kind, NEW c, NEW a \in Nat
    PROVE  Carries(<<>>, kind, c, a, a)
<1> DEFINE at == [i \in 0 .. 0 |-> a]
<1>1. at \in [0 .. Len(<<>>) -> Nat] /\ at[0] = a /\ at[Len(<<>>)] = a /\ 1 .. Len(<<>>) = {}
  OBVIOUS
<1> HIDE DEF at
<1> QED
  BY <1>1 DEF Carries

\* ... and nothing else.
LEMMA CarriedNothing ==
    ASSUME NEW kind, NEW c, NEW a, NEW b, Carries(<<>>, kind, c, a, b)
    PROVE  a = b
<1>1. PICK at \in [0 .. Len(<<>>) -> Nat] : at[0] = a /\ at[Len(<<>>)] = b
  BY DEF Carries
<1> QED
  BY <1>1

\* Numbers only grow, by one for each frame that matches.
LEMMA CarriesBounds ==
    ASSUME NEW q \in Seq(Frame), NEW kind, NEW c, NEW a, NEW b, Carries(q, kind, c, a, b)
    PROVE  /\ a \in Nat /\ b \in Nat /\ a <= b
           /\ \A i \in 1 .. Len(q) : Matches(q[i], kind, c) =>
                IF kind = "data" THEN a <= q[i].seq /\ q[i].seq < b
                                 ELSE a < q[i].seq /\ q[i].seq <= b
<1> DEFINE n == Len(q)
<1>1. n \in Nat
  OBVIOUS
<1>2. PICK at \in [0 .. n -> Nat] :
          /\ at[0] = a /\ at[n] = b
          /\ \A i \in 1 .. n : Advances(q[i], kind, c, at[i - 1], at[i])
  BY Zenon DEF Carries
<1> HIDE DEF n
<1>3. \A i \in 0 .. n : at[i] \in Nat
  BY <1>2
<1>4. \A i \in 1 .. n : i - 1 \in 0 .. n /\ i \in 0 .. n /\ at[i - 1] <= at[i]
                        /\ (Matches(q[i], kind, c) =>
                              at[i] = at[i - 1] + 1 /\ q[i].seq = IF kind = "data" THEN at[i - 1] ELSE at[i])
  <2> SUFFICES ASSUME NEW i \in 1 .. n
               PROVE  i - 1 \in 0 .. n /\ i \in 0 .. n /\ at[i - 1] <= at[i]
                      /\ (Matches(q[i], kind, c) =>
                            at[i] = at[i - 1] + 1 /\ q[i].seq = IF kind = "data" THEN at[i - 1] ELSE at[i])
    BY Zenon
  <2>1. i - 1 \in 0 .. n /\ i \in 0 .. n
    BY <1>1
  <2>2. at[i - 1] \in Nat /\ at[i] \in Nat
    BY <1>3, <2>1
  <2>3. Advances(q[i], kind, c, at[i - 1], at[i])
    BY <1>2
  <2> QED
    BY <2>1, <2>2, <2>3 DEF Advances
<1>5. \A k \in Nat : \A i \in 0 .. n : i + k \in 0 .. n => at[i] <= at[i + k]
  <2> DEFINE G == {k \in Nat : \A i \in 0 .. n : i + k \in 0 .. n => at[i] <= at[i + k]}
  <2>1. 0 \in G
    BY <1>1, <1>3
  <2>2. ASSUME NEW k \in G PROVE k + 1 \in G
    <3> SUFFICES ASSUME NEW i \in 0 .. n, i + (k + 1) \in 0 .. n PROVE at[i] <= at[i + (k + 1)]
      OBVIOUS
    <3>1. i + k \in 0 .. n /\ i + (k + 1) \in 1 .. n /\ (i + (k + 1)) - 1 = i + k
      BY <1>1
    <3>2. at[i] <= at[i + k] /\ at[i + k] <= at[i + (k + 1)]
      BY <1>4, <3>1
    <3> QED
      BY <1>3, <3>1, <3>2
  <2> HIDE DEF G
  <2>3. G \in SUBSET Nat
    BY DEF G
  <2>4. G = Nat
    BY <2>1, <2>2, <2>3, NumberInduction
  <2> QED
    BY <2>4 DEF G
<1>6. \A i \in 0 .. n : a <= at[i] /\ at[i] <= b
  <2> SUFFICES ASSUME NEW i \in 0 .. n PROVE a <= at[i] /\ at[i] <= b
    OBVIOUS
  <2>1. i \in Nat /\ n - i \in Nat /\ 0 + i = i /\ i + (n - i) = n /\ 0 \in 0 .. n /\ n \in 0 .. n
    BY <1>1
  <2> QED
    BY <1>2, <1>5, <2>1
<1>7. 0 \in 0 .. n /\ n \in 0 .. n
  BY <1>1
<1>8. a \in Nat /\ b \in Nat /\ a <= b
  BY <1>2, <1>3, <1>6, <1>7
<1>9. ASSUME NEW i \in 1 .. n, Matches(q[i], kind, c)
      PROVE  IF kind = "data" THEN a <= q[i].seq /\ q[i].seq < b ELSE a < q[i].seq /\ q[i].seq <= b
  <2>1. i - 1 \in 0 .. n /\ i \in 0 .. n /\ at[i] = at[i - 1] + 1
        /\ q[i].seq = IF kind = "data" THEN at[i - 1] ELSE at[i]
    BY <1>4, <1>9
  <2>2. a <= at[i - 1] /\ at[i - 1] \in Nat /\ at[i] <= b /\ at[i] \in Nat
    BY <1>3, <1>6, <2>1
  <2> QED
    BY <1>8, <2>1, <2>2
<1> QED
  BY <1>8, <1>9 DEF n

\* One frame more at the end
LEMMA CarriesAppend ==
    ASSUME NEW q \in Seq(Frame), NEW f \in Frame, NEW kind, NEW c, NEW a, NEW b, NEW d \in Nat,
           Carries(q, kind, c, a, b), Advances(f, kind, c, b, d)
    PROVE  Carries(Append(q, f), kind, c, a, d)
<1> DEFINE t == Append(q, f)
           n == Len(q)
<1>1. /\ n \in Nat /\ Len(t) = n + 1 /\ t[n + 1] = f
      /\ \A i \in 1 .. n : t[i] = q[i]
  OBVIOUS
<1>2. PICK at \in [0 .. n -> Nat] :
          /\ at[0] = a /\ at[n] = b
          /\ \A i \in 1 .. n : Advances(q[i], kind, c, at[i - 1], at[i])
  BY Zenon DEF Carries
<1> HIDE DEF t, n
<1> DEFINE g == [i \in 0 .. n + 1 |-> IF i = n + 1 THEN d ELSE at[i]]
<1>3. /\ g \in [0 .. n + 1 -> Nat]
      /\ g[n + 1] = d
      /\ \A i \in 0 .. n : g[i] = at[i]
  BY <1>1, <1>2
<1>4. g[0] = a /\ g[n] = b
  BY <1>1, <1>2, <1>3
<1> HIDE DEF g
<1>5. ASSUME NEW i \in 1 .. n + 1 PROVE Advances(t[i], kind, c, g[i - 1], g[i])
  <2>1. CASE i = n + 1
    <3>1. i - 1 = n /\ t[i] = f /\ g[i] = d /\ g[i - 1] = b
      BY <1>1, <1>3, <1>4, <2>1
    <3> QED
      BY <3>1, Zenon
  <2>2. CASE i # n + 1
    <3>1. i \in 1 .. n /\ i \in 0 .. n /\ i - 1 \in 0 .. n
      BY <1>1, <2>2
    <3>2. t[i] = q[i] /\ g[i] = at[i] /\ g[i - 1] = at[i - 1]
      BY <1>1, <1>3, <3>1, Zenon
    <3> QED
      BY <1>2, <3>1, <3>2, Zenon
  <2> QED
    BY <2>1, <2>2
<1>6. Carries(t, kind, c, a, d)
  BY <1>1, <1>3, <1>4, <1>5, Zenon DEF Carries
<1> QED
  BY <1>6 DEF t

\* One frame less at the head
LEMMA CarriesTail ==
    ASSUME NEW q \in Seq(Frame), q # <<>>, NEW kind, NEW c, NEW a, NEW b, Carries(q, kind, c, a, b)
    PROVE  \E m \in Nat : Advances(Head(q), kind, c, a, m) /\ Carries(Tail(q), kind, c, m, b)
<1> DEFINE t == Tail(q)
           n == Len(t)
<1>1. /\ n \in Nat /\ Len(q) = n + 1 /\ Head(q) = q[1] /\ t \in Seq(Frame)
      /\ \A i \in 1 .. n : t[i] = q[i + 1]
  OBVIOUS
<1> HIDE DEF t
<1>2. PICK at \in [0 .. n + 1 -> Nat] :
          /\ at[0] = a /\ at[n + 1] = b
          /\ \A i \in 1 .. n + 1 : Advances(q[i], kind, c, at[i - 1], at[i])
  BY <1>1, Zenon DEF Carries
<1> HIDE DEF n
<1> DEFINE g == [i \in 0 .. n |-> at[i + 1]]
<1>3. /\ g \in [0 .. n -> Nat]
      /\ \A i \in 0 .. n : g[i] = at[i + 1]
  BY <1>1, <1>2
<1> HIDE DEF g
<1>4. g[0] = at[1] /\ g[n] = b /\ at[1] \in Nat
  BY <1>1, <1>2, <1>3
<1>5. ASSUME NEW i \in 1 .. n PROVE Advances(t[i], kind, c, g[i - 1], g[i])
  <2>1. i + 1 \in 1 .. n + 1 /\ i \in 0 .. n /\ i - 1 \in 0 .. n /\ (i + 1) - 1 = i /\ (i - 1) + 1 = i
    BY <1>1
  <2>2. t[i] = q[i + 1] /\ g[i] = at[i + 1] /\ g[i - 1] = at[(i - 1) + 1]
    BY <1>1, <1>3, <2>1, Zenon
  <2>3. Advances(q[i + 1], kind, c, at[(i + 1) - 1], at[i + 1])
    BY <1>2, <2>1, Zenon
  <2> QED
    BY <2>1, <2>2, <2>3, Zenon
<1>6. Carries(t, kind, c, at[1], b)
  BY <1>3, <1>4, <1>5, Zenon DEF Carries, n
<1>7. Advances(q[1], kind, c, a, at[1])
  <2>1. 1 \in 1 .. n + 1 /\ 1 - 1 = 0
    BY <1>1
  <2> QED
    BY <1>2, <2>1, Zenon
<1> QED
  BY <1>1, <1>4, <1>6, <1>7, Zenon DEF t

----------------------------------------------------------------------------
(***************************************************************************)
(* Worlds, and what holds of one between calls.                            *)
(***************************************************************************)
Pair == [msgs : Seq(Message), nxt : Nat, una : Nat, live : BOOLEAN]
Transmitter == [busy : BOOLEAN, acks : Seq(Frame), group : Seq(Client), last : Nat]
Receiver == [next : Nat, left : Nat \cup {NoSize}]

Worlds == [mtp : BOOLEAN, program : Programs, op : [Operators -> Nat],
           qp : [Client -> Pair], nic : [Host -> Transmitter], rx : [Client -> Receiver],
           link : [Host -> Seq(Frame)], finished : Nat, held : BOOLEAN, end : Ends,
           announced : [Client -> Nat], forgotten : [Client -> Nat]]

\* The program runs and the critical section is free.
Open(w) == w \in Worlds /\ w.end = "running" /\ ~w.held

\* The first message of a queue is the one in progress: where it ends, and what of it
\* is sent, acknowledged and received.
EndOf(q) == q.msgs[1].start + q.msgs[1].size

InProgress(q, r) ==
    /\ q.msgs[1].start <= q.una /\ q.una < EndOf(q) /\ q.nxt <= EndOf(q)
    /\ IF r.left = NoSize THEN r.next = q.msgs[1].start \/ r.next = EndOf(q)
       ELSE r.left > 0 /\ q.msgs[1].start < r.next /\ r.next + r.left = EndOf(q)

Placed(q, r) ==
    /\ \A i \in 1 .. Len(q.msgs) : q.msgs[i].size > 0 /\ (q.msgs[i].set <=> i = 1)
    /\ IF q.live /\ q.msgs # <<>> THEN InProgress(q, r) ELSE q.una = q.nxt /\ r.left = NoSize

\* What the receiver took, also when its queue pair is deleted
Got(q, r) == IF q.live THEN r.next ELSE q.nxt

DataOnWay(w, c) ==
    Carries(w.link[At[c]], "data", c, Got(w.qp[c], w.rx[c]), w.qp[c].nxt)

\* owed: acknowledgements the receiver is about to queue
AcksOnWay(w, c, owed) ==
    \E m \in Nat :
        /\ Carries(w.link[At[To[c]]], "ack", c, w.qp[c].una, m)
        /\ Carries(w.nic[At[To[c]]].acks, "ack", c, m, Got(w.qp[c], w.rx[c]) - owed)

SizeWith(q, f) ==
    q.msgs # <<>> /\ f.size = IF f.seq = q.msgs[1].start THEN q.msgs[1].size ELSE NoSize
Sized(w, c) ==
    \A i \in 1 .. Len(w.link[At[c]]) :
        Matches(w.link[At[c]][i], "data", c) => SizeWith(w.qp[c], w.link[At[c]][i])

RoutedBy(f, h) == IF f.kind = "data" THEN At[f.of] = h ELSE At[To[f.of]] = h
Routed(w) ==
    \A h \in Host :
        /\ \A i \in 1 .. Len(w.link[h]) : RoutedBy(w.link[h][i], h)
        /\ \A i \in 1 .. Len(w.nic[h].acks) :
              w.nic[h].acks[i].kind = "ack" /\ RoutedBy(w.nic[h].acks[i], h)

Pipe(w, c, owed) ==
    /\ Placed(w.qp[c], w.rx[c])
    /\ Sized(w, c)
    /\ DataOnWay(w, c)
    /\ AcksOnWay(w, c, owed)

\* A: the clients whose receiver owes an acknowledgement
Owed(c, A) == IF c \in A THEN 1 ELSE 0
Net(w, A) == Routed(w) /\ \A c \in Client : Pipe(w, c, Owed(c, A))

\* The members of a group are queue pairs of the host, and none is finished.
Groups(w) ==
    \A h \in Host : \A i \in 1 .. Len(w.nic[h].group) :
        At[w.nic[h].group[i]] = h /\ w.qp[w.nic[h].group[i]].live

\* No host but those of X is idle with something to send.
Asleep(w, h) ==
    /\ w.nic[h].acks = <<>>
    /\ \A i \in 1 .. Len(w.nic[h].group) : GetBytesLeft(w.qp[w.nic[h].group[i]]) = 0
Woken(w, X) == \A h \in Host \ X : ~w.nic[h].busy => Asleep(w, h)

\* The rest of the world, on which the transmitters have no effect
Kept(w, v) ==
    /\ \A c \in Client : v.qp[c].msgs = w.qp[c].msgs /\ v.qp[c].live = w.qp[c].live
    /\ v.mtp = w.mtp /\ v.program = w.program /\ v.op = w.op /\ v.rx = w.rx
    /\ v.finished = w.finished /\ v.announced = w.announced /\ v.forgotten = w.forgotten

----------------------------------------------------------------------------
\* The transmitters

\* The types of what a client has in a world
LEMMA PairTypes ==
    ASSUME NEW w \in Worlds, NEW c \in Client
    PROVE  /\ w.qp[c] \in Pair /\ w.qp[c].msgs \in Seq(Message)
           /\ w.qp[c].nxt \in Nat /\ w.qp[c].una \in Nat /\ w.qp[c].live \in BOOLEAN
           /\ w.rx[c] \in Receiver /\ w.rx[c].next \in Nat /\ w.rx[c].left \in Nat \cup {NoSize}
           /\ At[c] \in Host /\ To[c] \in Client /\ At[To[c]] \in Host /\ At[To[c]] # At[c]
BY ClientAssumption DEF Worlds, Pair, Receiver

\* ... and of what a host has
LEMMA HostTypes ==
    ASSUME NEW w \in Worlds, NEW h \in Host
    PROVE  /\ w.nic[h] \in Transmitter /\ w.nic[h].acks \in Seq(Frame)
           /\ w.nic[h].group \in Seq(Client)
           /\ w.nic[h].last \in Nat /\ w.nic[h].busy \in BOOLEAN
           /\ w.link[h] \in Seq(Frame)
BY DEF Worlds, Transmitter


\* x % n is the remainder.
LEMMA Remainder ==
    ASSUME NEW n \in Nat, n > 0, NEW x \in Nat, NEW a \in Nat, NEW r \in 0 .. n - 1, x = n * a + r
    PROVE  x % n = r
<1>1. x = n * (x \div n) + (x % n) /\ x % n \in 0 .. n - 1 /\ x \div n \in Int
  OBVIOUS
<1> DEFINE b == x \div n
           s == x % n
<1> HIDE DEF b, s
<1>2. n * a + r = n * b + s /\ s \in 0 .. n - 1 /\ b \in Int
  BY <1>1 DEF b, s
<1>3. CASE a = b
  BY <1>2, <1>3 DEF s
<1>4. CASE a < b
  <2>1. b - a \in Nat /\ b - a >= 1 /\ n * (b - a) = n * b - n * a
    BY <1>2, <1>4
  <2>2. n * (b - a) >= n
    BY <2>1
  <2> QED
    BY <1>2, <2>1, <2>2
<1>5. CASE b < a
  <2>1. a - b \in Nat /\ a - b >= 1 /\ n * (a - b) = n * a - n * b
    BY <1>2, <1>5
  <2>2. n * (a - b) >= n
    BY <2>1
  <2> QED
    BY <1>2, <2>1, <2>2
<1> QED
  BY <1>2, <1>3, <1>4, <1>5

\* The round robin starts after the last sender and comes to every member.
LEMMA EveryTurn ==
    ASSUME NEW N \in Nat, N > 0, NEW last \in Nat
    PROVE  /\ \A k \in 1 .. N : ((k + last) % N) + 1 \in 1 .. N
           /\ \A i \in 1 .. N : \E k \in 1 .. N : ((k + last) % N) + 1 = i
<1>1. \A k \in 1 .. N : (k + last) % N \in 0 .. N - 1
  OBVIOUS
<1>2. ASSUME NEW i \in 1 .. N PROVE \E k \in 1 .. N : ((k + last) % N) + 1 = i
  <2> DEFINE r == last % N
             a == last \div N
  <2>1. last = N * a + r /\ r \in 0 .. N - 1 /\ a \in Nat
    OBVIOUS
  <2> HIDE DEF r, a
  <2>2. CASE i - 1 > r
    <3> DEFINE k == i - 1 - r
    <3>1. k \in 1 .. N /\ k + last \in Nat /\ k + last = N * a + (i - 1) /\ i - 1 \in 0 .. N - 1
      BY <2>1, <2>2
    <3> HIDE DEF k
    <3>2. (k + last) % N = i - 1
      BY <2>1, <3>1, Remainder
    <3>4. k \in 1 .. N /\ ((k + last) % N) + 1 = i
      BY <3>1, <3>2
    <3> QED
      BY <3>4, Zenon
  <2>3. CASE i - 1 <= r
    <3> DEFINE k == N + (i - 1) - r
    <3>1. k \in 1 .. N /\ k + last \in Nat /\ k + last = (N * a + N) + (i - 1) /\ i - 1 \in 0 .. N - 1
      BY <2>1, <2>3
    <3>2. N * a + N = N * (a + 1) /\ a + 1 \in Nat
      BY <2>1
    <3> HIDE DEF k
    <3>3. (k + last) % N = i - 1
      BY <3>1, <3>2, Remainder
    <3>4. k \in 1 .. N /\ ((k + last) % N) + 1 = i
      BY <3>1, <3>3
    <3> QED
      BY <3>4, Zenon
  <2> QED
    BY <2>1, <2>2, <2>3
<1> QED
  BY <1>1, <1>2

\* All that the transmission of a frame changes
Transmitted(w, v, h, frame) ==
    /\ v.qp = w.qp /\ v.rx = w.rx /\ v.end = w.end /\ v.held = w.held
    /\ v.nic = [w.nic EXCEPT ![h] = [w.nic[h] EXCEPT !.busy = TRUE]]
    /\ v.link = [w.link EXCEPT ![h] = Append(w.link[h], frame)]

\* Transmit does what its name says and keeps the types.
LEMMA TransmitFields ==
    ASSUME NEW w \in Worlds, NEW h \in Host, NEW frame \in Frame,
           NEW v, v = Transmit(w, h, frame)
    PROVE  v \in Worlds /\ Kept(w, v) /\ Transmitted(w, v, h, frame)
<1>1. w.link[h] \in Seq(Frame) /\ w.nic[h] \in Transmitter
  BY HostTypes
<1>2. [w.nic[h] EXCEPT !.busy = TRUE] \in Transmitter
  BY <1>1 DEF Transmitter
<1>2a. Append(w.link[h], frame) \in Seq(Frame)
  BY <1>1
<1>3. v = [w EXCEPT !.nic = [w.nic EXCEPT ![h] = [w.nic[h] EXCEPT !.busy = TRUE]],
                    !.link = [w.link EXCEPT ![h] = Append(w.link[h], frame)]]
  BY DEF Transmit
<1> DEFINE N == [w.nic EXCEPT ![h] = [w.nic[h] EXCEPT !.busy = TRUE]]
           L == [w.link EXCEPT ![h] = Append(w.link[h], frame)]
<1>4. N \in [Host -> Transmitter] /\ L \in [Host -> Seq(Frame)]
  BY <1>2, <1>2a DEF Worlds
<1> HIDE DEF N, L
<1>5. v = [w EXCEPT !.nic = N, !.link = L]
  BY <1>3 DEF N, L
<1>6. v \in Worlds
  BY <1>4, <1>5 DEF Worlds
<1>7. v.nic = N /\ v.link = L
  BY <1>5 DEF Worlds
<1>8. v.qp = w.qp /\ v.rx = w.rx /\ v.end = w.end /\ v.held = w.held /\ Kept(w, v)
  BY <1>5 DEF Worlds, Kept
<1> QED
  BY <1>6, <1>7, <1>8 DEF N, L, Transmitted

\* A pipe goes by the fields of its client and of the two hosts.
LEMMA PipeSame ==
    ASSUME NEW w, NEW v, NEW c, NEW owed, Pipe(w, c, owed),
           v.qp[c] = w.qp[c], v.rx[c] = w.rx[c],
           v.link[At[c]] = w.link[At[c]], v.link[At[To[c]]] = w.link[At[To[c]]],
           v.nic[At[To[c]]].acks = w.nic[At[To[c]]].acks
    PROVE  Pipe(v, c, owed)
BY Zenon DEF Pipe, Sized, DataOnWay, AcksOnWay

\* A frame of another client or kind does not count.
LEMMA CarriesOther ==
    ASSUME NEW q \in Seq(Frame), NEW f \in Frame, NEW kind, NEW c, NEW a, NEW b,
           Carries(q, kind, c, a, b), ~Matches(f, kind, c)
    PROVE  Carries(Append(q, f), kind, c, a, b)
<1>1. b \in Nat
  BY CarriesBounds
<1>2. Advances(f, kind, c, b, b)
  BY DEF Advances
<1> QED
  BY <1>1, <1>2, CarriesAppend

\* A frame sent by h that is not of c leaves what c has on the way.
LEMMA DataKept ==
    ASSUME NEW w \in Worlds, NEW v, NEW c \in Client, NEW h \in Host, NEW f \in Frame,
           v.link = [w.link EXCEPT ![h] = Append(@, f)], ~Matches(f, "data", c),
           v.qp[c] = w.qp[c], v.rx[c] = w.rx[c], DataOnWay(w, c), Sized(w, c)
    PROVE  DataOnWay(v, c) /\ Sized(v, c)
<1> DEFINE L == w.link[At[c]]
<1>1. At[c] \in Host /\ L \in Seq(Frame)
  BY PairTypes, HostTypes
<1>2. v.link[At[c]] = L \/ v.link[At[c]] = Append(L, f)
  BY <1>1 DEF Worlds
<1> HIDE DEF L
<1>3. Carries(L, "data", c, Got(w.qp[c], w.rx[c]), w.qp[c].nxt)
  BY DEF DataOnWay, L
<1>4. DataOnWay(v, c)
  <2>1. Carries(Append(L, f), "data", c, Got(w.qp[c], w.rx[c]), w.qp[c].nxt)
    BY <1>1, <1>3, CarriesOther
  <2>2. Carries(v.link[At[c]], "data", c, Got(w.qp[c], w.rx[c]), w.qp[c].nxt)
    BY <1>2, <1>3, <2>1, Zenon
  <2> QED
    BY <2>2, Zenon DEF DataOnWay
<1>5. \A i \in 1 .. Len(L) : Matches(L[i], "data", c) => SizeWith(w.qp[c], L[i])
  BY DEF Sized, L
<1>6. ASSUME NEW i \in 1 .. Len(v.link[At[c]]), Matches(v.link[At[c]][i], "data", c)
      PROVE  SizeWith(v.qp[c], v.link[At[c]][i])
  <2>1. CASE v.link[At[c]] = L
    BY <1>5, <1>6, <2>1, Zenon
  <2>2. CASE v.link[At[c]] = Append(L, f)
    <3>1. (i \in 1 .. Len(L) /\ v.link[At[c]][i] = L[i]) \/ v.link[At[c]][i] = f
      BY <1>1, <2>2
    <3> QED
      BY <1>5, <1>6, <3>1, Zenon
  <2> QED
    BY <1>2, <2>1, <2>2
<1> QED
  BY <1>4, <1>6 DEF Sized

\* ... and the acknowledgements
LEMMA AcksKept ==
    ASSUME NEW w \in Worlds, NEW v, NEW c \in Client, NEW h \in Host, NEW f \in Frame, NEW owed,
           v.link = [w.link EXCEPT ![h] = Append(@, f)], ~Matches(f, "ack", c),
           v.nic[At[To[c]]].acks = w.nic[At[To[c]]].acks,
           v.qp[c].una = w.qp[c].una, Got(v.qp[c], v.rx[c]) = Got(w.qp[c], w.rx[c]),
           AcksOnWay(w, c, owed)
    PROVE  AcksOnWay(v, c, owed)
<1> DEFINE L == w.link[At[To[c]]]
<1>1. At[To[c]] \in Host /\ L \in Seq(Frame)
  BY PairTypes, HostTypes
<1>2. v.link[At[To[c]]] = L \/ v.link[At[To[c]]] = Append(L, f)
  BY <1>1 DEF Worlds
<1> HIDE DEF L
<1>3. PICK m \in Nat :
        /\ Carries(L, "ack", c, w.qp[c].una, m)
        /\ Carries(w.nic[At[To[c]]].acks, "ack", c, m, Got(w.qp[c], w.rx[c]) - owed)
  BY DEF AcksOnWay, L
<1>4. Carries(v.link[At[To[c]]], "ack", c, w.qp[c].una, m)
  <2>1. Carries(Append(L, f), "ack", c, w.qp[c].una, m)
    BY <1>1, <1>3, CarriesOther
  <2> QED
    BY <1>2, <1>3, <2>1, Zenon
<1> QED
  BY <1>3, <1>4, Zenon DEF AcksOnWay

\* The acknowledgement h sends moves from the queue to the wire.
LEMMA AckMoves ==
    ASSUME NEW w \in Worlds, NEW v, NEW c \in Client, NEW h \in Host, NEW owed, At[To[c]] = h,
           w.nic[h].acks # <<>>,
           v.link = [w.link EXCEPT ![h] = Append(@, Head(w.nic[h].acks))],
           v.nic[h].acks = Tail(w.nic[h].acks),
           v.qp[c] = w.qp[c], v.rx[c] = w.rx[c], AcksOnWay(w, c, owed)
    PROVE  AcksOnWay(v, c, owed)
<1> DEFINE L == w.link[h]
           Q == w.nic[h].acks
           f == Head(Q)
<1>1. L \in Seq(Frame) /\ Q \in Seq(Frame)
  BY HostTypes
<1>2. f \in Frame
  BY <1>1
<1>3. v.link[h] = Append(L, f)
  BY DEF Worlds
<1> HIDE DEF L, Q
<1>4. PICK m \in Nat :
        /\ Carries(L, "ack", c, w.qp[c].una, m)
        /\ Carries(Q, "ack", c, m, Got(w.qp[c], w.rx[c]) - owed)
  BY DEF AcksOnWay, L, Q
<1>5. PICK n \in Nat :
        Advances(f, "ack", c, m, n) /\ Carries(Tail(Q), "ack", c, n, Got(w.qp[c], w.rx[c]) - owed)
  BY <1>1, <1>4, CarriesTail DEF Q
<1>6. Carries(Append(L, f), "ack", c, w.qp[c].una, n)
  BY <1>1, <1>2, <1>4, <1>5, CarriesAppend
<1> QED
  BY <1>3, <1>5, <1>6 DEF AcksOnWay, Q

\* There is something to send when the first message is not sent to its end.
LEMMA BytesLeft ==
    ASSUME NEW q \in Pair
    PROVE  /\ GetBytesLeft(q) \in Nat
           /\ q.msgs = <<>> => GetBytesLeft(q) = 0
           /\ q.msgs # <<>> => /\ EndOf(q) \in Nat /\ q.msgs[1] \in Message
                               /\ GetBytesLeft(q) > 0 <=> q.nxt < EndOf(q)
<1>1. q.msgs \in Seq(Message) /\ q.nxt \in Nat
  BY DEF Pair
<1>2. CASE q.msgs = <<>>
  BY <1>2 DEF GetBytesLeft
<1>3. CASE q.msgs # <<>>
  <2>1. q.msgs[1] \in Message /\ Head(q.msgs) = q.msgs[1]
    BY <1>1, <1>3
  <2>2. q.msgs[1].start \in Nat /\ q.msgs[1].size \in Nat
    BY <2>1 DEF Message
  <2>3. GetBytesLeft(q) = IF EndOf(q) >= q.nxt THEN EndOf(q) - q.nxt ELSE 0
    BY <1>3, <2>1 DEF GetBytesLeft, EndOf
  <2>4. EndOf(q) \in Nat
    BY <2>2 DEF EndOf
  <2> HIDE DEF EndOf
  <2> QED
    BY <1>1, <1>3, <2>1, <2>3, <2>4
<1> QED
  BY <1>2, <1>3

\* Work at h does not wake or stop other hosts.
LEMMA WokenThere ==
    ASSUME NEW w \in Worlds, NEW v, NEW h \in Host, NEW X, Groups(w), Woken(w, X),
           \A g \in Host \ {h} : v.nic[g] = w.nic[g],
           \A c \in Client : At[c] # h => v.qp[c] = w.qp[c]
    PROVE  /\ Woken(v, X \cup {h})
           /\ v.nic[h].busy \/ Asleep(v, h) => Woken(v, X \ {h})
<1>1. ASSUME NEW g \in Host \ X, g # h, ~v.nic[g].busy
      PROVE  Asleep(v, g)
  <2>1. v.nic[g] = w.nic[g] /\ Asleep(w, g)
    BY <1>1 DEF Woken
  <2>2. ASSUME NEW i \in 1 .. Len(w.nic[g].group)
        PROVE  v.qp[w.nic[g].group[i]] = w.qp[w.nic[g].group[i]]
    <3>1. At[w.nic[g].group[i]] = g
      BY DEF Groups
    <3>2. w.nic[g].group[i] \in Client
      BY HostTypes
    <3> QED
      BY <1>1, <3>1, <3>2
  <2> QED
    BY <2>1, <2>2, Zenon DEF Asleep
<1> QED
  BY <1>1, Zenon DEF Woken

\* Transmitters do not change groups.
LEMMA GroupsKept ==
    ASSUME NEW w \in Worlds, NEW v, Groups(w),
           \A g \in Host : v.nic[g].group = w.nic[g].group,
           \A c \in Client : v.qp[c].live = w.qp[c].live
    PROVE  Groups(v)
<1> SUFFICES ASSUME NEW h \in Host, NEW i \in 1 .. Len(v.nic[h].group)
             PROVE  At[v.nic[h].group[i]] = h /\ v.qp[v.nic[h].group[i]].live
  BY Zenon DEF Groups
<1>1. v.nic[h].group = w.nic[h].group
  OBVIOUS
<1>2. w.nic[h].group[i] \in Client
  BY <1>1, HostTypes
<1>3. At[w.nic[h].group[i]] = h /\ w.qp[w.nic[h].group[i]].live
  BY <1>1 DEF Groups
<1> QED
  BY <1>1, <1>2, <1>3

\* What a call of a transmitter leaves
Sent(w, v, h, A, X) ==
    /\ v \in Worlds /\ v.end = w.end /\ v.held = w.held
    /\ Net(v, A) /\ Groups(v) /\ Kept(w, v) /\ Woken(v, X \ {h})

\* An acknowledgement goes out.
LEMMA TransmitAckSends ==
    ASSUME NEW w \in Worlds, NEW h \in Host, w.nic[h].acks # <<>>, NEW A, NEW X,
           Net(w, A), Groups(w), Woken(w, X)
    PROVE  Sent(w, TransmitAck(w, h), h, A, X)
<1> DEFINE Q == w.nic[h].acks
           f == Head(Q)
           u == [w EXCEPT !.nic = [w.nic EXCEPT ![h] = [w.nic[h] EXCEPT !.acks = Tail(Q)]]]
           v == Transmit(u, h, f)
<1>1. /\ Q \in Seq(Frame) /\ f \in Frame /\ Tail(Q) \in Seq(Frame) /\ f = Q[1] /\ 1 \in 1 .. Len(Q)
      /\ \A i \in 1 .. Len(Tail(Q)) : i + 1 \in 1 .. Len(Q) /\ Tail(Q)[i] = Q[i + 1]
  BY HostTypes
<1>2. TransmitAck(w, h) = v
  BY Zenon DEF TransmitAck
<1>3. [w.nic[h] EXCEPT !.acks = Tail(Q)] \in Transmitter
  <2>1. w.nic[h] \in Transmitter /\ Tail(Q) \in Seq(Frame)
    BY <1>1, HostTypes
  <2> DEFINE n == w.nic[h]
             T == Tail(Q)
  <2> HIDE DEF n, T
  <2>2. n \in Transmitter /\ T \in Seq(Frame)
    BY <2>1 DEF n, T
  <2>3. [n EXCEPT !.acks = T] \in Transmitter
    BY <2>2 DEF Transmitter
  <2> QED
    BY <2>3 DEF n, T
<1>4. u \in Worlds
  BY <1>3 DEF Worlds
<1>5. /\ u.nic = [w.nic EXCEPT ![h] = [w.nic[h] EXCEPT !.acks = Tail(Q)]]
      /\ u.link = w.link /\ u.qp = w.qp /\ u.rx = w.rx /\ u.end = w.end /\ u.held = w.held
      /\ u.mtp = w.mtp /\ u.program = w.program /\ u.op = w.op
      /\ u.finished = w.finished /\ u.announced = w.announced /\ u.forgotten = w.forgotten
  BY DEF Worlds
<1> HIDE DEF u
<1>6. /\ v \in Worlds /\ v.qp = w.qp /\ v.rx = w.rx /\ v.end = w.end /\ v.held = w.held
      /\ Kept(u, v)
      /\ v.nic = [u.nic EXCEPT ![h] = [u.nic[h] EXCEPT !.busy = TRUE]]
      /\ v.link = [w.link EXCEPT ![h] = Append(@, f)]
  <2>1. v \in Worlds /\ Kept(u, v) /\ Transmitted(u, v, h, f)
    <3>1. f \in Frame /\ v = Transmit(u, h, f)
      BY <1>1
    <3> HIDE DEF f, v
    <3> QED
      BY <1>4, <3>1, TransmitFields
  <2> HIDE DEF v
  <2> QED
    BY <1>5, <2>1 DEF Transmitted
<1> HIDE DEF v
<1>7. Kept(w, v)
  BY <1>5, <1>6 DEF Kept
<1>8. /\ v.nic[h].acks = Tail(Q) /\ v.nic[h].busy /\ v.nic[h].group = w.nic[h].group
      /\ \A g \in Host \ {h} : v.nic[g] = w.nic[g]
  BY <1>5, <1>6 DEF Worlds, Transmitter
<1>9. f.kind = "ack" /\ RoutedBy(f, h)
  BY <1>1 DEF Net, Routed
<1>10. Routed(v)
  <2> SUFFICES ASSUME NEW g \in Host
               PROVE  /\ \A i \in 1 .. Len(v.link[g]) : RoutedBy(v.link[g][i], g)
                      /\ \A i \in 1 .. Len(v.nic[g].acks) :
                            v.nic[g].acks[i].kind = "ack" /\ RoutedBy(v.nic[g].acks[i], g)
    BY Zenon DEF Routed
  <2>1. /\ \A i \in 1 .. Len(w.link[g]) : RoutedBy(w.link[g][i], g)
        /\ \A i \in 1 .. Len(w.nic[g].acks) :
              w.nic[g].acks[i].kind = "ack" /\ RoutedBy(w.nic[g].acks[i], g)
    BY Zenon DEF Net, Routed
  <2>2. CASE g # h
    <3>1. v.link[g] = w.link[g] /\ v.nic[g] = w.nic[g]
      BY <1>6, <1>8, <2>2 DEF Worlds
    <3> QED
      BY <2>1, <3>1, Zenon
  <2>3. CASE g = h
    <3>1. w.link[h] \in Seq(Frame) /\ v.link[h] = Append(w.link[h], f)
      BY <1>6, HostTypes DEF Worlds
    <3>2. \A i \in 1 .. Len(v.link[h]) :
              v.link[h][i] = f \/ (i \in 1 .. Len(w.link[h]) /\ v.link[h][i] = w.link[h][i])
      BY <1>1, <3>1
    <3>3. \A i \in 1 .. Len(v.link[h]) : RoutedBy(v.link[h][i], h)
      BY <1>9, <2>1, <2>3, <3>2, Zenon
    <3>4. \A i \in 1 .. Len(v.nic[h].acks) :
              i + 1 \in 1 .. Len(Q) /\ v.nic[h].acks[i] = Q[i + 1]
      BY <1>1, <1>8, Zenon
    <3>5. \A i \in 1 .. Len(Q) : Q[i].kind = "ack" /\ RoutedBy(Q[i], h)
      BY <2>1, <2>3, Zenon
    <3> QED
      BY <2>3, <3>3, <3>4, <3>5, Zenon
  <2> QED
    BY <2>2, <2>3
<1>11. ASSUME NEW c \in Client PROVE Pipe(v, c, Owed(c, A))
  <2>1. Pipe(w, c, Owed(c, A)) /\ ~Matches(f, "data", c)
    BY <1>9 DEF Net, Matches
  <2>2. DataOnWay(v, c) /\ Sized(v, c)
    BY <1>1, <1>6, <2>1, DataKept DEF Pipe
  <2>3. AcksOnWay(v, c, Owed(c, A))
    <3>1. CASE At[To[c]] = h
      BY <1>6, <1>8, <2>1, <3>1, AckMoves DEF Pipe
    <3>2. CASE At[To[c]] # h
      <4>1. ~Matches(f, "ack", c)
        BY <1>9, <3>2 DEF Matches, RoutedBy
      <4>2. v.nic[At[To[c]]].acks = w.nic[At[To[c]]].acks
        BY <1>8, <3>2, PairTypes
      <4>3. /\ v.qp[c].una = w.qp[c].una /\ Got(v.qp[c], v.rx[c]) = Got(w.qp[c], w.rx[c])
            /\ AcksOnWay(w, c, Owed(c, A))
        BY <1>6, <2>1 DEF Pipe
      <4> QED
        <5>1. f \in Frame /\ v.link = [w.link EXCEPT ![h] = Append(@, f)]
          BY <1>1, <1>6
        <5> HIDE DEF f
        <5> QED
          BY <4>1, <4>2, <4>3, <5>1, AcksKept
    <3> QED
      BY <3>1, <3>2
  <2> QED
    BY <1>6, <2>1, <2>2, <2>3 DEF Pipe
<1>12. Groups(v)
  <2>1. \A g \in Host : v.nic[g].group = w.nic[g].group
    BY <1>8
  <2> QED
    BY <1>6, <2>1, GroupsKept
<1>13. Woken(v, X \ {h})
  BY <1>6, <1>8, WokenThere
<1> QED
  BY <1>2, <1>6, <1>7, <1>10, <1>11, <1>12, <1>13 DEF Sent, Net

\* The first packet not yet sent of the message in progress
LEMMA NextPacket ==
    ASSUME NEW w \in Worlds, NEW h \in Host, NEW i \in 1 .. Len(w.nic[h].group),
           GetBytesLeft(w.qp[w.nic[h].group[i]]) > 0, NEW A, Net(w, A), Groups(w)
    PROVE  LET c == w.nic[h].group[i]
               q == w.qp[c]
           IN  /\ c \in Client /\ At[c] = h /\ q.live /\ q.msgs # <<>>
               /\ InProgress(q, w.rx[c]) /\ q.nxt < EndOf(q) /\ EndOf(q) \in Nat
               /\ Head(q.msgs) = q.msgs[1] /\ q.msgs[1] \in Message
<1> DEFINE c == w.nic[h].group[i]
<1>1. c \in Client /\ At[c] = h /\ w.qp[c].live
  <2> DEFINE s == w.nic[h].group
  <2>1. s \in Seq(Client) /\ i \in 1 .. Len(s)
    BY HostTypes
  <2> HIDE DEF s
  <2>2. s[i] \in Client
    BY <2>1
  <2> QED
    BY <2>2, Zenon DEF s, Groups
<1> HIDE DEF c
<1>2. w.qp[c] \in Pair /\ GetBytesLeft(w.qp[c]) > 0 /\ w.qp[c].msgs \in Seq(Message)
  BY <1>1, PairTypes DEF c
<1>3. w.qp[c].msgs # <<>>
  BY <1>2, BytesLeft
<1>4. EndOf(w.qp[c]) \in Nat /\ w.qp[c].msgs[1] \in Message /\ w.qp[c].nxt < EndOf(w.qp[c])
  BY <1>2, <1>3, BytesLeft
<1>5. InProgress(w.qp[c], w.rx[c])
  <2>1. Placed(w.qp[c], w.rx[c])
    BY <1>1 DEF Net, Pipe
  <2> QED
    BY <1>1, <1>3, <2>1 DEF Placed
<1>6. Head(w.qp[c].msgs) = w.qp[c].msgs[1]
  BY <1>2, <1>3
<1> QED
  BY <1>1, <1>3, <1>4, <1>5, <1>6, Zenon DEF c

\* A data packet goes out.
LEMMA TransmitDataSends ==
    ASSUME NEW w \in Worlds, NEW h \in Host, NEW i \in 1 .. Len(w.nic[h].group),
           GetBytesLeft(w.qp[w.nic[h].group[i]]) > 0, NEW A, NEW X,
           Net(w, A), Groups(w), Woken(w, X)
    PROVE  Sent(w, TransmitData(w, h, i), h, A, X)
<1> DEFINE c == w.nic[h].group[i]
           q == w.qp[c]
           f == [kind |-> "data", of |-> c, seq |-> q.nxt,
                 size |-> IF q.nxt = Head(q.msgs).start THEN Head(q.msgs).size ELSE NoSize]
           p == [q EXCEPT !.nxt = q.nxt + 1]
           n == [w.nic[h] EXCEPT !.last = i - 1]
           u == [w EXCEPT !.qp = [w.qp EXCEPT ![c] = p], !.nic = [w.nic EXCEPT ![h] = n]]
           v == TransmitData(w, h, i)
<1>1. /\ c \in Client /\ At[c] = h /\ q.live /\ q.msgs # <<>>
      /\ InProgress(q, w.rx[c]) /\ q.nxt < EndOf(q) /\ EndOf(q) \in Nat
      /\ Head(q.msgs) = q.msgs[1] /\ q.msgs[1] \in Message
  BY NextPacket, Zenon
<1>2. v = Transmit(u, h, f)
  BY Zenon DEF TransmitData
<1> HIDE DEF v
<1>3. q \in Pair /\ w.nic[h] \in Transmitter /\ q.nxt \in Nat /\ At[c] \in Host /\ At[To[c]] # h
  <2>1. w.nic[h] \in Transmitter
    BY HostTypes, Zenon
  <2>2. c \in Client /\ At[c] = h
    BY <1>1, Zenon
  <2> HIDE DEF c
  <2>3. w.qp[c] \in Pair /\ w.qp[c].nxt \in Nat /\ At[c] \in Host /\ At[To[c]] # At[c]
    BY <2>2, PairTypes
  <2> QED
    BY <2>1, <2>2, <2>3
<1>4. /\ f \in Frame /\ f.kind = "data" /\ f.of = c /\ f.seq = q.nxt
      /\ f.size = IF q.nxt = q.msgs[1].start THEN q.msgs[1].size ELSE NoSize
  <2>1. q.msgs[1].size \in Nat
    BY <1>1, Zenon DEF Message
  <2> HIDE DEF c, q
  <2> QED
    BY <1>1, <1>3, <2>1 DEF Frame
<1>5. /\ p \in Pair /\ p.nxt = q.nxt + 1 /\ p.msgs = q.msgs /\ p.una = q.una /\ p.live = q.live
  <2> HIDE DEF q
  <2> QED
    BY <1>3 DEF Pair
<1>6. /\ n \in Transmitter /\ n.acks = w.nic[h].acks /\ n.group = w.nic[h].group
  <2> DEFINE t == w.nic[h]
  <2>1. t \in Transmitter /\ i - 1 \in Nat
    BY <1>3
  <2> HIDE DEF t, c, q, f, p
  <2>2. /\ [t EXCEPT !.last = i - 1] \in Transmitter
        /\ [t EXCEPT !.last = i - 1].acks = t.acks /\ [t EXCEPT !.last = i - 1].group = t.group
    BY <2>1 DEF Transmitter
  <2> QED
    BY <2>2 DEF t
<1> HIDE DEF p, n, q, c, f
<1>7. u \in Worlds
  BY <1>1, <1>5, <1>6 DEF Worlds
<1>8. /\ u.nic = [w.nic EXCEPT ![h] = n] /\ u.qp = [w.qp EXCEPT ![c] = p]
      /\ u.link = w.link /\ u.rx = w.rx /\ u.end = w.end /\ u.held = w.held
      /\ u.mtp = w.mtp /\ u.program = w.program /\ u.op = w.op
      /\ u.finished = w.finished /\ u.announced = w.announced /\ u.forgotten = w.forgotten
  BY DEF Worlds
<1> HIDE DEF u
<1>9a. v \in Worlds /\ Kept(u, v) /\ Transmitted(u, v, h, f)
  BY <1>2, <1>4, <1>7, TransmitFields
<1>9. /\ v \in Worlds /\ v.qp = u.qp /\ v.rx = u.rx /\ v.end = u.end /\ v.held = u.held
      /\ Kept(u, v)
      /\ v.nic = [u.nic EXCEPT ![h] = [u.nic[h] EXCEPT !.busy = TRUE]]
      /\ v.link = [u.link EXCEPT ![h] = Append(u.link[h], f)]
  BY <1>9a DEF Transmitted
<1>10. v.qp[c] = p /\ \A d \in Client \ {c} : v.qp[d] = w.qp[d]
  BY <1>1, <1>8, <1>9 DEF Worlds
<1>11. /\ v.nic[h].acks = w.nic[h].acks /\ v.nic[h].busy /\ v.nic[h].group = w.nic[h].group
       /\ \A g \in Host \ {h} : v.nic[g] = w.nic[g]
  BY <1>6, <1>8, <1>9 DEF Worlds, Transmitter
<1>12. /\ v.link = [w.link EXCEPT ![h] = Append(@, f)]
       /\ v.rx = w.rx /\ v.end = w.end /\ v.held = w.held
  BY <1>8, <1>9
<1>13. Kept(w, v)
  <2>1. \A d \in Client : v.qp[d].msgs = w.qp[d].msgs /\ v.qp[d].live = w.qp[d].live
    BY <1>5, <1>10, Zenon DEF q
  <2> QED
    BY <1>8, <1>9, <1>12, <2>1 DEF Kept
<1>14. Routed(v)
  <2> SUFFICES ASSUME NEW g \in Host
               PROVE  /\ \A k \in 1 .. Len(v.link[g]) : RoutedBy(v.link[g][k], g)
                      /\ \A k \in 1 .. Len(v.nic[g].acks) :
                            v.nic[g].acks[k].kind = "ack" /\ RoutedBy(v.nic[g].acks[k], g)
    BY Zenon DEF Routed
  <2>1. /\ \A k \in 1 .. Len(w.link[g]) : RoutedBy(w.link[g][k], g)
        /\ \A k \in 1 .. Len(w.nic[g].acks) :
              w.nic[g].acks[k].kind = "ack" /\ RoutedBy(w.nic[g].acks[k], g)
    BY Zenon DEF Net, Routed
  <2>2. v.nic[g].acks = w.nic[g].acks
    BY <1>11
  <2>3. RoutedBy(f, h)
    BY <1>1, <1>4 DEF RoutedBy
  <2>4. \A k \in 1 .. Len(v.link[g]) :
            (g = h /\ v.link[g][k] = f) \/ (k \in 1 .. Len(w.link[g]) /\ v.link[g][k] = w.link[g][k])
    <3>1. CASE g # h
      <4>1. v.link[g] = w.link[g]
        BY <1>12, <3>1 DEF Worlds
      <4> QED
        BY <4>1
    <3>2. CASE g = h
      <4>1. w.link[h] \in Seq(Frame) /\ v.link[h] = Append(w.link[h], f)
        BY <1>12, HostTypes DEF Worlds
      <4> QED
        BY <1>4, <3>2, <4>1
    <3> QED
      BY <3>1, <3>2
  <2> QED
    BY <2>1, <2>2, <2>3, <2>4, Zenon
<1>15. ASSUME NEW d \in Client PROVE Pipe(v, d, Owed(d, A))
  <2>1. Pipe(w, d, Owed(d, A)) /\ ~Matches(f, "ack", d)
    BY <1>4 DEF Net, Matches
  <2>2. v.nic[At[To[d]]].acks = w.nic[At[To[d]]].acks
    BY <1>11, PairTypes
  <2>3. CASE d # c
    <3>1. ~Matches(f, "data", d) /\ v.qp[d] = w.qp[d] /\ v.rx[d] = w.rx[d]
      BY <1>4, <1>10, <1>12, <2>3 DEF Matches
    <3>2. /\ DataOnWay(w, d) /\ Sized(w, d) /\ AcksOnWay(w, d, Owed(d, A))
          /\ Placed(w.qp[d], w.rx[d])
      BY <2>1 DEF Pipe
    <3>3. DataOnWay(v, d) /\ Sized(v, d)
      BY <1>4, <1>12, <3>1, <3>2, DataKept
    <3>4. AcksOnWay(v, d, Owed(d, A))
      BY <1>4, <1>12, <2>1, <2>2, <3>1, <3>2, AcksKept
    <3> QED
      BY <3>1, <3>2, <3>3, <3>4 DEF Pipe
  <2>4. CASE d = c
    <3>1. /\ DataOnWay(w, c) /\ Sized(w, c) /\ AcksOnWay(w, c, Owed(c, A))
          /\ Placed(q, w.rx[c])
      BY <2>1, <2>4 DEF Pipe, q
    <3>2. Got(p, v.rx[c]) = Got(q, w.rx[c])
      BY <1>1, <1>5, <1>12 DEF Got
    <3>3. AcksOnWay(v, c, Owed(c, A))
      <4>1. v.qp[c].una = w.qp[c].una /\ Got(v.qp[c], v.rx[c]) = Got(w.qp[c], w.rx[c])
        BY <1>5, <1>10, <3>2 DEF q
      <4> QED
        BY <1>4, <1>12, <2>1, <2>2, <2>4, <3>1, <4>1, AcksKept, Zenon
    <3>4. w.link[h] \in Seq(Frame) /\ v.link[h] = Append(w.link[h], f)
      BY <1>12, HostTypes DEF Worlds
    <3>5. DataOnWay(v, c)
      <4>1. Carries(w.link[h], "data", c, Got(q, w.rx[c]), q.nxt)
        BY <1>1, <3>1 DEF DataOnWay, q
      <4>2. Advances(f, "data", c, q.nxt, q.nxt + 1)
        BY <1>4 DEF Advances, Matches
      <4>3. Carries(Append(w.link[h], f), "data", c, Got(q, w.rx[c]), q.nxt + 1)
        BY <1>3, <1>4, <3>4, <4>1, <4>2, CarriesAppend
      <4> QED
        BY <1>1, <1>5, <1>10, <3>2, <3>4, <4>3 DEF DataOnWay
    <3>6. Sized(v, c)
      <4>1. \A k \in 1 .. Len(w.link[h]) : Matches(w.link[h][k], "data", c) => SizeWith(q, w.link[h][k])
        BY <1>1, <3>1 DEF Sized, q
      <4>2. \A g : SizeWith(q, g) <=> SizeWith(p, g)
        BY <1>5 DEF SizeWith
      <4>3. SizeWith(q, f)
        BY <1>1, <1>4 DEF SizeWith
      <4>4. \A k \in 1 .. Len(v.link[h]) :
              v.link[h][k] = f \/ (k \in 1 .. Len(w.link[h]) /\ v.link[h][k] = w.link[h][k])
        BY <1>4, <3>4
      <4> QED
        BY <1>1, <1>10, <4>1, <4>2, <4>3, <4>4, Zenon DEF Sized
    <3>7. Placed(p, v.rx[c])
      <4>1. EndOf(p) = EndOf(q)
        BY <1>5 DEF EndOf
      <4>2. InProgress(p, w.rx[c])
        BY <1>1, <1>3, <1>5, <4>1 DEF InProgress
      <4> QED
        BY <1>1, <1>5, <1>12, <3>1, <4>2 DEF Placed
    <3> QED
      BY <1>10, <2>4, <3>3, <3>5, <3>6, <3>7 DEF Pipe
  <2> QED
    BY <2>3, <2>4
<1>16. Groups(v)
  <2>1. \A g \in Host : v.nic[g].group = w.nic[g].group
    BY <1>11
  <2>2. \A d \in Client : v.qp[d].live = w.qp[d].live
    BY <1>13 DEF Kept
  <2> QED
    BY <2>1, <2>2, GroupsKept
<1>17. Woken(v, X \ {h})
  <2>1. \A d \in Client : At[d] # h => v.qp[d] = w.qp[d]
    BY <1>1, <1>10
  <2> QED
    BY <1>11, <2>1, WokenThere
<1> QED
  BY <1>9, <1>12, <1>13, <1>14, <1>15, <1>16, <1>17 DEF Sent, Net, v

\* In an open world the critical section may be entered.
LEMMA SectionRuns ==
    ASSUME NEW w, Open(w), NEW after
    PROVE  Section(w, after) = after /\ Then(w, after) = after
BY DEF Open, Section, Then

\* The minimum of a set of numbers is in it.
LEMMA MinMember ==
    ASSUME NEW T \in SUBSET Nat, T # {}
    PROVE  Min(T) \in T
<1>1. \E m \in T : \A n \in T : m =< n
  BY LeastOf
<1> QED
  BY <1>1 DEF Min

\* TriggerTransmit leaves its host busy or with nothing to send.
LEMMA TriggerSends ==
    ASSUME NEW w, Open(w), NEW h \in Host, NEW A, NEW X,
           Net(w, A), Groups(w), Woken(w, X)
    PROVE  Sent(w, TriggerTransmit(w, h), h, A, X)
<1> DEFINE group == w.nic[h].group
           N == Len(group)
           last == w.nic[h].last
           Turn(k) == ((k + last) % N) + 1
           ready == {k \in 1 .. N : GetBytesLeft(w.qp[group[Turn(k)]]) > 0}
           v == IF w.nic[h].busy THEN w
                ELSE IF w.nic[h].acks # <<>> THEN TransmitAck(w, h)
                ELSE IF ready # {} THEN TransmitData(w, h, Turn(Min(ready)))
                ELSE w
<1>1. TriggerTransmit(w, h) = v
  BY SectionRuns, Zenon DEF TriggerTransmit
<1>2. w \in Worlds /\ group \in Seq(Client) /\ N \in Nat /\ last \in Nat /\ w.nic[h].busy \in BOOLEAN
  <2>1. w \in Worlds
    BY DEF Open
  <2> QED
    BY <2>1, HostTypes
<1>3. Kept(w, w)
  BY DEF Kept
<1>4. w.nic[h].busy \/ Asleep(w, h) => Sent(w, w, h, A, X)
  <2>1. w.nic[h].busy \/ Asleep(w, h) => Woken(w, X \ {h})
    BY DEF Woken
  <2> QED
    BY <1>2, <1>3, <2>1 DEF Sent
<1>5. CASE w.nic[h].busy
  BY <1>1, <1>4, <1>5
<1>6. CASE ~w.nic[h].busy /\ w.nic[h].acks # <<>>
  <2>1. v = TransmitAck(w, h)
    BY <1>6
  <2> QED
    BY <1>1, <1>2, <1>6, <2>1, TransmitAckSends, Zenon
<1>7. CASE ~w.nic[h].busy /\ w.nic[h].acks = <<>> /\ ready # {}
  <2> DEFINE k == Min(ready)
  <2>1. k \in ready
    <3>0. ready \subseteq 1 .. N
      BY Zenon
    <3> HIDE DEF ready, v, N
    <3>1. ready \in SUBSET Nat
      BY <1>2, <3>0
    <3> QED
      BY <1>7, <3>1, MinMember
  <2>2. v = TransmitData(w, h, Turn(k))
    BY <1>7, Zenon
  <2> HIDE DEF k, v
  <2>3. k \in 1 .. N /\ GetBytesLeft(w.qp[group[Turn(k)]]) > 0
    BY <2>1, Zenon
  <2>4. Turn(k) \in 1 .. N
    <3>1. N > 0 /\ k \in 1 .. N
      BY <1>2, <2>3
    <3> HIDE DEF N, last
    <3> QED
      BY <1>2, <3>1, EveryTurn
  <2> HIDE DEF Turn
  <2> QED
    BY <1>1, <1>2, <2>2, <2>3, <2>4, TransmitDataSends
<1>8. CASE ~w.nic[h].busy /\ w.nic[h].acks = <<>> /\ ready = {}
  <2>1. v = w
    BY <1>8, Zenon
  <2>2. ASSUME NEW i \in 1 .. N PROVE GetBytesLeft(w.qp[group[i]]) = 0
    <3>1. N > 0
      BY <1>2
    <3>2. PICK k \in 1 .. N : Turn(k) = i
      BY <1>2, <3>1, EveryTurn, Zenon
    <3>3. ~(GetBytesLeft(w.qp[group[i]]) > 0)
      BY <1>8, <3>2, Zenon
    <3>4. group[i] \in Client
      BY <1>2
    <3>5. GetBytesLeft(w.qp[group[i]]) \in Nat
      BY <1>2, <3>4, PairTypes, BytesLeft
    <3> QED
      BY <3>3, <3>5
  <2>3. Asleep(w, h)
    BY <1>8, <2>2, Zenon DEF Asleep
  <2> QED
    BY <1>1, <1>4, <2>1, <2>3, Zenon
<1> QED
  BY <1>2, <1>5, <1>6, <1>7, <1>8, Zenon

----------------------------------------------------------------------------
(***************************************************************************)
(* The queue pair's own operations                                         *)
(***************************************************************************)
LEMMA RoutedSame ==
    ASSUME NEW w, NEW v, Routed(w),
           \A h \in Host : v.link[h] = w.link[h] /\ v.nic[h].acks = w.nic[h].acks
    PROVE  Routed(v)
<1> SUFFICES ASSUME NEW h \in Host
             PROVE  /\ \A i \in 1 .. Len(v.link[h]) : RoutedBy(v.link[h][i], h)
                    /\ \A i \in 1 .. Len(v.nic[h].acks) :
                          v.nic[h].acks[i].kind = "ack" /\ RoutedBy(v.nic[h].acks[i], h)
  BY Zenon DEF Routed
<1>1. v.link[h] = w.link[h] /\ v.nic[h].acks = w.nic[h].acks
  OBVIOUS
<1>2. /\ \A i \in 1 .. Len(w.link[h]) : RoutedBy(w.link[h][i], h)
      /\ \A i \in 1 .. Len(w.nic[h].acks) :
            w.nic[h].acks[i].kind = "ack" /\ RoutedBy(w.nic[h].acks[i], h)
  BY Zenon DEF Routed
<1> QED
  BY <1>1, <1>2, Zenon

\* The transport goes by four fields of the world.
LEMMA SameWorld ==
    ASSUME NEW w, NEW v, v.qp = w.qp, v.nic = w.nic, v.rx = w.rx, v.link = w.link
    PROVE  /\ \A A : Net(w, A) => Net(v, A)
           /\ Groups(w) => Groups(v)
           /\ \A X : Woken(w, X) => Woken(v, X)
<1>1. ASSUME NEW A, Net(w, A) PROVE Net(v, A)
  <2>1. Routed(v)
    BY <1>1, RoutedSame, Zenon DEF Net
  <2>2. \A c \in Client : Pipe(v, c, Owed(c, A))
    BY <1>1, PipeSame, Zenon DEF Net
  <2> QED
    BY <2>1, <2>2 DEF Net
<1>2. Groups(w) => Groups(v)
  BY DEF Groups
<1>3. ASSUME NEW X, Woken(w, X) PROVE Woken(v, X)
  BY <1>3, Zenon DEF Woken, Asleep
<1> QED
  BY <1>1, <1>2, <1>3, Zenon

\* Acknowledgements follow what the receiver took, and that what was sent.
LEMMA InOrder ==
    ASSUME NEW w \in Worlds, NEW c \in Client, NEW owed \in {0, 1}, Pipe(w, c, owed)
    PROVE  LET got == Got(w.qp[c], w.rx[c])
           IN  got \in Nat /\ w.qp[c].una + owed <= got /\ got <= w.qp[c].nxt
<1> DEFINE got == Got(w.qp[c], w.rx[c])
           L == w.link[At[c]]
           K == w.link[At[To[c]]]
           Q == w.nic[At[To[c]]].acks
<1>1. L \in Seq(Frame) /\ K \in Seq(Frame) /\ Q \in Seq(Frame)
  BY PairTypes, HostTypes
<1>2. w.qp[c].una \in Nat /\ w.qp[c].nxt \in Nat /\ got \in Nat
  BY PairTypes DEF Got
<1> HIDE DEF got, L, K, Q
<1>3. Carries(L, "data", c, got, w.qp[c].nxt)
  BY DEF Pipe, DataOnWay, got, L
<1>4. PICK m \in Nat : Carries(K, "ack", c, w.qp[c].una, m) /\ Carries(Q, "ack", c, m, got - owed)
  BY DEF Pipe, AcksOnWay, got, K, Q
<1>5. got <= w.qp[c].nxt
  BY <1>1, <1>3, CarriesBounds
<1>6. w.qp[c].una <= m
  BY <1>1, <1>4, CarriesBounds
<1>7. m <= got - owed
  BY <1>1, <1>4, CarriesBounds
<1>8. w.qp[c].una + owed <= got
  BY <1>2, <1>6, <1>7
<1> QED
  BY <1>2, <1>5, <1>8 DEF got

\* With everything acknowledged, nothing of c is on the way to the receiver.
LEMMA Quiet ==
    ASSUME NEW w \in Worlds, NEW c \in Client, NEW owed \in {0, 1}, Pipe(w, c, owed),
           w.qp[c].una = w.qp[c].nxt
    PROVE  /\ owed = 0 /\ Got(w.qp[c], w.rx[c]) = w.qp[c].nxt
           /\ \A i \in 1 .. Len(w.link[At[c]]) : ~Matches(w.link[At[c]][i], "data", c)
<1> DEFINE got == Got(w.qp[c], w.rx[c])
           L == w.link[At[c]]
<1>1. w.qp[c].nxt \in Nat /\ got \in Nat /\ w.qp[c].una + owed <= got /\ got <= w.qp[c].nxt
  BY InOrder, PairTypes
<1>2. L \in Seq(Frame)
  BY PairTypes, HostTypes
<1> HIDE DEF got, L
<1>3. owed = 0 /\ got = w.qp[c].nxt
  BY <1>1
<1>4. Carries(L, "data", c, got, w.qp[c].nxt)
  BY DEF Pipe, DataOnWay, got, L
<1>5. ASSUME NEW i \in 1 .. Len(L), Matches(L[i], "data", c) PROVE FALSE
  <2>1. got <= L[i].seq /\ L[i].seq < w.qp[c].nxt
    BY <1>2, <1>4, <1>5, CarriesBounds
  <2>2. L[i] \in Frame
    BY <1>2
  <2>3. L[i].seq \in Nat
    BY <2>2 DEF Frame
  <2> QED
    BY <1>1, <1>3, <2>1, <2>3
<1> QED
  BY <1>3, <1>5 DEF got, L

\* Without a message everything is acknowledged.
LEMMA NothingOut ==
    ASSUME NEW w \in Worlds, NEW c \in Client, NEW owed \in {0, 1}, Pipe(w, c, owed),
           w.qp[c].msgs = <<>> \/ ~w.qp[c].live
    PROVE  /\ w.qp[c].una = w.qp[c].nxt /\ w.rx[c].left = NoSize
           /\ owed = 0 /\ Got(w.qp[c], w.rx[c]) = w.qp[c].nxt
           /\ \A i \in 1 .. Len(w.link[At[c]]) : ~Matches(w.link[At[c]][i], "data", c)
<1>1. w.qp[c].una = w.qp[c].nxt /\ w.rx[c].left = NoSize
  BY DEF Pipe, Placed
<1> QED
  BY <1>1, Quiet

\* The transport of a world, closed or open
Moving(w, A, X) == w \in Worlds /\ Net(w, A) /\ Groups(w) /\ Woken(w, X)

\* A receiver owes at most one acknowledgement.
LEMMA OwedType == ASSUME NEW c, NEW A PROVE Owed(c, A) \in {0, 1}
BY DEF Owed

\* What Append does
LEMMA AppendFacts ==
    ASSUME NEW T, NEW s \in Seq(T), NEW x \in T, NEW t, t = Append(s, x)
    PROVE  /\ Len(t) = Len(s) + 1 /\ Len(s) \in Nat /\ t # <<>>
           /\ t[Len(s) + 1] = x
           /\ \A i \in 1 .. Len(s) : t[i] = s[i]
           /\ s = <<>> => t[1] = x /\ Len(s) = 0
           /\ s # <<>> => t[1] = s[1] /\ Len(s) > 0
<1>1. /\ Len(t) = Len(s) + 1 /\ Len(s) \in Nat /\ t # <<>>
      /\ t[Len(s) + 1] = x
      /\ \A i \in 1 .. Len(s) : t[i] = s[i]
  OBVIOUS
<1>2. CASE s = <<>>
  BY <1>1, <1>2
<1>3. CASE s # <<>>
  <2>1. Len(s) > 0
    BY <1>3
  <2> QED
    BY <1>1, <1>3, <2>1
<1> QED
  BY <1>1, <1>2, <1>3

\* All that pushing a message changes
Pushed(w, v, c, size) ==
    /\ \A d \in Client \ {c} : v.qp[d] = w.qp[d]
    /\ v.qp[c].live = w.qp[c].live
    /\ Len(v.qp[c].msgs) = Len(w.qp[c].msgs) + 1
    /\ w.qp[c].msgs = <<>> =>
         v.qp[c].msgs[1].start = w.qp[c].nxt /\ v.qp[c].msgs[1].size = size
    /\ v.mtp = w.mtp /\ v.program = w.program /\ v.op = w.op /\ v.rx = w.rx
    /\ v.finished = w.finished /\ v.announced = w.announced /\ v.forgotten = w.forgotten

\* A message more
LEMMA PushMessageMoves ==
    ASSUME NEW w, Open(w), NEW c \in Client, NEW size \in Nat \ {0}, NEW A, NEW X, Moving(w, A, X),
           NEW v, v = PushMessage(w, c, size)
    PROVE  Open(v) /\ Moving(v, A, X \cup {At[c]}) /\ Pushed(w, v, c, size)
<1> DEFINE q == w.qp[c]
           M == [size |-> size, start |-> IF q.msgs = <<>> THEN q.nxt ELSE 0, set |-> q.msgs = <<>>]
           p == [q EXCEPT !.msgs = Append(q.msgs, M)]
<1>1. w \in Worlds /\ q \in Pair /\ q.msgs \in Seq(Message) /\ q.nxt \in Nat
      /\ At[c] \in Host /\ w.rx[c].next \in Nat
  BY PairTypes DEF Open
<1>2. v = [w EXCEPT !.qp = [w.qp EXCEPT ![c] = p]]
  BY SectionRuns DEF PushMessage
<1> HIDE DEF q
<1>3. M \in Message /\ M.size = size /\ (M.set <=> q.msgs = <<>>)
      /\ (q.msgs = <<>> => M.start = q.nxt)
  BY <1>1 DEF Message
<1> HIDE DEF M
<1>4. /\ p \in Pair /\ p.msgs = Append(q.msgs, M) /\ p.nxt = q.nxt /\ p.una = q.una /\ p.live = q.live
  <2>1. Append(q.msgs, M) \in Seq(Message)
    BY <1>1, <1>3
  <2> QED
    BY <1>1, <2>1 DEF Pair
<1> HIDE DEF p
<1>5. /\ v \in Worlds /\ v.qp[c] = p /\ \A d \in Client \ {c} : v.qp[d] = w.qp[d]
      /\ v.nic = w.nic /\ v.link = w.link /\ v.rx = w.rx
      /\ v.mtp = w.mtp /\ v.program = w.program /\ v.op = w.op /\ v.held = w.held /\ v.end = w.end
      /\ v.finished = w.finished /\ v.announced = w.announced /\ v.forgotten = w.forgotten
  <2> DEFINE P == [w.qp EXCEPT ![c] = p]
  <2>1. P \in [Client -> Pair] /\ P[c] = p /\ \A d \in Client \ {c} : P[d] = w.qp[d]
    BY <1>1, <1>4 DEF Worlds
  <2>2. v = [w EXCEPT !.qp = P]
    BY <1>2
  <2> HIDE DEF P
  <2> QED
    BY <1>1, <2>1, <2>2 DEF Worlds
<1>6. /\ Len(p.msgs) = Len(q.msgs) + 1 /\ p.msgs # <<>>
      /\ q.msgs = <<>> => p.msgs[1] = M
      /\ q.msgs # <<>> => p.msgs[1] = q.msgs[1]
      /\ \A i \in 1 .. Len(q.msgs) : p.msgs[i] = q.msgs[i]
      /\ p.msgs[Len(q.msgs) + 1] = M /\ Len(q.msgs) \in Nat
      /\ q.msgs = <<>> => Len(q.msgs) = 0
      /\ q.msgs # <<>> => Len(q.msgs) > 0
  <2>1. M \in Message /\ q.msgs \in Seq(Message) /\ p.msgs = Append(q.msgs, M)
    BY <1>1, <1>3, <1>4
  <2> DEFINE s == q.msgs
             t == p.msgs
  <2>2. M \in Message /\ s \in Seq(Message) /\ t = Append(s, M)
    BY <2>1
  <2> HIDE DEF s, t
  <2>3. /\ Len(t) = Len(s) + 1 /\ Len(s) \in Nat /\ t # <<>>
        /\ t[Len(s) + 1] = M
        /\ \A i \in 1 .. Len(s) : t[i] = s[i]
        /\ s = <<>> => t[1] = M /\ Len(s) = 0
        /\ s # <<>> => t[1] = s[1] /\ Len(s) > 0
    BY <2>2, AppendFacts
  <2> QED
    BY <2>3 DEF s, t
<1>7. Pipe(w, c, Owed(c, A)) /\ Owed(c, A) \in {0, 1}
  BY OwedType DEF Moving, Net
<1>8. Placed(p, w.rx[c])
  <2>1. Placed(q, w.rx[c])
    BY <1>7 DEF Pipe, q
  <2>2. \A i \in 1 .. Len(p.msgs) : p.msgs[i].size > 0 /\ (p.msgs[i].set <=> i = 1)
    <3> SUFFICES ASSUME NEW i \in 1 .. Len(p.msgs)
                 PROVE  p.msgs[i].size > 0 /\ (p.msgs[i].set <=> i = 1)
      OBVIOUS
    <3>1. CASE i = Len(q.msgs) + 1
      <4>1. p.msgs[i] = M /\ (q.msgs = <<>> <=> i = 1)
        BY <1>6, <3>1
      <4> QED
        BY <1>3, <4>1
    <3>2. CASE i # Len(q.msgs) + 1
      <4>1. i \in 1 .. Len(q.msgs)
        BY <1>6, <3>2
      <4> QED
        BY <1>6, <2>1, <4>1, Zenon DEF Placed
    <3> QED
      BY <3>1, <3>2
  <2>3. CASE ~q.live
    BY <1>4, <2>1, <2>2, <2>3 DEF Placed
  <2>4. CASE q.live /\ q.msgs # <<>>
    <3>1. InProgress(q, w.rx[c])
      BY <2>1, <2>4 DEF Placed
    <3>2. InProgress(p, w.rx[c])
      BY <1>4, <1>6, <2>4, <3>1 DEF InProgress, EndOf
    <3> QED
      BY <1>4, <1>6, <2>2, <2>4, <3>2 DEF Placed
  <2>5. CASE q.live /\ q.msgs = <<>>
    <3>1. q.una = q.nxt /\ w.rx[c].left = NoSize /\ Got(q, w.rx[c]) = q.nxt
      BY <1>1, <1>7, <2>5, NothingOut DEF q
    <3>2. w.rx[c].next = q.nxt
      BY <2>5, <3>1 DEF Got
    <3>3. p.msgs[1].start = q.nxt /\ p.msgs[1].size = size
      BY <1>3, <1>6, <2>5
    <3>4. InProgress(p, w.rx[c])
      BY <1>1, <1>4, <3>1, <3>2, <3>3 DEF InProgress, EndOf
    <3> QED
      BY <1>4, <1>6, <2>2, <2>5, <3>4 DEF Placed
  <2> QED
    BY <2>3, <2>4, <2>5
<1>9. Pipe(v, c, Owed(c, A))
  <2>1. DataOnWay(w, c) /\ AcksOnWay(w, c, Owed(c, A)) /\ Sized(w, c)
    BY <1>7 DEF Pipe
  <2>2. Got(p, w.rx[c]) = Got(q, w.rx[c])
    BY <1>4 DEF Got
  <2>3. DataOnWay(v, c)
    BY <1>4, <1>5, <2>1, <2>2 DEF DataOnWay, q
  <2>4. AcksOnWay(v, c, Owed(c, A))
    BY <1>4, <1>5, <2>1, <2>2 DEF AcksOnWay, q
  <2>5. \A f : SizeWith(q, f) => SizeWith(p, f)
    BY <1>6 DEF SizeWith
  <2>6. Sized(v, c)
    BY <1>5, <2>1, <2>5, Zenon DEF Sized, q
  <2> QED
    BY <1>5, <1>8, <2>3, <2>4, <2>6 DEF Pipe
<1>10. Net(v, A)
  <2>1. Routed(v)
    BY <1>5, RoutedSame, Zenon DEF Moving, Net
  <2>2. \A d \in Client \ {c} : Pipe(v, d, Owed(d, A))
    BY <1>5, PipeSame, Zenon DEF Moving, Net
  <2> QED
    BY <1>9, <2>1, <2>2, Zenon DEF Net
<1>11. Groups(v)
  <2>1. \A d \in Client : v.qp[d].live = w.qp[d].live
    BY <1>4, <1>5, Zenon DEF q
  <2>2. \A g \in Host : v.nic[g].group = w.nic[g].group
    BY <1>5
  <2> QED
    BY <1>1, <2>1, <2>2, GroupsKept DEF Moving
<1>12. Woken(v, X \cup {At[c]})
  <2>1. \A d \in Client : At[d] # At[c] => v.qp[d] = w.qp[d]
    BY <1>5
  <2>2. \A g \in Host \ {At[c]} : v.nic[g] = w.nic[g]
    BY <1>5
  <2> QED
    BY <1>1, <2>1, <2>2, WokenThere DEF Moving
<1>13. Open(v)
  BY <1>5 DEF Open
<1>14. w.qp[c].msgs = <<>> => v.qp[c].msgs[1].start = w.qp[c].nxt /\ v.qp[c].msgs[1].size = size
  BY <1>3, <1>5, <1>6 DEF q
<1>15. Len(v.qp[c].msgs) = Len(w.qp[c].msgs) + 1 /\ v.qp[c].live = w.qp[c].live
  BY <1>4, <1>5, <1>6 DEF q
<1> QED
  BY <1>5, <1>10, <1>11, <1>12, <1>13, <1>14, <1>15 DEF Moving, Pushed

\* RemoveFinishedQps keeps members that have a message, and no others.
Step(qps, group, before, n) ==
    IF n = 0 THEN <<>>
    ELSE IF qps[group[n]].msgs = <<>> THEN before[n - 1]
    ELSE Append(before[n - 1], group[n])

IsKept(k, qps, group) == k = [n \in 0 .. Len(group) |-> Step(qps, group, k, n)]

\* Members after are members before that have a message.
LEMMA UnfinishedMembers ==
    ASSUME NEW qps, NEW group \in Seq(Client)
    PROVE  /\ Unfinished(qps, group) \in Seq(Client)
           /\ \A i \in 1 .. Len(Unfinished(qps, group)) : \E j \in 1 .. Len(group) :
                Unfinished(qps, group)[i] = group[j] /\ qps[group[j]].msgs # <<>>
<1> DEFINE N == Len(group)
           Upto(k, n) == \A m \in 0 .. n : k[m] = Step(qps, group, k, m)
           G == {n \in Nat : \E k : Upto(k, n)}
<1>1. N \in Nat
  OBVIOUS
<1> HIDE DEF N
<1>2. \A n \in G : n + 1 \in G
  <2> SUFFICES ASSUME NEW n \in Nat, NEW k, Upto(k, n) PROVE \E g : Upto(g, n + 1)
    <3> HIDE DEF Upto
    <3> QED
      OBVIOUS
  <2> DEFINE g == [m \in 0 .. n + 1 |-> IF m = n + 1 THEN Step(qps, group, k, m) ELSE k[m]]
  <2>1. \A m \in 0 .. n : g[m] = k[m]
    OBVIOUS
  <2>2. g[n + 1] = Step(qps, group, k, n + 1)
    OBVIOUS
  <2> HIDE DEF g
  <2>3. ASSUME NEW m \in 0 .. n + 1 PROVE g[m] = Step(qps, group, g, m)
    <3>1. CASE m = 0
      BY <2>1, <3>1 DEF Step
    <3>2. CASE m # 0
      <4>1. m - 1 \in 0 .. n /\ (m = n + 1 \/ m \in 0 .. n)
        BY <3>2
      <4>2. g[m - 1] = k[m - 1]
        BY <2>1, <4>1
      <4>3. Step(qps, group, g, m) = Step(qps, group, k, m)
        BY <3>2, <4>2, Zenon DEF Step
      <4>4. CASE m = n + 1
        BY <2>2, <4>3, <4>4, Zenon
      <4>5. CASE m \in 0 .. n
        BY <2>1, <4>3, <4>5, Zenon
      <4> QED
        BY <4>1, <4>4, <4>5
    <3> QED
      BY <3>1, <3>2
  <2> QED
    BY <2>3
<1>3. 0 \in G
  <2>1. Upto([m \in {0} |-> <<>>], 0)
    BY DEF Step
  <2> QED
    BY <2>1
<1>4. G = Nat
  <2> HIDE DEF G
  <2>1. G \in SUBSET Nat
    BY DEF G
  <2> QED
    BY <1>2, <1>3, <2>1, NumberInduction
<1>5. PICK k : Upto(k, N)
  BY <1>1, <1>4
<1> DEFINE f == [m \in 0 .. N |-> k[m]]
<1>6. IsKept(f, qps, group)
  <2>1. f = [m \in 0 .. N |-> f[m]]
    OBVIOUS
  <2>2. \A m \in 0 .. N : f[m] = k[m]
    OBVIOUS
  <2> HIDE DEF f
  <2>3. ASSUME NEW m \in 0 .. N PROVE f[m] = Step(qps, group, f, m)
    <3>1. k[m] = Step(qps, group, k, m)
      BY <1>5
    <3>2. CASE m = 0
      BY <2>2, <3>1, <3>2 DEF Step
    <3>3. CASE m # 0
      <4>1. m - 1 \in 0 .. N
        BY <1>1, <3>3
      <4>2. f[m - 1] = k[m - 1]
        BY <2>2, <4>1
      <4> QED
        BY <2>2, <3>1, <3>3, <4>2, Zenon DEF Step
    <3> QED
      BY <3>2, <3>3
  <2> QED
    BY <2>1, <2>3, Zenon DEF IsKept, N
<1> DEFINE kept == CHOOSE x : IsKept(x, qps, group)
<1>7. IsKept(kept, qps, group)
  BY <1>6, Zenon
<1>8. Unfinished(qps, group) = kept[N]
  BY Zenon DEF Unfinished, IsKept, Step, N
<1> HIDE DEF kept, f
<1>9. \A n \in 0 .. N : kept[n] = Step(qps, group, kept, n)
  BY <1>1, <1>7 DEF IsKept, N
<1> DEFINE Member(x) == \E j \in 1 .. N : x = group[j] /\ qps[group[j]].msgs # <<>>
           Claim(n) == kept[n] \in Seq(Client) /\ \A i \in 1 .. Len(kept[n]) : Member(kept[n][i])
           H == {n \in Nat : n <= N => Claim(n)}
<1>10. Claim(0)
  <2>1. kept[0] = <<>>
    BY <1>1, <1>9 DEF Step
  <2> QED
    BY <2>1
<1>11. \A n \in H : n + 1 \in H
  <2> SUFFICES ASSUME NEW n \in Nat, n <= N => Claim(n), n + 1 <= N PROVE Claim(n + 1)
    <3> HIDE DEF Claim
    <3> QED
      OBVIOUS
  <2>1. Claim(n) /\ n + 1 \in 0 .. N /\ n + 1 \in 1 .. N /\ (n + 1) - 1 = n /\ n + 1 # 0
    BY <1>1
  <2>2. kept[n + 1] = Step(qps, group, kept, n + 1)
    BY <1>9, <2>1
  <2>3. CASE qps[group[n + 1]].msgs = <<>>
    <3>1. kept[n + 1] = kept[n]
      BY <2>1, <2>2, <2>3, Zenon DEF Step
    <3> QED
      BY <2>1, <3>1, Zenon
  <2>4. CASE qps[group[n + 1]].msgs # <<>>
    <3> DEFINE s == kept[n]
               t == kept[n + 1]
               x == group[n + 1]
    <3>1. t = Append(s, x)
      BY <2>1, <2>2, <2>4, Zenon DEF Step
    <3>2. x \in Client /\ Member(x)
      BY <2>1, <2>4 DEF N
    <3>3. s \in Seq(Client) /\ \A i \in 1 .. Len(s) : Member(s[i])
      BY <2>1
    <3> HIDE DEF s, t, x, Member
    <3>4. t \in Seq(Client) /\ \A i \in 1 .. Len(t) : t[i] = x \/ (i \in 1 .. Len(s) /\ t[i] = s[i])
      BY <3>1, <3>2, <3>3
    <3>5. t \in Seq(Client) /\ \A i \in 1 .. Len(t) : Member(t[i])
      BY <3>2, <3>3, <3>4, Zenon
    <3> QED
      BY <3>5 DEF t
  <2> QED
    BY <2>3, <2>4
<1>12. H = Nat
  <2>1. 0 \in H
    BY <1>10
  <2> HIDE DEF H
  <2>2. H \in SUBSET Nat
    BY DEF H
  <2> QED
    BY <1>11, <2>1, <2>2, NumberInduction
<1>13. Claim(N)
  <2> HIDE DEF Claim
  <2>1. N \in H
    BY <1>1, <1>12
  <2> QED
    BY <1>1, <2>1
<1> QED
  BY <1>8, <1>13, Zenon DEF N

\* A queue pair is finished when everything of it is acknowledged and received.
LEMMA FinishQpMoves ==
    ASSUME NEW w, Open(w), NEW c \in Client, NEW A, NEW X, Moving(w, A, X),
           w.qp[c].live, w.qp[c].msgs = <<>>,
           NEW v, v = FinishQp(w, c)
    PROVE  /\ Open(v) /\ Moving(v, A, X)
           /\ \A d \in Client \ {c} : v.qp[d] = w.qp[d] /\ v.rx[d] = w.rx[d]
           /\ ~v.qp[c].live /\ v.qp[c].msgs = <<>>
           /\ v.mtp = w.mtp /\ v.program = w.program /\ v.op = w.op
           /\ v.finished = w.finished /\ v.announced = w.announced /\ v.forgotten = w.forgotten
<1> DEFINE h == At[c]
           q == w.qp[c]
           group == w.nic[h].group
           gone == {i \in 1 .. Len(group) : i - 1 < w.nic[h].last /\ w.qp[group[i]].msgs = <<>>}
           less == Unfinished(w.qp, group)
           n == [w.nic[h] EXCEPT !.group = less, !.last = w.nic[h].last - Cardinality(gone)]
           p == [q EXCEPT !.live = FALSE]
           P == [w.qp EXCEPT ![c] = p]
           N == [w.nic EXCEPT ![h] = n]
           R == [w.rx EXCEPT ![c] = NoRx]
<1>1. /\ w \in Worlds /\ q \in Pair /\ h \in Host /\ w.nic[h] \in Transmitter /\ group \in Seq(Client)
      /\ w.nic[h].last \in Nat /\ q.live /\ q.msgs = <<>> /\ q.nxt \in Nat
  BY PairTypes, HostTypes DEF Open
<1>2. v = [w EXCEPT !.nic = N, !.rx = R, !.qp = P]
  <2>1. v = DeleteQueuePair(RemoveFinishedQps(w, h), c)
    BY SectionRuns DEF FinishQp
  <2> HIDE DEF gone, less, group
  <2>2. RemoveFinishedQps(w, h) = [w EXCEPT !.nic = N]
    BY <1>1, Zenon DEF RemoveFinishedQps, gone, less, group, Worlds
  <2> HIDE DEF N, p
  <2>3. DeleteQueuePair([w EXCEPT !.nic = N], c) = [w EXCEPT !.nic = N, !.rx = R, !.qp = P]
    BY <1>1 DEF DeleteQueuePair, Worlds, p
  <2> QED
    BY <2>1, <2>2, <2>3
<1>3. p \in Pair /\ ~p.live /\ p.msgs = <<>> /\ p.nxt = q.nxt /\ p.una = q.una
  <2> HIDE DEF q
  <2> QED
    BY <1>1 DEF Pair
<1>4. w.nic[h].last - Cardinality(gone) \in Nat
  <2> DEFINE last == w.nic[h].last
  <2>1. gone \subseteq 1 .. last
    BY <1>1
  <2> HIDE DEF gone, last
  <2>2. IsFiniteSet(1 .. last) /\ Cardinality(1 .. last) = last /\ last \in Nat
    <3>1. last \in Nat
      BY <1>1 DEF last
    <3>2. IsFiniteSet(1 .. last) /\ Cardinality(1 .. last) = IF 1 > last THEN 0 ELSE last - 1 + 1
      BY <3>1, FS_Interval
    <3> QED
      BY <3>1, <3>2
  <2>3. IsFiniteSet(gone) /\ Cardinality(gone) <= last
    BY <2>1, <2>2, FS_Subset
  <2>4. Cardinality(gone) \in Nat
    BY <2>3, FS_CardinalityType
  <2> QED
    BY <2>2, <2>3, <2>4 DEF last
<1>5. /\ less \in Seq(Client)
      /\ \A i \in 1 .. Len(less) : \E j \in 1 .. Len(group) : less[i] = group[j] /\ w.qp[group[j]].msgs # <<>>
  BY <1>1, UnfinishedMembers, Zenon
<1> HIDE DEF less, gone, group, q
<1>6. n \in Transmitter /\ n.acks = w.nic[h].acks /\ n.group = less /\ n.busy = w.nic[h].busy
  BY <1>1, <1>4, <1>5 DEF Transmitter
<1>7. NoRx \in Receiver /\ NoRx.left = NoSize
  BY DEF NoRx, Receiver, NoSize
<1> HIDE DEF n, p, NoRx
<1>8. /\ P \in [Client -> Pair] /\ P[c] = p /\ \A d \in Client \ {c} : P[d] = w.qp[d]
      /\ N \in [Host -> Transmitter] /\ N[h] = n /\ \A g \in Host \ {h} : N[g] = w.nic[g]
      /\ R \in [Client -> Receiver] /\ R[c] = NoRx /\ \A d \in Client \ {c} : R[d] = w.rx[d]
  BY <1>1, <1>3, <1>6, <1>7 DEF Worlds
<1> HIDE DEF P, N, R
<1>9. /\ v \in Worlds /\ v.qp = P /\ v.nic = N /\ v.rx = R /\ v.link = w.link
      /\ v.mtp = w.mtp /\ v.program = w.program /\ v.op = w.op /\ v.held = w.held /\ v.end = w.end
      /\ v.finished = w.finished /\ v.announced = w.announced /\ v.forgotten = w.forgotten
  BY <1>1, <1>2, <1>8 DEF Worlds
<1>10. Net(w, A) /\ Groups(w) /\ Woken(w, X)
  BY DEF Moving
<1>11. \A g \in Host : v.link[g] = w.link[g] /\ v.nic[g].acks = w.nic[g].acks
  BY <1>6, <1>8, <1>9
<1>12. Pipe(v, c, Owed(c, A))
  <2>1. Pipe(w, c, Owed(c, A)) /\ Owed(c, A) \in {0, 1}
    BY <1>10, OwedType DEF Net
  <2>2. /\ q.una = q.nxt /\ w.rx[c].left = NoSize
        /\ Got(q, w.rx[c]) = q.nxt
        /\ \A i \in 1 .. Len(w.link[At[c]]) : ~Matches(w.link[At[c]][i], "data", c)
    BY <1>1, <2>1, NothingOut DEF q
  <2>3. v.qp[c] = p /\ v.rx[c] = NoRx /\ v.link = w.link
    BY <1>8, <1>9
  <2>4. Placed(p, NoRx)
    BY <1>3, <1>7, <2>2 DEF Placed
  <2>5. Got(p, NoRx) = Got(q, w.rx[c])
    BY <1>3, <2>2 DEF Got
  <2>6. v.nic[At[To[c]]].acks = w.nic[At[To[c]]].acks
    BY <1>1, <1>11, PairTypes
  <2>7. DataOnWay(w, c) /\ AcksOnWay(w, c, Owed(c, A))
    BY <2>1 DEF Pipe
  <2>8. DataOnWay(v, c)
    BY <1>3, <2>3, <2>5, <2>7 DEF DataOnWay, q
  <2>9. AcksOnWay(v, c, Owed(c, A))
    BY <1>3, <2>3, <2>5, <2>6, <2>7 DEF AcksOnWay, q
  <2>10. Sized(v, c)
    BY <2>2, <2>3 DEF Sized
  <2> QED
    BY <2>3, <2>4, <2>8, <2>9, <2>10 DEF Pipe
<1>13. Net(v, A)
  <2>1. Routed(v)
    BY <1>10, <1>11, RoutedSame DEF Net
  <2>2. ASSUME NEW d \in Client, d # c PROVE Pipe(v, d, Owed(d, A))
    <3>1. v.qp[d] = w.qp[d] /\ v.rx[d] = w.rx[d]
      BY <1>8, <1>9, <2>2
    <3>2. v.nic[At[To[d]]].acks = w.nic[At[To[d]]].acks
      BY <1>1, <1>11, PairTypes
    <3> QED
      BY <1>9, <1>10, <3>1, <3>2, PipeSame, Zenon DEF Net
  <2> QED
    BY <1>12, <2>1, <2>2 DEF Net
<1>14. \A i \in 1 .. Len(less) : \E j \in 1 .. Len(group) :
           /\ less[i] = group[j] /\ less[i] \in Client \ {c}
           /\ At[less[i]] = h /\ w.qp[less[i]].live
  <2>1. \A j \in 1 .. Len(group) : At[group[j]] = h /\ w.qp[group[j]].live /\ group[j] \in Client
    BY <1>1, <1>10 DEF Groups, group
  <2>2. w.qp[c].msgs = <<>>
    BY <1>1 DEF q
  <2> QED
    BY <1>5, <2>1, <2>2, Zenon
<1>15. Groups(v)
  <2> SUFFICES ASSUME NEW g \in Host, NEW i \in 1 .. Len(v.nic[g].group)
               PROVE  At[v.nic[g].group[i]] = g /\ v.qp[v.nic[g].group[i]].live
    BY Zenon DEF Groups
  <2>1. CASE g = h
    <3>1. v.nic[g].group = less
      BY <1>6, <1>8, <1>9, <2>1
    <3>2. less[i] \in Client \ {c} /\ At[less[i]] = h /\ w.qp[less[i]].live
      BY <1>14, <3>1
    <3> QED
      BY <1>8, <1>9, <2>1, <3>1, <3>2
  <2>2. CASE g # h
    <3>1. v.nic[g] = w.nic[g]
      BY <1>8, <1>9, <2>2
    <3>2. w.nic[g].group[i] \in Client
      BY <1>1, <3>1, HostTypes
    <3>3. At[w.nic[g].group[i]] = g /\ w.qp[w.nic[g].group[i]].live
      BY <1>10, <3>1 DEF Groups
    <3>4. w.nic[g].group[i] # c
      BY <2>2, <3>3
    <3> QED
      BY <1>8, <1>9, <3>1, <3>2, <3>3, <3>4
  <2> QED
    BY <2>1, <2>2
<1>16. Woken(v, X)
  <2> SUFFICES ASSUME NEW g \in Host \ X, ~v.nic[g].busy PROVE Asleep(v, g)
    BY Zenon DEF Woken
  <2>1. v.nic[g].acks = w.nic[g].acks /\ v.nic[g].busy = w.nic[g].busy
    BY <1>6, <1>8, <1>9
  <2>2. Asleep(w, g)
    BY <1>10, <2>1 DEF Woken
  <2>3. CASE g = h
    <3>1. v.nic[g].group = less
      BY <1>6, <1>8, <1>9, <2>3
    <3>2. ASSUME NEW i \in 1 .. Len(less) PROVE GetBytesLeft(v.qp[less[i]]) = 0
      <4>1. PICK j \in 1 .. Len(group) : less[i] = group[j] /\ less[i] \in Client \ {c}
        BY <1>14
      <4>2. v.qp[less[i]] = w.qp[group[j]]
        BY <1>8, <1>9, <4>1
      <4>3. GetBytesLeft(w.qp[group[j]]) = 0
        BY <2>2, <2>3 DEF Asleep, group
      <4> QED
        BY <4>2, <4>3
    <3> QED
      BY <2>1, <2>2, <3>1, <3>2, Zenon DEF Asleep
  <2>4. CASE g # h
    <3>1. v.nic[g] = w.nic[g]
      BY <1>8, <1>9, <2>4
    <3>2. ASSUME NEW i \in 1 .. Len(w.nic[g].group)
          PROVE  v.qp[w.nic[g].group[i]] = w.qp[w.nic[g].group[i]]
      <4>1. w.nic[g].group[i] \in Client
        BY <1>1, HostTypes
      <4>2. At[w.nic[g].group[i]] = g
        BY <1>10 DEF Groups
      <4> QED
        BY <1>8, <1>9, <2>4, <4>1, <4>2
    <3> QED
      BY <2>2, <3>1, <3>2, Zenon DEF Asleep
  <2> QED
    BY <2>3, <2>4
<1>17. Open(v)
  BY <1>9 DEF Open
<1>18. /\ \A d \in Client \ {c} : v.qp[d] = w.qp[d] /\ v.rx[d] = w.rx[d]
       /\ ~v.qp[c].live /\ v.qp[c].msgs = <<>>
  BY <1>3, <1>8, <1>9
<1> QED
  BY <1>9, <1>13, <1>15, <1>16, <1>17, <1>18 DEF Moving

----------------------------------------------------------------------------
(***************************************************************************)
(* The clients                                                             *)
(***************************************************************************)
Before(n) == IF n = 0 THEN 0 ELSE n - 1
TellsOf(w, c) == SumFunctionOnSet(w.announced, Senders(c))

\* A client of OperationsRun in one of its operations: the message of a SEND is the only
\* one of its queue pair, and the receiver announces it when it has all of it.
AtWork(w, c) ==
    /\ w.op[c] \in 0 .. Len(w.program[c]) + 1
    /\ IF Sending(w, c) THEN Len(w.qp[c].msgs) = 1 ELSE w.qp[c].msgs = <<>>
    /\ w.qp[c].live <=> w.op[c] <= Len(w.program[c])
    /\ w.announced[c] = SendsOf(w.program[c], Before(w.op[c]))
                        + IF Sending(w, c) /\ w.rx[c].next = EndOf(w.qp[c]) THEN 1 ELSE 0
    /\ RecvsOf(w.program[c], Before(w.op[c])) + w.forgotten[c] = TellsOf(w, c)

\* ... and between two: operation op is done, and the next is about to begin.
Ready(w, c) ==
    /\ w.op[c] \in 0 .. Len(w.program[c])
    /\ w.qp[c].msgs = <<>> /\ w.qp[c].live
    /\ w.announced[c] = SendsOf(w.program[c], w.op[c])
    /\ RecvsOf(w.program[c], w.op[c]) + w.forgotten[c] = TellsOf(w, c)

\* Every flow is still to be pushed, queued or finished; the queue pairs of the flows
\* live until all are finished.
Remaining(w, fl) == [c \in FlowClients |-> fl[c] + Len(w.qp[c].msgs)]
Count(w, fl) ==
    /\ w.finished + SumFunctionOnSet(Remaining(w, fl), FlowClients) = FlowNum
    /\ w.finished < FlowNum => \A c \in FlowClients : w.qp[c].live

\* S: the clients between two operations
Clients(w, S, fl) ==
    /\ \A c \in Operators \ S : AtWork(w, c)
    /\ \A c \in S : Ready(w, c)
    /\ Count(w, fl)

Good(w, A, S, X, fl) == Open(w) /\ Moving(w, A, X) /\ Clients(w, S, fl)
Same(w, v) == v.mtp = w.mtp /\ v.program = w.program

\* The number of SENDs, one operation further
LEMMA SendsSteps ==
    ASSUME NEW list, NEW n \in Nat
    PROVE  /\ SendsOf(list, n) \in Nat
           /\ SendsOf(list, n + 1) = SendsOf(list, n) + IF list[n + 1] # Recv THEN 1 ELSE 0
           /\ SendsOf(list, 0) = 0
<1> DEFINE U(m) == {i \in 1 .. m : list[i] # Recv}
<1>1. IsFiniteSet(U(n)) /\ Cardinality(U(n)) \in Nat
  <2>1. IsFiniteSet(1 .. n)
    BY FS_Interval
  <2>2. U(n) \in SUBSET (1 .. n)
    OBVIOUS
  <2> HIDE DEF U
  <2> QED
    BY <2>1, <2>2, FS_Subset, FS_CardinalityType
<1>2. Cardinality(U(n + 1)) = Cardinality(U(n)) + IF list[n + 1] # Recv THEN 1 ELSE 0
  <2>1. CASE list[n + 1] # Recv
    <3>1. U(n + 1) = U(n) \cup {n + 1} /\ n + 1 \notin U(n)
      BY <2>1
    <3> HIDE DEF U
    <3> QED
      BY <1>1, <2>1, <3>1, FS_AddElement
  <2>2. CASE list[n + 1] = Recv
    <3>1. U(n + 1) = U(n)
      BY <2>2
    <3> HIDE DEF U
    <3> QED
      BY <1>1, <2>2, <3>1
  <2> QED
    BY <2>1, <2>2
<1>3. U(0) = {}
  OBVIOUS
<1> QED
  BY <1>1, <1>2, <1>3, FS_EmptySet DEF SendsOf

\* The types of what a client with a list has
LEMMA ProgramTypes ==
    ASSUME NEW w \in Worlds, NEW c \in Operators
    PROVE  /\ c \in Client /\ c \notin FlowClients /\ c \notin Passive
           /\ w.program[c] \in Seq(Nat) /\ Len(w.program[c]) \in Nat
           /\ w.op[c] \in Nat /\ w.announced[c] \in Nat /\ w.forgotten[c] \in Nat
<1>1. c \in Client /\ c \notin FlowClients /\ c \notin Passive
  BY ClientAssumption DEF FlowClients
<1>2. w.program \in [Operators -> Seq(Nat)]
  BY ClientAssumption DEF Worlds
<1>3. w.program[c] \in Seq(Nat)
  BY <1>2
<1> QED
  BY <1>1, <1>3 DEF Worlds

\* A client goes by its own fields.
LEMMA ClientTells ==
    ASSUME NEW w, NEW v, NEW c,
           v.program = w.program, v.op[c] = w.op[c],
           v.qp[c].msgs = w.qp[c].msgs, v.qp[c].live = w.qp[c].live, v.rx[c] = w.rx[c],
           v.announced[c] = w.announced[c], TellsOf(v, c) = TellsOf(w, c),
           v.forgotten[c] = w.forgotten[c]
    PROVE  /\ AtWork(w, c) => AtWork(v, c)
           /\ Ready(w, c) => Ready(v, c)
<1>1. EndOf(v.qp[c]) = EndOf(w.qp[c]) /\ (Sending(v, c) <=> Sending(w, c))
  BY Zenon DEF EndOf, Sending
<1>2. AtWork(w, c) => AtWork(v, c)
  BY <1>1 DEF AtWork
<1>3. Ready(w, c) => Ready(v, c)
  BY <1>1 DEF Ready
<1> QED
  BY <1>2, <1>3

\* ... with the announcements the same
LEMMA ClientSame ==
    ASSUME NEW w, NEW v, NEW c,
           v.program = w.program, v.op[c] = w.op[c],
           v.qp[c].msgs = w.qp[c].msgs, v.qp[c].live = w.qp[c].live, v.rx[c] = w.rx[c],
           v.announced = w.announced, v.forgotten[c] = w.forgotten[c]
    PROVE  /\ AtWork(w, c) => AtWork(v, c)
           /\ Ready(w, c) => Ready(v, c)
<1>1. v.announced[c] = w.announced[c] /\ TellsOf(v, c) = TellsOf(w, c)
  BY DEF TellsOf
<1> QED
  BY <1>1, ClientTells

\* The count of flows goes by the queues and the counter.
LEMMA CountSame ==
    ASSUME NEW w, NEW v, NEW fl, Count(w, fl), v.finished = w.finished,
           \A c \in FlowClients : v.qp[c].msgs = w.qp[c].msgs /\ v.qp[c].live = w.qp[c].live
    PROVE  Count(v, fl)
<1>1. Remaining(v, fl) = Remaining(w, fl)
  BY DEF Remaining
<1> QED
  BY <1>1, Zenon DEF Count

\* What a transmitter does is nothing to the clients.
LEMMA ClientsKept ==
    ASSUME NEW w, NEW v, NEW S \in SUBSET Operators, NEW fl, Clients(w, S, fl), Kept(w, v)
    PROVE  Clients(v, S, fl)
<1>1. Operators \subseteq Client /\ FlowClients \subseteq Client
  BY ClientAssumption DEF FlowClients
<1>2. ASSUME NEW c \in Operators
      PROVE  (AtWork(w, c) => AtWork(v, c)) /\ (Ready(w, c) => Ready(v, c))
  BY <1>1, ClientSame DEF Kept
<1>3. Count(v, fl)
  BY <1>1, CountSame DEF Clients, Kept
<1> QED
  BY <1>2, <1>3 DEF Clients

\* TriggerTransmit in a good world
LEMMA TriggerGood ==
    ASSUME NEW w, NEW A, NEW S \in SUBSET Operators, NEW X, NEW fl, Good(w, A, S, X, fl),
           NEW h \in Host, NEW v, v = TriggerTransmit(w, h)
    PROVE  Good(v, A, S, X \ {h}, fl) /\ Same(w, v) /\ Kept(w, v)
<1>1. Sent(w, v, h, A, X)
  BY TriggerSends DEF Good, Moving
<1>2. Clients(v, S, fl)
  BY <1>1, ClientsKept DEF Good, Sent
<1>3. Open(v)
  BY <1>1 DEF Good, Open, Sent
<1> QED
  BY <1>1, <1>2, <1>3 DEF Good, Moving, Sent, Same, Kept

\* More hosts may be idle.
LEMMA WokenMore ==
    ASSUME NEW w, NEW A, NEW X, NEW Y, X \subseteq Y, Moving(w, A, X)
    PROVE  Moving(w, A, Y)
BY DEF Moving, Woken

\* The next operation starts, or the queue pair is finished.
LEMMA NextStepGood ==
    ASSUME NEW w, NEW c \in Operators, NEW A, NEW X, NEW fl, Good(w, A, {c}, X, fl),
           NEW v, v = NextStep(w, c)
    PROVE  Good(v, A, {}, X, fl) /\ Same(w, v)
<1> DEFINE u == [w EXCEPT !.op = [w.op EXCEPT ![c] = w.op[c] + 1]]
           list == w.program[c]
           n == w.op[c]
           h == At[c]
<1>1. /\ w \in Worlds /\ c \in Client /\ c \notin FlowClients /\ list \in Seq(Nat) /\ Len(list) \in Nat
      /\ n \in 0 .. Len(list) /\ n \in Nat /\ w.qp[c].msgs = <<>> /\ w.qp[c].live
      /\ Open(w) /\ Moving(w, A, X) /\ h \in Host
      /\ w.announced[c] = SendsOf(list, n)
      /\ RecvsOf(list, n) + w.forgotten[c] = TellsOf(w, c)
  BY ProgramTypes, PairTypes DEF Good, Open, Clients, Ready
<1>2. v = RunNextStep(u, c)
  BY Zenon DEF NextStep
<1>2a. w.op[c] + 1 \in Nat
  BY <1>1
<1>3. /\ u \in Worlds /\ u.op[c] = n + 1 /\ \A d \in Operators \ {c} : u.op[d] = w.op[d]
      /\ u.qp = w.qp /\ u.nic = w.nic /\ u.rx = w.rx /\ u.link = w.link
      /\ u.mtp = w.mtp /\ u.program = w.program /\ u.held = w.held /\ u.end = w.end
      /\ u.finished = w.finished /\ u.announced = w.announced /\ u.forgotten = w.forgotten
  <2> DEFINE O == [w.op EXCEPT ![c] = w.op[c] + 1]
  <2>1. O \in [Operators -> Nat] /\ O[c] = n + 1 /\ \A d \in Operators \ {c} : O[d] = w.op[d]
    BY <1>1, <1>2a DEF Worlds
  <2> HIDE DEF O
  <2>2. u = [w EXCEPT !.op = O]
    BY DEF O
  <2> HIDE DEF u
  <2> QED
    BY <1>1, <2>1, <2>2 DEF Worlds
<1> HIDE DEF u
<1>3a. u.op[c] = n + 1 /\ u.program[c] = list
  BY <1>3
<1>4. Open(u) /\ Moving(u, A, X)
  <2>1. Open(u)
    BY <1>1, <1>3 DEF Open
  <2>2. Net(u, A) /\ Groups(u) /\ Woken(u, X)
    BY <1>1, <1>3, SameWorld, Zenon DEF Moving
  <2> QED
    BY <1>3, <2>1, <2>2 DEF Moving
<1>5. n + 1 \in Nat /\ Before(n + 1) = n /\ n + 1 \in 1 .. Len(list) + 1
  <2>1. n \in Nat /\ Len(list) \in Nat /\ n <= Len(list)
    BY <1>1
  <2>2. Before(n + 1) = n
    BY <2>1 DEF Before
  <2> QED
    BY <2>1, <2>2
<1>6. /\ \A d \in Operators \ {c} : AtWork(w, d)
      /\ Count(w, fl)
      /\ \A d \in Operators : d \in Client /\ d \notin FlowClients
      /\ \A d \in FlowClients : d \in Client \ {c}
  <2>1. \A d \in Operators : d \in Client /\ d \notin FlowClients
    BY <1>1, ProgramTypes
  <2>2. \A d \in FlowClients : d \in Client \ {c}
    BY <1>1 DEF FlowClients
  <2> QED
    BY <2>1, <2>2 DEF Good, Clients
\* What is the same for the other clients, whatever c does to its own
<1>7. ASSUME NEW x, x.program = w.program, x.op = u.op, x.announced = w.announced,
             x.forgotten = w.forgotten, x.finished = w.finished,
             \A d \in Client \ {c} : /\ x.qp[d].msgs = w.qp[d].msgs /\ x.qp[d].live = w.qp[d].live
                                     /\ x.rx[d] = w.rx[d],
             AtWork(x, c)
      PROVE  Clients(x, {}, fl)
  <2>1. ASSUME NEW d \in Operators \ {c} PROVE AtWork(x, d)
    <3>1. x.op[d] = w.op[d]
      BY <1>3, <1>7
    <3>2. d \in Client \ {c} /\ AtWork(w, d)
      BY <1>6
    <3> QED
      BY <1>7, <3>1, <3>2, ClientSame
  <2>2. Count(x, fl)
    BY <1>6, <1>7, CountSame
  <2> QED
    BY <1>7, <2>1, <2>2 DEF Clients
<1>8. CASE n + 1 > Len(list)
  <2>1. v = FinishQp(u, c)
    BY <1>2, <1>3, <1>8 DEF RunNextStep
  <2>2. /\ Open(v) /\ Moving(v, A, X)
        /\ \A d \in Client \ {c} : v.qp[d] = u.qp[d] /\ v.rx[d] = u.rx[d]
        /\ ~v.qp[c].live /\ v.qp[c].msgs = <<>>
        /\ v.mtp = u.mtp /\ v.program = u.program /\ v.op = u.op
        /\ v.finished = u.finished /\ v.announced = u.announced /\ v.forgotten = u.forgotten
    BY <1>1, <1>3, <1>4, <2>1, FinishQpMoves
  <2>3. AtWork(v, c)
    <3>1. v.op[c] = n + 1 /\ v.program[c] = list /\ ~Sending(v, c) /\ TellsOf(v, c) = TellsOf(w, c)
      BY <1>1, <1>3, <1>8, <2>2 DEF Sending, TellsOf
    <3>2. /\ v.op[c] \in 0 .. Len(v.program[c]) + 1
          /\ v.qp[c].live <=> v.op[c] <= Len(v.program[c])
      BY <1>1, <1>5, <1>8, <2>2, <3>1
    <3>3. v.announced[c] = SendsOf(list, n) /\ SendsOf(list, n) \in Nat
      BY <1>1, <1>3, <2>2, SendsSteps
    <3>4. RecvsOf(list, n) + v.forgotten[c] = TellsOf(v, c)
      BY <1>1, <1>3, <2>2, <3>1
    <3> QED
      BY <1>5, <2>2, <3>1, <3>2, <3>3, <3>4 DEF AtWork
  <2>4. Clients(v, {}, fl)
    BY <1>3, <1>7, <2>2, <2>3
  <2> QED
    BY <1>3, <2>2, <2>4 DEF Good, Same
<1>9. CASE n + 1 <= Len(list) /\ list[n + 1] = Recv
  <2>1. v = u
    <3>1. ~(u.op[c] > Len(u.program[c])) /\ u.program[c][u.op[c]] = Recv
      BY <1>1, <1>3a, <1>9
    <3> QED
      BY <1>2, <3>1, Zenon DEF RunNextStep
  <2>2. AtWork(u, c)
    <3>1. u.op[c] = n + 1 /\ u.program[c] = list /\ ~Sending(u, c) /\ TellsOf(u, c) = TellsOf(w, c)
      BY <1>1, <1>3, <1>9 DEF Sending, TellsOf
    <3>2. SendsOf(list, n) \in Nat
      BY <1>1, SendsSteps
    <3> QED
      BY <1>1, <1>3, <1>5, <1>9, <3>1, <3>2 DEF AtWork
  <2>3. Clients(u, {}, fl)
    BY <1>3, <1>7, <2>2
  <2> QED
    BY <1>3, <1>4, <2>1, <2>3 DEF Good, Same
<1>10. CASE n + 1 <= Len(list) /\ list[n + 1] # Recv
  <2> DEFINE size == list[n + 1]
             x == PushMessage(u, c, size)
  <2>1. v = TriggerTransmit(x, h)
    <3>1. ~(u.op[c] > Len(u.program[c])) /\ u.program[c][u.op[c]] = size /\ size # Recv
      BY <1>1, <1>3a, <1>10
    <3> QED
      BY <1>2, <3>1, Zenon DEF RunNextStep, DoSend
  <2>2. size \in Nat \ {0}
    <3>1. n + 1 \in 1 .. Len(list)
      BY <1>1, <1>10
    <3>2. size \in Nat
      <4>1. list \in Seq(Nat)
        BY <1>1
      <4> HIDE DEF list
      <4> QED
        BY <3>1, <4>1
    <3> QED
      BY <1>10, <3>2 DEF Recv
  <2> HIDE DEF x, size
  <2>3. x = PushMessage(u, c, size)
    BY DEF x
  <2>4. Open(x) /\ Moving(x, A, X \cup {h}) /\ Pushed(u, x, c, size)
    BY <1>1, <1>4, <2>2, <2>3, PushMessageMoves
  <2>4a. /\ \A d \in Client \ {c} : x.qp[d] = w.qp[d]
         /\ x.qp[c].live /\ Len(x.qp[c].msgs) = 1
         /\ x.qp[c].msgs[1].start = w.qp[c].nxt /\ x.qp[c].msgs[1].size = size
         /\ x.mtp = w.mtp /\ x.program = w.program /\ x.op = u.op /\ x.rx = w.rx
         /\ x.finished = w.finished /\ x.announced = w.announced /\ x.forgotten = w.forgotten
    BY <1>1, <1>3, <2>4 DEF Pushed
  <2>5. AtWork(x, c)
    <3>1. /\ x.op[c] = n + 1 /\ x.program[c] = list /\ Sending(x, c)
          /\ TellsOf(x, c) = TellsOf(w, c)
      BY <1>1, <1>3, <1>5, <1>10, <2>4a DEF Sending, TellsOf
    <3>2. Len(x.qp[c].msgs) = 1 /\ x.qp[c].live
      BY <1>1, <2>4a
    <3>3. x.rx[c].next # EndOf(x.qp[c])
      <4>1. Pipe(w, c, Owed(c, A)) /\ Owed(c, A) \in {0, 1}
        BY <1>1, OwedType DEF Moving, Net
      <4>2. Got(w.qp[c], w.rx[c]) = w.qp[c].nxt
        BY <1>1, <4>1, NothingOut
      <4>3. w.rx[c].next = w.qp[c].nxt /\ w.qp[c].nxt \in Nat
        BY <1>1, <4>2, PairTypes DEF Got
      <4>4. EndOf(x.qp[c]) = w.qp[c].nxt + size
        BY <1>1, <1>3, <2>4a DEF EndOf
      <4> QED
        BY <1>3, <2>2, <2>4a, <4>3, <4>4
    <3>4. x.announced[c] = SendsOf(list, n) /\ SendsOf(list, n) \in Nat
      BY <1>1, <1>3, <2>4a, SendsSteps
    <3>5. RecvsOf(list, n) + x.forgotten[c] = TellsOf(x, c)
      BY <1>1, <1>3, <2>4a, <3>1
    <3>6. x.op[c] \in 0 .. Len(x.program[c]) + 1 /\ x.op[c] <= Len(x.program[c])
      BY <1>1, <1>5, <1>10, <3>1
    <3> QED
      BY <1>5, <3>1, <3>2, <3>3, <3>4, <3>5, <3>6 DEF AtWork
  <2>6. Clients(x, {}, fl)
    BY <1>3, <1>7, <2>4a, <2>5
  <2>7. Good(x, A, {}, X \cup {h}, fl)
    BY <2>4, <2>6 DEF Good
  <2>8. Good(v, A, {}, (X \cup {h}) \ {h}, fl) /\ Same(x, v)
    <3>1. {} \in SUBSET Operators
      OBVIOUS
    <3> QED
      BY <1>1, <2>1, <2>7, <3>1, TriggerGood DEF x
  <2>9. Moving(v, A, X)
    <3>1. (X \cup {h}) \ {h} \subseteq X
      OBVIOUS
    <3> QED
      BY <2>8, <3>1, WokenMore DEF Good
  <2> QED
    BY <2>4a, <2>8, <2>9 DEF Good, Same
<1> QED
  BY <1>1, <1>8, <1>9, <1>10

----------------------------------------------------------------------------
(***************************************************************************)
(* A data packet arrives                                                   *)
(***************************************************************************)

\* One packet more of the message in progress
NextReceiver(r, f) ==
    LET left == IF r.left = NoSize THEN f.size ELSE r.left
    IN  [next |-> f.seq + 1, left |-> IF left = 1 THEN NoSize ELSE left - 1]

\* The receiver takes the packet it expects.
LEMMA OnePacketMore ==
    ASSUME NEW q \in Pair, NEW r \in Receiver, NEW f \in Frame, q.msgs # <<>>,
           InProgress(q, r), f.seq = r.next, r.next < q.nxt, SizeWith(q, f), q.msgs[1].size > 0
    PROVE  LET s == NextReceiver(r, f)
           IN  /\ s \in Receiver /\ InProgress(q, s) /\ s.next = r.next + 1
               /\ r.next # EndOf(q) /\ (s.left = NoSize <=> s.next = EndOf(q))
<1> DEFINE msgs == q.msgs
           start == msgs[1].start
           size == msgs[1].size
           left == IF r.left = NoSize THEN f.size ELSE r.left
           s == NextReceiver(r, f)
<1>1. msgs \in Seq(Message) /\ msgs # <<>>
  BY DEF Pair
<1>2. msgs[1] \in Message
  <2> HIDE DEF msgs
  <2> QED
    BY <1>1
<1>3. start \in Nat /\ size \in Nat /\ size > 0
  BY <1>2 DEF Message
<1>4. r.next \in Nat /\ r.left \in Nat \cup {NoSize} /\ q.nxt \in Nat /\ q.una \in Nat
  BY DEF Receiver, Pair
<1>5. EndOf(q) = start + size
  BY DEF EndOf
<1>6. /\ start <= q.una /\ q.una < EndOf(q) /\ q.nxt <= EndOf(q)
      /\ IF r.left = NoSize THEN r.next = start \/ r.next = EndOf(q)
         ELSE r.left > 0 /\ start < r.next /\ r.next + r.left = EndOf(q)
  BY DEF InProgress
<1>7. f.size = IF f.seq = start THEN size ELSE NoSize
  BY DEF SizeWith
<1>8. s = [next |-> r.next + 1, left |-> IF left = 1 THEN NoSize ELSE left - 1]
  BY DEF NextReceiver
<1> HIDE DEF start, size, msgs, s
<1>9. left \in Nat /\ left > 0 /\ start <= r.next /\ r.next + left = EndOf(q)
  <2>1. CASE r.left = NoSize
    <3>1. r.next = start /\ left = size
      BY <1>3, <1>4, <1>5, <1>6, <1>7, <2>1
    <3> QED
      BY <1>3, <1>5, <3>1
  <2>2. CASE r.left # NoSize
    <3>1. left = r.left /\ r.left \in Nat
      BY <1>4, <2>2
    <3>2. r.left > 0 /\ start < r.next /\ r.next + r.left = EndOf(q)
      BY <1>6, <2>2
    <3> HIDE DEF left
    <3> QED
      BY <1>3, <1>4, <3>1, <3>2
  <2> QED
    BY <2>1, <2>2
<1> HIDE DEF left
<1>10. s.next = r.next + 1 /\ s.left = (IF left = 1 THEN NoSize ELSE left - 1)
  BY <1>8
<1>11. s.left \in Nat \cup {NoSize} /\ s.next \in Nat
  BY <1>4, <1>9, <1>10
<1>12. s \in Receiver
  BY <1>8, <1>10, <1>11 DEF Receiver
<1>13. r.next # EndOf(q) /\ (s.left = NoSize <=> s.next = EndOf(q))
  BY <1>3, <1>4, <1>5, <1>9, <1>10 DEF NoSize
<1>14. IF s.left = NoSize THEN s.next = start \/ s.next = EndOf(q)
       ELSE s.left > 0 /\ start < s.next /\ s.next + s.left = EndOf(q)
  BY <1>3, <1>4, <1>5, <1>9, <1>10, <1>13 DEF NoSize
<1>15. InProgress(q, s)
  BY <1>6, <1>14 DEF InProgress, start, msgs
<1> QED
  BY <1>10, <1>12, <1>13, <1>15 DEF s

\* The first frame on the wire from h
Unlinked(w, h) == [w EXCEPT !.link[h] = Tail(@)]

\* All that its departure changes
Took(w, v, h) ==
    /\ v.link = [w.link EXCEPT ![h] = Tail(w.link[h])]
    /\ v.qp = w.qp /\ v.nic = w.nic /\ v.rx = w.rx /\ v.held = w.held /\ v.end = w.end
    /\ v.mtp = w.mtp /\ v.program = w.program /\ v.op = w.op
    /\ v.finished = w.finished /\ v.announced = w.announced /\ v.forgotten = w.forgotten

\* A frame taken off the wire
LEMMA UnlinkedFields ==
    ASSUME NEW w \in Worlds, NEW h \in Host, w.link[h] # <<>>, NEW v, v = Unlinked(w, h)
    PROVE  v \in Worlds /\ Took(w, v, h)
<1>1. Tail(w.link[h]) \in Seq(Frame)
  BY HostTypes
<1> DEFINE L == [w.link EXCEPT ![h] = Tail(w.link[h])]
<1>2. L \in [Host -> Seq(Frame)]
  BY <1>1 DEF Worlds
<1> HIDE DEF L
<1>3. v = [w EXCEPT !.link = L]
  BY DEF Unlinked, L
<1>4. /\ v \in Worlds /\ v.link = L
      /\ v.qp = w.qp /\ v.nic = w.nic /\ v.rx = w.rx /\ v.held = w.held /\ v.end = w.end
      /\ v.mtp = w.mtp /\ v.program = w.program /\ v.op = w.op
      /\ v.finished = w.finished /\ v.announced = w.announced /\ v.forgotten = w.forgotten
  BY <1>2, <1>3 DEF Worlds
<1> QED
  BY <1>4 DEF L, Took

\* What is known of the first frame
FirstOf(w, h, f) == w.link[h] # <<>> /\ f = Head(w.link[h])

\* The first frame on a wire
LEMMA FirstFrame ==
    ASSUME NEW w \in Worlds, NEW h \in Host, NEW A, Net(w, A), NEW f, FirstOf(w, h, f)
    PROVE  /\ w.link[h] # <<>> /\ w.link[h] \in Seq(Frame)
           /\ f \in Frame /\ f.of \in Client /\ RoutedBy(f, h) /\ f.kind \in {"data", "ack"}
           /\ f = w.link[h][1] /\ 1 \in 1 .. Len(w.link[h])
           /\ f.kind = "data" => At[f.of] = h
           /\ f.kind = "ack" => At[To[f.of]] = h
<1>1. w.link[h] \in Seq(Frame)
  BY HostTypes
<1>2. f \in Frame /\ f = w.link[h][1] /\ 1 \in 1 .. Len(w.link[h]) /\ w.link[h] # <<>>
  BY <1>1 DEF FirstOf
<1>3. RoutedBy(f, h)
  BY <1>2 DEF Net, Routed
<1> QED
  BY <1>1, <1>2, <1>3 DEF Frame, RoutedBy

\* The other clients, when the first frame is taken from the wire
LEMMA UnlinkedOthers ==
    ASSUME NEW w \in Worlds, NEW h \in Host, w.link[h] # <<>>, NEW A, Net(w, A),
           NEW v, v.link = [w.link EXCEPT ![h] = Tail(w.link[h])], v.nic = w.nic
    PROVE  /\ Routed(v)
           /\ \A d \in Client : d # Head(w.link[h]).of /\ v.qp[d] = w.qp[d] /\ v.rx[d] = w.rx[d] =>
                Pipe(v, d, Owed(d, A))
<1> DEFINE L == w.link[h]
           T == Tail(L)
           f == Head(L)
<1>1. L \in Seq(Frame) /\ L # <<>>
  BY HostTypes
<1>2. /\ v.link[h] = T /\ \A g \in Host \ {h} : v.link[g] = w.link[g]
  BY DEF Worlds
<1> HIDE DEF L
<1>3. /\ T \in Seq(Frame) /\ \A i \in 1 .. Len(T) : i + 1 \in 1 .. Len(L) /\ T[i] = L[i + 1]
  BY <1>1
<1>4. \A i \in 1 .. Len(L) : RoutedBy(L[i], h)
  BY DEF Net, Routed, L
<1> HIDE DEF T
<1>5. Routed(v)
  <2> SUFFICES ASSUME NEW g \in Host
               PROVE  /\ \A i \in 1 .. Len(v.link[g]) : RoutedBy(v.link[g][i], g)
                      /\ \A i \in 1 .. Len(v.nic[g].acks) :
                            v.nic[g].acks[i].kind = "ack" /\ RoutedBy(v.nic[g].acks[i], g)
    BY Zenon DEF Routed
  <2>1. /\ \A i \in 1 .. Len(w.link[g]) : RoutedBy(w.link[g][i], g)
        /\ \A i \in 1 .. Len(w.nic[g].acks) :
              w.nic[g].acks[i].kind = "ack" /\ RoutedBy(w.nic[g].acks[i], g)
    BY Zenon DEF Net, Routed
  <2>2. CASE g = h
    BY <1>2, <1>3, <1>4, <2>1, <2>2, Zenon
  <2>3. CASE g # h
    BY <1>2, <2>1, <2>3, Zenon
  <2> QED
    BY <2>2, <2>3
<1>6. ASSUME NEW d \in Client, d # f.of, v.qp[d] = w.qp[d], v.rx[d] = w.rx[d]
      PROVE  Pipe(v, d, Owed(d, A))
  <2>1. Pipe(w, d, Owed(d, A)) /\ At[d] \in Host /\ At[To[d]] \in Host
    BY PairTypes DEF Net
  <2>2. ASSUME NEW kind, NEW a, NEW b, Carries(L, kind, d, a, b) PROVE Carries(T, kind, d, a, b)
    <3>1. PICK m \in Nat : Advances(f, kind, d, a, m) /\ Carries(T, kind, d, m, b)
      BY <1>1, <2>2, CarriesTail DEF T
    <3>2. m = a
      BY <1>6, <3>1 DEF Advances, Matches
    <3> QED
      BY <3>1, <3>2
  <2>3. ASSUME NEW kind, NEW g \in Host, NEW a, NEW b, Carries(w.link[g], kind, d, a, b)
        PROVE  Carries(v.link[g], kind, d, a, b)
    <3>1. CASE g = h
      BY <1>2, <2>2, <2>3, <3>1 DEF L
    <3>2. CASE g # h
      BY <1>2, <2>3, <3>2
    <3> QED
      BY <3>1, <3>2
  <2>4. DataOnWay(v, d)
    BY <1>6, <2>1, <2>3 DEF Pipe, DataOnWay
  <2>5. AcksOnWay(v, d, Owed(d, A))
    <3>1. PICK m \in Nat :
            /\ Carries(w.link[At[To[d]]], "ack", d, w.qp[d].una, m)
            /\ Carries(w.nic[At[To[d]]].acks, "ack", d, m, Got(w.qp[d], w.rx[d]) - Owed(d, A))
      BY <2>1 DEF Pipe, AcksOnWay
    <3>2. Carries(v.link[At[To[d]]], "ack", d, w.qp[d].una, m)
      BY <2>1, <2>3, <3>1
    <3> QED
      BY <1>6, <3>1, <3>2 DEF AcksOnWay
  <2>6. Sized(v, d)
    <3>1. \A i \in 1 .. Len(w.link[At[d]]) :
             Matches(w.link[At[d]][i], "data", d) => SizeWith(w.qp[d], w.link[At[d]][i])
      BY <2>1 DEF Pipe, Sized
    <3>2. CASE At[d] = h
      BY <1>2, <1>3, <1>6, <3>1, <3>2, Zenon DEF Sized, L
    <3>3. CASE At[d] # h
      BY <1>2, <1>6, <2>1, <3>1, <3>3, Zenon DEF Sized
    <3> QED
      BY <3>2, <3>3
  <2> QED
    BY <1>6, <2>1, <2>4, <2>5, <2>6 DEF Pipe
<1> QED
  BY <1>5, <1>6 DEF L

\* All that the arrival of a packet changes, but for the wire
Arrived(w, v, c) ==
    /\ v.qp = w.qp /\ v.nic = w.nic /\ v.held = w.held /\ v.end = w.end
    /\ v.mtp = w.mtp /\ v.program = w.program /\ v.op = w.op
    /\ v.finished = w.finished /\ v.announced = w.announced /\ v.forgotten = w.forgotten
    /\ \A d \in Client \ {c} : v.rx[d] = w.rx[d]
    /\ w.qp[c].live /\ w.qp[c].msgs # <<>>
    /\ w.rx[c].next # EndOf(w.qp[c])
    /\ v.rx[c].left = NoSize <=> v.rx[c].next = EndOf(w.qp[c])

\* A packet is the one expected, of the message in progress.
LEMMA DataArrives ==
    ASSUME NEW w \in Worlds, NEW h \in Host, Net(w, {}),
           NEW f, FirstOf(w, h, f), f.kind = "data",
           NEW v, v = Received(Unlinked(w, h), f)
    PROVE  /\ v \in Worlds /\ Net(v, {f.of}) /\ Arrived(w, v, f.of)
           /\ f.seq = w.rx[f.of].next
<1> DEFINE c == f.of
           u == Unlinked(w, h)
           q == w.qp[c]
           r == w.rx[c]
           s == NextReceiver(r, f)
           L == w.link[h]
           R == [w.rx EXCEPT ![c] = s]
<1>1. /\ f \in Frame /\ c \in Client /\ f = L[1] /\ 1 \in 1 .. Len(L) /\ At[c] = h
      /\ L \in Seq(Frame) /\ L # <<>>
  BY FirstFrame
<1>2. /\ u \in Worlds /\ u.link = [w.link EXCEPT ![h] = Tail(w.link[h])]
      /\ u.qp = w.qp /\ u.nic = w.nic /\ u.rx = w.rx /\ u.held = w.held /\ u.end = w.end
      /\ u.mtp = w.mtp /\ u.program = w.program /\ u.op = w.op
      /\ u.finished = w.finished /\ u.announced = w.announced /\ u.forgotten = w.forgotten
  <2>1. u \in Worlds /\ Took(w, u, h)
    BY <1>1, UnlinkedFields
  <2> HIDE DEF u
  <2> QED
    BY <2>1 DEF Took
<1> HIDE DEF u
<1>3. /\ q \in Pair /\ r \in Receiver /\ q.nxt \in Nat /\ q.una \in Nat /\ q.msgs \in Seq(Message)
      /\ At[To[c]] # h /\ At[To[c]] \in Host /\ r.next \in Nat
  BY <1>1, PairTypes, Zenon
<1>4. Pipe(w, c, 0)
  <2>1. Owed(c, {}) = 0
    BY DEF Owed
  <2> QED
    BY <1>1, <2>1 DEF Net
<1>5. q.live /\ q.msgs # <<>>
  <2>1. Matches(L[1], "data", c)
    BY <1>1 DEF Matches
  <2> QED
    BY <1>1, <1>4, <2>1, NothingOut, Zenon
<1> DEFINE T == Tail(L)
           got == Got(q, r)
<1>6. got = r.next
  BY <1>5 DEF Got
<1>7. f.seq = got /\ Carries(T, "data", c, got + 1, q.nxt)
  <2>1. Carries(L, "data", c, got, q.nxt)
    BY <1>1, <1>4, Zenon DEF Pipe, DataOnWay
  <2> HIDE DEF L, got
  <2>2. PICK m \in Nat : Advances(f, "data", c, got, m) /\ Carries(T, "data", c, m, q.nxt)
    BY <1>1, <2>1, CarriesTail DEF T
  <2>3. m = got + 1 /\ f.seq = got
    BY <1>1, <2>2 DEF Advances, Matches
  <2> QED
    BY <2>2, <2>3
<1>8. got + 1 <= q.nxt
  <2>1. T \in Seq(Frame)
    BY <1>1
  <2> HIDE DEF T, got
  <2> QED
    BY <1>7, <2>1, CarriesBounds
<1>9. SizeWith(q, f)
  BY <1>1, <1>4, Zenon DEF Pipe, Sized, Matches
<1>10. /\ s \in Receiver /\ InProgress(q, s) /\ s.next = r.next + 1
       /\ r.next # EndOf(q) /\ (s.left = NoSize <=> s.next = EndOf(q))
  <2>1. InProgress(q, r)
    BY <1>4, <1>5 DEF Pipe, Placed
  <2>2. q.msgs[1].size > 0
    <3>1. 1 \in 1 .. Len(q.msgs)
      <4> DEFINE Q == q.msgs
      <4>1. Q \in Seq(Message) /\ Q # <<>>
        BY <1>3, <1>5
      <4> HIDE DEF Q
      <4>2. 1 \in 1 .. Len(Q)
        BY <4>1
      <4> QED
        BY <4>2 DEF Q
    <3> QED
      BY <1>4, <3>1 DEF Pipe, Placed
  <2>3. f.seq = r.next /\ r.next < q.nxt
    <3> HIDE DEF got, q, r, T, L
    <3> QED
      BY <1>3, <1>6, <1>7, <1>8
  <2> HIDE DEF q, r, s
  <2> QED
    BY <1>1, <1>3, <1>5, <1>9, <2>1, <2>2, <2>3, OnePacketMore DEF s
<1> HIDE DEF s
<1>11. /\ R \in [Client -> Receiver] /\ R[c] = s /\ \A d \in Client \ {c} : R[d] = w.rx[d]
  BY <1>1, <1>10, Zenon DEF Worlds
<1>12. v = [u EXCEPT !.rx = R]
  BY <1>2, Zenon DEF Received, NextReceiver, s, u
<1> HIDE DEF R
<1>13. /\ v \in Worlds /\ v.rx = R /\ v.link = [w.link EXCEPT ![h] = T]
       /\ v.qp = w.qp /\ v.nic = w.nic /\ v.held = w.held /\ v.end = w.end
       /\ v.mtp = w.mtp /\ v.program = w.program /\ v.op = w.op
       /\ v.finished = w.finished /\ v.announced = w.announced /\ v.forgotten = w.forgotten
  BY <1>2, <1>11, <1>12 DEF Worlds
<1>14. Arrived(w, v, c)
  BY <1>5, <1>10, <1>11, <1>13 DEF Arrived
<1>15. /\ Routed(v)
       /\ \A d \in Client \ {c} : Pipe(v, d, Owed(d, {}))
  <2>1. v.link = [w.link EXCEPT ![h] = Tail(w.link[h])] /\ v.nic = w.nic
    BY <1>13
  <2>2. \A d \in Client \ {c} : d # Head(w.link[h]).of /\ v.qp[d] = w.qp[d] /\ v.rx[d] = w.rx[d]
    <3>1. c = Head(w.link[h]).of
      BY DEF FirstOf
    <3> HIDE DEF c
    <3> QED
      BY <1>11, <1>13, <3>1
  <2>3. w.link[h] # <<>>
    BY <1>1
  <2> HIDE DEF T, L, c
  <2> QED
    BY <2>1, <2>2, <2>3, UnlinkedOthers
<1>16. Pipe(v, c, 1)
  <2>1. v.qp[c] = q /\ v.rx[c] = s /\ v.nic = w.nic
    BY <1>11, <1>13
  <2>2. v.link[h] = T /\ v.link[At[To[c]]] = w.link[At[To[c]]]
    BY <1>3, <1>13 DEF Worlds
  <2>3. Got(q, s) = got + 1
    BY <1>5, <1>6, <1>10 DEF Got
  <2>4. DataOnWay(v, c)
    BY <1>1, <1>7, <2>1, <2>2, <2>3 DEF DataOnWay
  <2>5. AcksOnWay(v, c, 1)
    <3>1. PICK m \in Nat :
            /\ Carries(w.link[At[To[c]]], "ack", c, q.una, m)
            /\ Carries(w.nic[At[To[c]]].acks, "ack", c, m, got - 0)
      BY <1>4, Zenon DEF Pipe, AcksOnWay
    <3>2. got - 0 = Got(q, s) - 1
      BY <1>3, <1>6, <2>3
    <3> QED
      BY <2>1, <2>2, <3>1, <3>2, Zenon DEF AcksOnWay
  <2>6. Sized(v, c)
    <3>1. \A i \in 1 .. Len(L) : Matches(L[i], "data", c) => SizeWith(q, L[i])
      BY <1>1, <1>4, Zenon DEF Pipe, Sized
    <3>2. \A i \in 1 .. Len(T) : i + 1 \in 1 .. Len(L) /\ T[i] = L[i + 1]
      <4> HIDE DEF L
      <4> QED
        BY <1>1
    <3>3. \A i \in 1 .. Len(T) : Matches(T[i], "data", c) => SizeWith(q, T[i])
      <4> HIDE DEF T, L, q
      <4> QED
        BY <3>1, <3>2, Zenon
    <3>4. v.link[At[c]] = T
      <4> HIDE DEF T, L, c
      <4> QED
        BY <1>1, <2>2
    <3> HIDE DEF T, L, q
    <3> QED
      BY <2>1, <3>3, <3>4, Zenon DEF Sized
  <2>7. Placed(q, s)
    BY <1>4, <1>5, <1>10, Zenon DEF Pipe, Placed
  <2> QED
    BY <2>1, <2>4, <2>5, <2>6, <2>7 DEF Pipe
<1>17. Net(v, {c})
  <2>1. \A d \in Client \ {c} : Owed(d, {c}) = 0 /\ Owed(d, {}) = 0
    BY DEF Owed
  <2>2. Owed(c, {c}) = 1
    BY DEF Owed
  <2> HIDE DEF c
  <2> QED
    BY <1>15, <1>16, <2>1, <2>2 DEF Net
<1> QED
  BY <1>6, <1>7, <1>13, <1>14, <1>17

\* What depends on the queue pairs and the transmitters only
LEMMA SameHosts ==
    ASSUME NEW w, NEW v, v.qp = w.qp, v.nic = w.nic
    PROVE  /\ Groups(w) => Groups(v)
           /\ \A X : Woken(w, X) => Woken(v, X)
<1>1. Groups(w) => Groups(v)
  BY DEF Groups
<1>2. ASSUME NEW X, Woken(w, X) PROVE Woken(v, X)
  BY <1>2, Zenon DEF Woken, Asleep
<1> QED
  BY <1>1, <1>2

\* One more in one term is one more in the sum.
LEMMA OneMore ==
    ASSUME NEW S, IsFiniteSet(S), NEW f, NEW g, NEW x \in S, \A y \in S : f[y] \in Int,
           g[x] = f[x] + 1, \A y \in S \ {x} : g[y] = f[y]
    PROVE  SumFunctionOnSet(g, S) = SumFunctionOnSet(f, S) + 1
<1>1. 1 \in Int
  OBVIOUS
<1> QED
  BY <1>1, SumChange

\* An announcement counts for the one client it is made to.
LEMMA OneTold ==
    ASSUME NEW w \in Worlds, NEW v, NEW c \in Client,
           v.announced = [w.announced EXCEPT ![c] = w.announced[c] + 1]
    PROVE  /\ TellsOf(v, To[c]) = TellsOf(w, To[c]) + 1
           /\ \A e : e # To[c] => TellsOf(v, e) = TellsOf(w, e)
           /\ \A e : TellsOf(w, e) \in Int
<1>1. /\ w.announced \in [Client -> Nat]
      /\ \A e : Senders(e) \subseteq Client /\ IsFiniteSet(Senders(e))
      /\ \A e : c \in Senders(e) <=> e = To[c]
  <2>1. \A e : Senders(e) \subseteq Client
    BY DEF Senders
  <2>2. \A e : IsFiniteSet(Senders(e))
    BY <2>1, ClientAssumption, FS_Subset
  <2>3. w.announced \in [Client -> Nat]
    BY DEF Worlds
  <2>4. \A e : c \in Senders(e) <=> e = To[c]
    BY DEF Senders
  <2> QED
    BY <2>1, <2>2, <2>3, <2>4
<1>2. v.announced[c] = w.announced[c] + 1 /\ \A d \in Client \ {c} : v.announced[d] = w.announced[d]
  BY <1>1
<1>3. TellsOf(v, To[c]) = TellsOf(w, To[c]) + 1
  <2> DEFINE U == Senders(To[c])
  <2>1. c \in U /\ U \subseteq Client /\ IsFiniteSet(U)
    BY <1>1
  <2> HIDE DEF U
  <2>2. \A d \in U : w.announced[d] \in Int
    BY <1>1, <2>1
  <2>3. \A d \in U \ {c} : v.announced[d] = w.announced[d]
    BY <1>2, <2>1
  <2>4. SumFunctionOnSet(v.announced, U) = SumFunctionOnSet(w.announced, U) + 1
    <3> DEFINE F == w.announced
               G == v.announced
    <3>1. G[c] = F[c] + 1 /\ (\A y \in U : F[y] \in Int) /\ \A y \in U \ {c} : G[y] = F[y]
      BY <1>2, <2>2, <2>3
    <3> HIDE DEF F, G
    <3>2. SumFunctionOnSet(G, U) = SumFunctionOnSet(F, U) + 1
      BY <2>1, <3>1, OneMore, Zenon
    <3> QED
      BY <3>2 DEF F, G
  <2> QED
    BY <2>4 DEF TellsOf, U
<1>4. ASSUME NEW e, e # To[c] PROVE TellsOf(v, e) = TellsOf(w, e)
  <2> DEFINE U == Senders(e)
  <2>1. c \notin U /\ U \subseteq Client /\ IsFiniteSet(U)
    BY <1>1, <1>4
  <2> HIDE DEF U
  <2>2. \A d \in U : w.announced[d] \in Int /\ w.announced[d] = v.announced[d]
    BY <1>1, <1>2, <2>1
  <2>3. SumFunctionOnSet(w.announced, U) = SumFunctionOnSet(v.announced, U)
    BY <2>1, <2>2, SumSame
  <2> QED
    BY <2>3 DEF TellsOf, U
<1>5. ASSUME NEW e PROVE TellsOf(w, e) \in Int
  <2> DEFINE U == Senders(e)
  <2>1. U \subseteq Client /\ IsFiniteSet(U)
    BY <1>1
  <2> HIDE DEF U
  <2>2. \A d \in U : w.announced[d] \in Int
    BY <1>1, <2>1
  <2> QED
    BY <2>1, <2>2, SumType DEF TellsOf, U
<1> QED
  BY <1>3, <1>4, <1>5

\* The receiver of the last packet of a message announces it: the client there was
\* waiting for it, or counts it as forgotten.
LEMMA AnnounceGood ==
    ASSUME NEW w, NEW fl, Good(w, {}, {}, {}, fl), NEW h \in Host,
           NEW f, FirstOf(w, h, f), f.kind = "data",
           NEW v, v = Announce(Received(Unlinked(w, h), f), f)
    PROVE  Good(v, {f.of}, {}, {}, fl) /\ Same(w, v)
<1> DEFINE c == f.of
           d == To[c]
           x == Received(Unlinked(w, h), f)
           y == [x EXCEPT !.announced = [x.announced EXCEPT ![c] = x.announced[c] + 1]]
<1>1. /\ w \in Worlds /\ Open(w) /\ Net(w, {}) /\ Groups(w) /\ Woken(w, {}) /\ Clients(w, {}, fl)
  BY DEF Good, Moving, Open
<1>2. c \in Client /\ d \in Client /\ d # c
  <2>1. c \in Client
    BY <1>1, FirstFrame
  <2> QED
    BY <1>1, <2>1, PairTypes
<1>3. x \in Worlds /\ Net(x, {c}) /\ Arrived(w, x, c)
  BY <1>1, DataArrives
<1>4. v = Announce(x, f)
  OBVIOUS
<1> HIDE DEF x, c, d
<1>5. Open(x) /\ Moving(x, {c}, {})
  <2>1. Groups(x) /\ Woken(x, {})
    BY <1>1, <1>3, SameHosts, Zenon DEF Arrived
  <2> QED
    BY <1>1, <1>3, <2>1 DEF Open, Moving, Arrived
<1>6. Same(w, x)
  BY <1>3 DEF Arrived, Same
<1>7. \A e \in Operators : e \in Client /\ e \notin FlowClients /\ AtWork(w, e)
  BY <1>1, ProgramTypes DEF Clients
<1>8. c \in Operators => Sending(w, c)
  BY <1>3, <1>7 DEF Arrived, AtWork
<1>9. ASSUME NEW z, z.qp = w.qp, z.finished = w.finished PROVE Count(z, fl)
  BY <1>1, <1>9, CountSame DEF Clients
<1>10. CASE x.rx[c].left # NoSize
  <2>1. v = x
    BY <1>4, <1>10, Zenon DEF Announce, c
  <2>2. ASSUME NEW e \in Operators PROVE AtWork(x, e)
    <3>1. CASE e # c
      <4>1. x.rx[e] = w.rx[e]
        BY <1>3, <1>7, <3>1 DEF Arrived
      <4> QED
        BY <1>3, <1>7, <4>1, ClientSame DEF Arrived
    <3>2. CASE e = c
      <4>1. /\ x.program = w.program /\ x.op = w.op /\ x.qp = w.qp /\ x.announced = w.announced
            /\ x.forgotten = w.forgotten /\ w.rx[c].next # EndOf(w.qp[c])
            /\ x.rx[c].next # EndOf(w.qp[c])
        BY <1>3, <1>10 DEF Arrived
      <4>2. (Sending(x, c) <=> Sending(w, c)) /\ TellsOf(x, c) = TellsOf(w, c)
        BY <4>1 DEF Sending, TellsOf
      <4> QED
        BY <1>7, <3>2, <4>1, <4>2 DEF AtWork
    <3> QED
      BY <3>1, <3>2
  <2>3. Count(x, fl)
    BY <1>3, <1>9 DEF Arrived
  <2> QED
    BY <1>5, <1>6, <2>1, <2>2, <2>3 DEF Good, Clients, c
<1>11. CASE x.rx[c].left = NoSize
  <2>1. v = HandleRxComplete(y, d)
    BY <1>4, <1>11, Zenon DEF Announce, c, d
  <2>2. x.announced \in [Client -> Nat] /\ x.announced = w.announced
    BY <1>3 DEF Worlds, Arrived
  <2>3. /\ y \in Worlds /\ y.announced = [w.announced EXCEPT ![c] = w.announced[c] + 1]
        /\ y.qp = w.qp /\ y.nic = w.nic /\ y.rx = x.rx /\ y.link = x.link
        /\ y.held = w.held /\ y.end = w.end
        /\ y.mtp = w.mtp /\ y.program = w.program /\ y.op = w.op
        /\ y.finished = w.finished /\ y.forgotten = w.forgotten
    <3> DEFINE N == [w.announced EXCEPT ![c] = w.announced[c] + 1]
    <3>1. N \in [Client -> Nat] /\ y = [x EXCEPT !.announced = N]
      BY <1>2, <2>2
    <3> HIDE DEF N, y
    <3> QED
      BY <1>3, <3>1 DEF Worlds, Arrived, N
  <2> HIDE DEF y
  <2>4. Open(y) /\ Moving(y, {c}, {})
    <3>1. Open(y)
      BY <1>1, <2>3 DEF Open
    <3>2. y.qp = x.qp /\ y.nic = x.nic /\ y.rx = x.rx /\ y.link = x.link
      BY <1>3, <2>3 DEF Arrived
    <3>3. Net(y, {c}) /\ Groups(y) /\ Woken(y, {})
      BY <1>5, <3>2, SameWorld, Zenon DEF Moving
    <3> QED
      BY <2>3, <3>1, <3>3 DEF Moving
  <2>5. /\ TellsOf(y, d) = TellsOf(w, d) + 1
        /\ \A e : e # d => TellsOf(y, e) = TellsOf(w, e)
        /\ \A e : TellsOf(w, e) \in Int
    BY <1>1, <1>2, <2>3, OneTold DEF d
  <2>6. ASSUME NEW e \in Operators, e # d PROVE AtWork(y, e)
    <3>1. CASE e # c
      <4>1. /\ y.rx[e] = w.rx[e] /\ y.announced[e] = w.announced[e] /\ TellsOf(y, e) = TellsOf(w, e)
        BY <1>3, <1>7, <2>2, <2>3, <2>5, <2>6, <3>1 DEF Arrived
      <4> QED
        BY <1>7, <2>3, <4>1, ClientTells
    <3>2. CASE e = c
      <4>1. /\ Sending(w, c) /\ (Sending(y, c) <=> Sending(w, c)) /\ TellsOf(y, c) = TellsOf(w, c)
        BY <1>8, <2>3, <2>5, <2>6, <3>2 DEF Sending
      <4>2. w.rx[c].next # EndOf(w.qp[c]) /\ y.rx[c].next = EndOf(y.qp[c])
        BY <1>3, <1>11, <2>3 DEF Arrived
      <4>3. y.announced[c] = w.announced[c] + 1 /\ w.announced[c] \in Nat
        BY <1>2, <2>2, <2>3
      <4>4. w.op[c] \in Nat /\ SendsOf(w.program[c], Before(w.op[c])) \in Nat
        <5>1. w.op[c] \in Nat
          BY <1>1, <3>2, ProgramTypes
        <5>2. Before(w.op[c]) \in Nat
          BY <5>1 DEF Before
        <5> QED
          BY <5>1, <5>2, SendsSteps
      <4>5. AtWork(w, c)
        BY <1>7, <3>2
      <4>6. w.announced[c] = SendsOf(w.program[c], Before(w.op[c]))
        BY <4>1, <4>2, <4>3, <4>4, <4>5 DEF AtWork
      <4> QED
        BY <2>3, <3>2, <4>1, <4>2, <4>3, <4>5, <4>6 DEF AtWork
    <3> QED
      BY <3>1, <3>2
  <2>7. Count(y, fl)
    BY <1>9, <2>3
  <2>8. Same(w, y)
    BY <2>3 DEF Same
  <2>9. CASE d \notin Operators
    <3>1. v = y
      BY <2>1, <2>9 DEF HandleRxComplete
    <3>2. Clients(y, {}, fl)
      BY <2>6, <2>7, <2>9 DEF Clients
    <3> QED
      BY <2>4, <2>8, <3>1, <3>2 DEF Good, c
  <2>10. CASE d \in Operators
    <3> DEFINE n == w.op[d]
               list == w.program[d]
    <3>1. AtWork(w, d) /\ n \in Nat /\ list \in Seq(Nat) /\ Len(list) \in Nat
      BY <1>1, <1>7, <2>10, ProgramTypes
    <3>2. /\ y.op[d] = n /\ y.program[d] = list /\ y.qp[d] = w.qp[d] /\ y.rx[d] = w.rx[d]
          /\ y.announced[d] = w.announced[d] /\ y.forgotten[d] = w.forgotten[d]
          /\ w.announced[d] \in Nat /\ w.forgotten[d] \in Nat
      BY <1>2, <1>3, <2>2, <2>3 DEF Arrived, Worlds
    <3>3. Before(n) \in Nat /\ SendsOf(list, Before(n)) \in Nat
      <4>1. Before(n) \in Nat
        BY <3>1 DEF Before
      <4> QED
        BY <4>1, SendsSteps
    <3>4. CASE Receiving(y, d)
      <4>1. v = NextStep(y, d)
        BY <2>1, <2>10, <3>4 DEF HandleRxComplete
      <4>2. n \in 1 .. Len(list) /\ list[n] = Recv /\ ~Sending(w, d)
        BY <3>2, <3>4, <2>3 DEF Receiving, Sending
      <4>3. Before(n) = n - 1 /\ n - 1 \in Nat /\ (n - 1) + 1 = n
        BY <3>1, <4>2 DEF Before
      <4>4. SendsOf(list, n) = SendsOf(list, n - 1)
        <5>1. SendsOf(list, (n - 1) + 1) = SendsOf(list, n - 1) + 0
          BY <4>2, <4>3, SendsSteps
        <5> QED
          BY <3>3, <4>3, <5>1
      <4>5. Ready(y, d)
        <5>1. /\ w.qp[d].msgs = <<>> /\ w.qp[d].live
              /\ w.announced[d] = SendsOf(list, n)
              /\ RecvsOf(list, n - 1) + w.forgotten[d] = TellsOf(w, d)
          BY <3>1, <3>3, <4>2, <4>3, <4>4 DEF AtWork
        <5>2. RecvsOf(list, n) = RecvsOf(list, n - 1) + 1 /\ RecvsOf(list, n - 1) \in Int
          BY <3>1, <3>3, <4>3, <4>4 DEF RecvsOf
        <5>3. RecvsOf(list, n) + w.forgotten[d] = TellsOf(y, d)
          BY <2>5, <3>2, <5>1, <5>2
        <5> QED
          BY <3>2, <4>2, <5>1, <5>3 DEF Ready
      <4>6. Clients(y, {d}, fl)
        BY <2>6, <2>7, <4>5 DEF Clients
      <4>7. Good(y, {c}, {d}, {}, fl)
        BY <2>4, <4>6 DEF Good
      <4>8. Good(v, {c}, {}, {}, fl) /\ Same(y, v)
        BY <2>10, <4>1, <4>7, NextStepGood
      <4> QED
        BY <2>8, <4>8 DEF Same, c
    <3>5. CASE ~Receiving(y, d)
      <4> DEFINE F == [y.forgotten EXCEPT ![d] = y.forgotten[d] + 1]
      <4>1. v = [y EXCEPT !.forgotten = F]
        BY <2>1, <2>10, <3>5 DEF HandleRxComplete
      <4>2. F \in [Client -> Nat] /\ F[d] = w.forgotten[d] + 1
            /\ \A e \in Client \ {d} : F[e] = w.forgotten[e]
        BY <1>2, <2>3 DEF Worlds
      <4> HIDE DEF F
      <4>3. /\ v \in Worlds /\ v.forgotten = F /\ v.announced = y.announced
            /\ v.qp = y.qp /\ v.nic = y.nic /\ v.rx = y.rx /\ v.link = y.link
            /\ v.held = y.held /\ v.end = y.end
            /\ v.mtp = y.mtp /\ v.program = y.program /\ v.op = y.op
            /\ v.finished = y.finished
        BY <2>3, <4>1, <4>2 DEF Worlds
      <4>4. \A e : TellsOf(v, e) = TellsOf(y, e)
        BY <4>3 DEF TellsOf
      <4>5. AtWork(v, d)
        <5>1. Sending(v, d) <=> Sending(w, d)
          BY <2>3, <3>2, <4>3 DEF Sending
        <5>2. RecvsOf(list, Before(n)) + w.forgotten[d] = TellsOf(w, d)
              /\ RecvsOf(list, Before(n)) \in Int
          BY <3>1, <3>3 DEF AtWork, RecvsOf
        <5>3. RecvsOf(list, Before(n)) + v.forgotten[d] = TellsOf(v, d)
          BY <2>5, <3>2, <4>2, <4>3, <4>4, <5>2
        <5>4. /\ v.op[d] = n /\ v.program[d] = list /\ v.qp[d] = w.qp[d] /\ v.rx[d] = w.rx[d]
              /\ v.announced[d] = w.announced[d]
          BY <3>2, <4>3
        <5> QED
          BY <3>1, <5>1, <5>3, <5>4 DEF AtWork
      <4>6. ASSUME NEW e \in Operators, e # d PROVE AtWork(v, e)
        <5>1. v.forgotten[e] = y.forgotten[e]
          BY <1>7, <2>3, <4>2, <4>3, <4>6
        <5> QED
          BY <2>6, <4>3, <4>6, <5>1, ClientSame
      <4>7. Count(v, fl)
        BY <1>9, <2>3, <4>3
      <4>8. Open(v) /\ Moving(v, {c}, {})
        <5>1. Open(v)
          BY <2>4, <4>3 DEF Open
        <5>2. Net(v, {c}) /\ Groups(v) /\ Woken(v, {})
          BY <2>4, <4>3, SameWorld, Zenon DEF Moving
        <5> QED
          BY <4>3, <5>1, <5>2 DEF Moving
      <4> QED
        BY <2>8, <4>3, <4>5, <4>6, <4>7, <4>8 DEF Good, Clients, Same, c
    <3> QED
      BY <3>4, <3>5
  <2> QED
    BY <2>9, <2>10
<1> QED
  BY <1>10, <1>11

\* The acknowledgement owed is queued, and the transmitter of the receiver started.
LEMMA SendAckGood ==
    ASSUME NEW w, NEW fl, NEW f, f.of \in Client, Good(w, {f.of}, {}, {}, fl),
           NEW v, v = SendAck(w, f)
    PROVE  Good(v, {}, {}, {}, fl) /\ Same(w, v)
<1> DEFINE c == f.of
           h == At[To[c]]
           a == [kind |-> "ack", of |-> c, seq |-> w.rx[c].next, size |-> NoSize]
           Q == w.nic[h].acks
           n == [w.nic[h] EXCEPT !.acks = Append(Q, a)]
           N == [w.nic EXCEPT ![h] = n]
           u == [w EXCEPT !.nic = N]
<1>1. /\ w \in Worlds /\ Open(w) /\ Net(w, {c}) /\ Groups(w) /\ Woken(w, {}) /\ Clients(w, {}, fl)
      /\ c \in Client /\ w.held = FALSE
  BY DEF Good, Moving, Open
<1>2. v = TriggerTransmit(u, h)
  BY Zenon DEF SendAck
<1> HIDE DEF c
<1>3. /\ h \in Host /\ Q \in Seq(Frame) /\ w.nic[h] \in Transmitter /\ w.rx[c].next \in Nat
  BY <1>1, PairTypes, HostTypes
<1>4. a \in Frame
  BY <1>1, <1>3 DEF Frame
<1>5. a.kind = "ack" /\ a.of = c /\ a.seq = w.rx[c].next
  OBVIOUS
<1> HIDE DEF Q, a, h
<1>6. n \in Transmitter /\ n.acks = Append(Q, a) /\ n.group = w.nic[h].group /\ n.busy = w.nic[h].busy
  <2>1. Append(Q, a) \in Seq(Frame)
    BY <1>3, <1>4
  <2> QED
    BY <1>3, <2>1 DEF Transmitter
<1> HIDE DEF n
<1>7. N \in [Host -> Transmitter] /\ N[h] = n /\ \A g \in Host \ {h} : N[g] = w.nic[g]
  BY <1>1, <1>3, <1>6 DEF Worlds
<1> HIDE DEF N
<1>8. /\ u \in Worlds /\ u.nic = N /\ u.link = w.link /\ u.qp = w.qp /\ u.rx = w.rx
      /\ u.held = w.held /\ u.end = w.end /\ u.mtp = w.mtp /\ u.program = w.program /\ u.op = w.op
      /\ u.finished = w.finished /\ u.announced = w.announced /\ u.forgotten = w.forgotten
  BY <1>1, <1>7 DEF Worlds
<1> HIDE DEF u
<1>9. Routed(u)
  <2> SUFFICES ASSUME NEW g \in Host
               PROVE  /\ \A i \in 1 .. Len(u.link[g]) : RoutedBy(u.link[g][i], g)
                      /\ \A i \in 1 .. Len(u.nic[g].acks) :
                            u.nic[g].acks[i].kind = "ack" /\ RoutedBy(u.nic[g].acks[i], g)
    BY Zenon DEF Routed
  <2>1. /\ \A i \in 1 .. Len(w.link[g]) : RoutedBy(w.link[g][i], g)
        /\ \A i \in 1 .. Len(w.nic[g].acks) :
              w.nic[g].acks[i].kind = "ack" /\ RoutedBy(w.nic[g].acks[i], g)
    BY <1>1, Zenon DEF Net, Routed
  <2>2. CASE g # h
    BY <1>7, <1>8, <2>1, <2>2, Zenon
  <2>3. CASE g = h
    <3>1. u.nic[g].acks = Append(Q, a) /\ u.link[g] = w.link[g]
      BY <1>6, <1>7, <1>8, <2>3
    <3>2. \A i \in 1 .. Len(Append(Q, a)) :
             Append(Q, a)[i] = a \/ (i \in 1 .. Len(Q) /\ Append(Q, a)[i] = Q[i])
      BY <1>3, <1>4
    <3>3. a.kind = "ack" /\ RoutedBy(a, h)
      BY <1>5 DEF RoutedBy, h
    <3>4. \A i \in 1 .. Len(Q) : Q[i].kind = "ack" /\ RoutedBy(Q[i], h)
      BY <2>1, <2>3, Zenon DEF Q
    <3> DEFINE B == Append(Q, a)
    <3> HIDE DEF B, Q, a
    <3>5. \A i \in 1 .. Len(B) : B[i].kind = "ack" /\ RoutedBy(B[i], g)
      BY <2>3, <3>2, <3>3, <3>4, Zenon DEF B
    <3> QED
      BY <2>1, <3>1, <3>5, Zenon DEF B
  <2> QED
    BY <2>2, <2>3
<1>10. ASSUME NEW e \in Client, e # c PROVE Pipe(u, e, 0)
  <2>1. Pipe(w, e, 0)
    <3>1. Owed(e, {c}) = 0
      BY <1>10 DEF Owed
    <3> QED
      BY <1>1, <3>1 DEF Net
  <2>2. CASE At[To[e]] # h
    <3>1. u.nic[At[To[e]]].acks = w.nic[At[To[e]]].acks
      BY <1>1, <1>7, <1>8, <2>2, PairTypes
    <3> QED
      BY <1>8, <2>1, <3>1, PipeSame
  <2>3. CASE At[To[e]] = h
    <3>1. PICK m \in Nat :
            /\ Carries(w.link[h], "ack", e, w.qp[e].una, m)
            /\ Carries(Q, "ack", e, m, Got(w.qp[e], w.rx[e]) - 0)
      BY <2>1, <2>3 DEF Pipe, AcksOnWay, Q
    <3>2. ~Matches(a, "ack", e)
      BY <1>5, <1>10 DEF Matches
    <3>3. Carries(Append(Q, a), "ack", e, m, Got(w.qp[e], w.rx[e]) - 0)
      BY <1>3, <1>4, <3>1, <3>2, CarriesOther
    <3>4. AcksOnWay(u, e, 0)
      BY <1>6, <1>7, <1>8, <2>3, <3>1, <3>3 DEF AcksOnWay
    <3>5. Placed(u.qp[e], u.rx[e]) /\ DataOnWay(u, e) /\ Sized(u, e)
      BY <1>8, <2>1, Zenon DEF Pipe, DataOnWay, Sized
    <3> QED
      BY <3>4, <3>5 DEF Pipe
  <2> QED
    BY <2>2, <2>3
<1>11. Pipe(u, c, 0)
  <2>1. Pipe(w, c, 1)
    <3>1. Owed(c, {c}) = 1
      BY DEF Owed
    <3> QED
      BY <1>1, <3>1 DEF Net
  <2> DEFINE got == Got(w.qp[c], w.rx[c])
  <2>2. w.qp[c].live /\ got = w.rx[c].next /\ got \in Nat /\ 1 <= got /\ got - 1 \in Nat
    <3>1. w.qp[c].live
      BY <1>1, <2>1, NothingOut
    <3>2. got \in Nat /\ w.qp[c].una + 1 <= got /\ w.qp[c].una \in Nat
      BY <1>1, <2>1, InOrder, PairTypes
    <3> HIDE DEF got
    <3> QED
      BY <3>1, <3>2 DEF got, Got
  <2>3. PICK m \in Nat :
          /\ Carries(w.link[h], "ack", c, w.qp[c].una, m)
          /\ Carries(Q, "ack", c, m, got - 1)
    BY <2>1 DEF Pipe, AcksOnWay, Q, h
  <2> HIDE DEF got
  <2>4. Advances(a, "ack", c, got - 1, got)
    BY <1>5, <2>2 DEF Advances, Matches
  <2>5. Carries(Append(Q, a), "ack", c, m, got)
    BY <1>3, <1>4, <2>2, <2>3, <2>4, CarriesAppend
  <2>6. AcksOnWay(u, c, 0)
    <3>1. Got(u.qp[c], u.rx[c]) - 0 = got
      BY <1>8, <2>2 DEF got
    <3> QED
      BY <1>6, <1>7, <1>8, <2>3, <2>5, <3>1 DEF AcksOnWay, h
  <2>7. Placed(u.qp[c], u.rx[c]) /\ DataOnWay(u, c) /\ Sized(u, c)
    BY <1>8, <2>1, Zenon DEF Pipe, DataOnWay, Sized
  <2> QED
    BY <2>6, <2>7 DEF Pipe
<1>12. Net(u, {})
  <2>1. \A e \in Client : Owed(e, {}) = 0
    BY DEF Owed
  <2> QED
    BY <1>9, <1>10, <1>11, <2>1 DEF Net
<1>13. Groups(u)
  <2>1. \A g \in Host : u.nic[g].group = w.nic[g].group
    BY <1>6, <1>7, <1>8
  <2> QED
    BY <1>1, <1>8, <2>1, GroupsKept
<1>14. Woken(u, {} \cup {h})
  <2>1. \A g \in Host \ {h} : u.nic[g] = w.nic[g]
    BY <1>7, <1>8
  <2> QED
    BY <1>1, <1>3, <1>8, <2>1, WokenThere
<1>15. Open(u)
  BY <1>1, <1>8 DEF Open
<1>16. Clients(u, {}, fl)
  <2>1. Kept(w, u)
    BY <1>8 DEF Kept
  <2> QED
    BY <1>1, <2>1, ClientsKept
<1>17. Good(u, {}, {}, {} \cup {h}, fl)
  BY <1>8, <1>12, <1>13, <1>14, <1>15, <1>16 DEF Good, Moving
<1>18. Good(v, {}, {}, ({} \cup {h}) \ {h}, fl) /\ Same(u, v)
  <2>1. {} \in SUBSET Operators
    OBVIOUS
  <2> QED
    BY <1>2, <1>3, <1>17, <2>1, TriggerGood
<1>19. ({} \cup {h}) \ {h} = {}
  OBVIOUS
<1> QED
  BY <1>8, <1>18, <1>19 DEF Same

\* RdmaHw::ReceiveUdp
LEMMA ReceiveUdpGood ==
    ASSUME NEW w, NEW fl, Good(w, {}, {}, {}, fl), NEW h \in Host,
           NEW f, FirstOf(w, h, f), f.kind = "data",
           NEW v, v = ReceiveUdp(Unlinked(w, h), f)
    PROVE  Good(v, {}, {}, {}, fl) /\ Same(w, v)
<1> DEFINE u == Unlinked(w, h)
           x == Received(u, f)
           told == Announce(x, f)
<1>1. w \in Worlds /\ Open(w) /\ Net(w, {})
  BY DEF Good, Open, Moving
<1>2. u = Unlinked(w, h) /\ x = Received(Unlinked(w, h), f)
      /\ told = Announce(Received(Unlinked(w, h), f), f)
  OBVIOUS
<1>3. v = Section(u, IF f.seq # u.rx[f.of].next THEN [u EXCEPT !.end = "out of order"]
                     ELSE Then(told, SendAck(told, f)))
  BY Zenon DEF ReceiveUdp
<1> HIDE DEF u, x, told
<1>4. Good(told, {f.of}, {}, {}, fl) /\ Same(w, told)
  BY <1>2, AnnounceGood
<1>5. f.of \in Client /\ f.seq = w.rx[f.of].next
  <2>1. f.of \in Client
    BY <1>1, FirstFrame
  <2> QED
    BY <1>1, <1>2, <2>1, DataArrives
<1>6. Open(u) /\ u.rx = w.rx
  <2>1. u \in Worlds /\ u.rx = w.rx /\ u.held = w.held /\ u.end = w.end
    <3>1. u \in Worlds /\ Took(w, u, h)
      BY <1>1, <1>2, FirstFrame, UnlinkedFields
    <3> QED
      BY <3>1 DEF Took
  <2> QED
    BY <1>1, <2>1 DEF Open
<1>7. Open(told)
  BY <1>4 DEF Good
<1>8. v = SendAck(told, f)
  <2>1. v = IF f.seq # u.rx[f.of].next THEN [u EXCEPT !.end = "out of order"]
            ELSE Then(told, SendAck(told, f))
    <3> DEFINE after == IF f.seq # u.rx[f.of].next THEN [u EXCEPT !.end = "out of order"]
                        ELSE Then(told, SendAck(told, f))
    <3>1. v = Section(u, after)
      BY <1>3
    <3> HIDE DEF after
    <3>2. v = after
      BY <1>6, <3>1, SectionRuns
    <3> QED
      BY <3>2 DEF after
  <2>2. v = Then(told, SendAck(told, f))
    BY <1>5, <1>6, <2>1, Zenon
  <2> QED
    BY <1>7, <2>2, SectionRuns, Zenon
<1>9. Good(v, {}, {}, {}, fl) /\ Same(told, v)
  BY <1>4, <1>5, <1>8, SendAckGood
<1> QED
  BY <1>4, <1>9 DEF Same

----------------------------------------------------------------------------
(***************************************************************************)
(* An acknowledgement arrives                                              *)
(***************************************************************************)
Acked(w, f) == [w EXCEPT !.qp[f.of].una = IF f.seq > @ THEN f.seq ELSE @]

\* What no operation on a queue pair changes
SameRest(w, v) ==
    /\ v.nic = w.nic /\ v.rx = w.rx
    /\ v.mtp = w.mtp /\ v.program = w.program /\ v.op = w.op
    /\ v.announced = w.announced /\ v.forgotten = w.forgotten

\* All that an acknowledgement changes, but for the wire
AckTaken(w, v, c) ==
    /\ SameRest(w, v) /\ v.held = w.held /\ v.end = w.end /\ v.finished = w.finished
    /\ \A d \in Client \ {c} : v.qp[d] = w.qp[d]
    /\ v.qp[c].msgs = w.qp[c].msgs /\ v.qp[c].nxt = w.qp[c].nxt /\ v.qp[c].live = w.qp[c].live
    /\ v.qp[c].live /\ v.qp[c].msgs # <<>>
    /\ EndOf(v.qp[c]) \in Nat /\ v.qp[c].una <= EndOf(v.qp[c])

\* The first message of c is sent, received and acknowledged to its end, and is the next
\* thing to go.
AllTaken(w, c) ==
    /\ Routed(w) /\ \A d \in Client \ {c} : Pipe(w, d, 0)
    /\ DataOnWay(w, c) /\ AcksOnWay(w, c, 0)
    /\ \A i \in 1 .. Len(w.link[At[c]]) : ~Matches(w.link[At[c]][i], "data", c)
    /\ w.qp[c].live /\ w.qp[c].msgs # <<>>
    /\ \A i \in 1 .. Len(w.qp[c].msgs) : w.qp[c].msgs[i].size > 0 /\ (w.qp[c].msgs[i].set <=> i = 1)
    /\ w.qp[c].una = w.qp[c].nxt /\ w.qp[c].nxt = EndOf(w.qp[c])
    /\ w.rx[c].next = w.qp[c].nxt /\ w.rx[c].left = NoSize

\* An acknowledgement is for one packet more than the one before.
LEMMA AckArrives ==
    ASSUME NEW w \in Worlds, NEW h \in Host, Net(w, {}),
           NEW f, FirstOf(w, h, f), f.kind = "ack",
           NEW v, v = Acked(Unlinked(w, h), f)
    PROVE  /\ v \in Worlds /\ AckTaken(w, v, f.of)
           /\ v.qp[f.of].una < EndOf(v.qp[f.of]) => Net(v, {})
           /\ v.qp[f.of].una = EndOf(v.qp[f.of]) => AllTaken(v, f.of)
<1> DEFINE c == f.of
           u == Unlinked(w, h)
           q == w.qp[c]
           r == w.rx[c]
           L == w.link[h]
           p == [q EXCEPT !.una = IF f.seq > @ THEN f.seq ELSE @]
           P == [w.qp EXCEPT ![c] = p]
<1>1. /\ f \in Frame /\ c \in Client /\ f = L[1] /\ 1 \in 1 .. Len(L) /\ At[To[c]] = h
      /\ L \in Seq(Frame) /\ L # <<>>
  BY FirstFrame
<1>2. /\ u \in Worlds /\ u.link = [w.link EXCEPT ![h] = Tail(w.link[h])]
      /\ u.qp = w.qp /\ u.nic = w.nic /\ u.rx = w.rx /\ u.held = w.held /\ u.end = w.end
      /\ u.mtp = w.mtp /\ u.program = w.program /\ u.op = w.op
      /\ u.finished = w.finished /\ u.announced = w.announced /\ u.forgotten = w.forgotten
  <2>1. u \in Worlds /\ Took(w, u, h)
    BY <1>1, UnlinkedFields
  <2> HIDE DEF u
  <2> QED
    BY <2>1 DEF Took
<1>3. v = [u EXCEPT !.qp = P]
  BY <1>2, Zenon DEF Acked, p, u
<1> HIDE DEF u
<1>4. /\ q \in Pair /\ r \in Receiver /\ q.nxt \in Nat /\ q.una \in Nat /\ q.msgs \in Seq(Message)
      /\ At[c] # h /\ At[c] \in Host /\ r.next \in Nat /\ r.left \in Nat \cup {NoSize}
  BY <1>1, PairTypes, Zenon
<1>5. Pipe(w, c, 0)
  <2>1. Owed(c, {}) = 0
    BY DEF Owed
  <2> QED
    BY <1>1, <2>1 DEF Net
<1> DEFINE T == Tail(L)
           K == w.nic[h].acks
           got == Got(q, r)
<1>6. T \in Seq(Frame) /\ K \in Seq(Frame) /\ got \in Nat
  <2>1. K \in Seq(Frame)
    BY HostTypes, Zenon
  <2>2. got \in Nat
    BY <1>4, Zenon DEF Got
  <2> HIDE DEF L, K, got
  <2> QED
    BY <1>1, <2>1, <2>2
<1>7. PICK m \in Nat : Carries(L, "ack", c, q.una, m) /\ Carries(K, "ack", c, m, got)
  <2>1. got - 0 = got
    BY <1>6
  <2>2. \E m \in Nat : Carries(L, "ack", c, q.una, m) /\ Carries(K, "ack", c, m, got - 0)
    BY <1>1, <1>5, Zenon DEF Pipe, AcksOnWay
  <2> HIDE DEF got, L, K, q
  <2> QED
    BY <2>1, <2>2
<1>8. Carries(w.link[At[c]], "data", c, got, q.nxt)
  BY <1>5 DEF Pipe, DataOnWay
<1> HIDE DEF T, K, got
<1>9. f.seq = q.una + 1 /\ Carries(T, "ack", c, q.una + 1, m)
  <2>0. Head(L) = f
    BY DEF FirstOf
  <2> DEFINE a == q.una
  <2> HIDE DEF L, a
  <2>1. PICK l \in Nat : Advances(f, "ack", c, a, l) /\ Carries(T, "ack", c, l, m)
    <3>1. Carries(L, "ack", c, a, m)
      BY <1>7 DEF a
    <3> HIDE DEF c
    <3>2. \E l \in Nat : Advances(Head(L), "ack", c, a, l) /\ Carries(Tail(L), "ack", c, l, m)
      BY <1>1, <3>1, CarriesTail
    <3> QED
      BY <2>0, <3>2 DEF T
  <2>2. l = a + 1 /\ f.seq = l
    BY <1>1, <2>1 DEF Advances, Matches
  <2> QED
    BY <2>1, <2>2 DEF a
<1>10. q.una + 1 <= got /\ got <= q.nxt
  <2>1. q.una + 1 <= m
    BY <1>6, <1>9, CarriesBounds
  <2>2. m <= got
    BY <1>6, <1>7, CarriesBounds
  <2>3. got <= q.nxt
    <3>1. w.link[At[c]] \in Seq(Frame)
      BY <1>4, HostTypes
    <3> QED
      BY <1>8, <3>1, CarriesBounds
  <2> HIDE DEF q
  <2> QED
    BY <1>4, <1>6, <2>1, <2>2, <2>3
<1>11. q.live /\ q.msgs # <<>>
  <2>1. q.una # q.nxt
    <3> HIDE DEF q
    <3> QED
      BY <1>4, <1>6, <1>10
  <2> QED
    BY <1>1, <1>5, <2>1, NothingOut, Zenon
<1>12. got = r.next
  BY <1>11 DEF Got, got
<1>13. Placed(q, r) /\ InProgress(q, r)
  BY <1>5, <1>11 DEF Pipe, Placed
<1>14. /\ p \in Pair /\ p.una = q.una + 1 /\ p.nxt = q.nxt /\ p.msgs = q.msgs /\ p.live
       /\ EndOf(p) = EndOf(q)
  <2>1. f.seq > q.una /\ f.seq \in Nat
    <3> HIDE DEF q
    <3> QED
      BY <1>4, <1>9
  <2>2. p = [q EXCEPT !.una = f.seq]
    BY <2>1
  <2> HIDE DEF p, q
  <2> QED
    BY <1>4, <1>9, <1>11, <2>1, <2>2 DEF Pair, EndOf
<1>15. q.msgs[1] \in Message /\ EndOf(q) \in Nat /\ q.msgs[1].start \in Nat
  <2>1. EndOf(q) \in Nat /\ q.msgs[1] \in Message
    <3> HIDE DEF q
    <3> QED
      BY <1>4, <1>11, BytesLeft
  <2> HIDE DEF q
  <2> QED
    BY <2>1 DEF Message
<1> HIDE DEF p
<1>16. /\ P \in [Client -> Pair] /\ P[c] = p /\ \A d \in Client \ {c} : P[d] = w.qp[d]
  BY <1>1, <1>14, Zenon DEF Worlds
<1> HIDE DEF P
<1>17. /\ v \in Worlds /\ v.qp = P /\ v.link = [w.link EXCEPT ![h] = Tail(w.link[h])]
       /\ v.nic = w.nic /\ v.rx = w.rx /\ v.held = w.held /\ v.end = w.end
       /\ v.mtp = w.mtp /\ v.program = w.program /\ v.op = w.op
       /\ v.finished = w.finished /\ v.announced = w.announced /\ v.forgotten = w.forgotten
  BY <1>2, <1>3, <1>16 DEF Worlds
<1>18. /\ v.qp[c] = p /\ v.rx[c] = r /\ \A d \in Client \ {c} : v.qp[d] = w.qp[d]
       /\ v.link[h] = T /\ v.link[At[c]] = w.link[At[c]]
  BY <1>4, <1>16, <1>17 DEF T, Worlds
<1>19. /\ Routed(v)
       /\ \A d \in Client \ {c} : Pipe(v, d, 0)
  <2>1. \A d \in Client \ {c} : d # Head(w.link[h]).of /\ v.qp[d] = w.qp[d] /\ v.rx[d] = w.rx[d]
    <3>1. c = Head(w.link[h]).of
      BY DEF FirstOf
    <3> HIDE DEF c
    <3> QED
      BY <1>17, <1>18, <3>1
  <2>2. \A d : Owed(d, {}) = 0
    BY DEF Owed
  <2>3. w.link[h] # <<>> /\ v.link = [w.link EXCEPT ![h] = Tail(w.link[h])] /\ v.nic = w.nic
    BY <1>1, <1>17
  <2> HIDE DEF L, c
  <2>4. /\ Routed(v)
        /\ \A d \in Client : d # Head(w.link[h]).of /\ v.qp[d] = w.qp[d] /\ v.rx[d] = w.rx[d] =>
              Pipe(v, d, Owed(d, {}))
    BY <2>3, UnlinkedOthers
  <2>5. ASSUME NEW d \in Client \ {c} PROVE Pipe(v, d, 0)
    <3>1. Pipe(v, d, Owed(d, {}))
      BY <2>1, <2>4
    <3> QED
      BY <2>2, <3>1
  <2> QED
    BY <2>4, <2>5
<1>20. DataOnWay(v, c)
  <2>1. Got(p, r) = got
    BY <1>11, <1>14 DEF Got, got
  <2> QED
    BY <1>8, <1>14, <1>18, <2>1 DEF DataOnWay
<1>21. AcksOnWay(v, c, 0)
  <2>1. Got(p, r) = got
    BY <1>12, <1>14 DEF Got
  <2>3. Got(p, r) - 0 = got
    BY <1>6, <2>1
  <2>2. v.nic[h].acks = K
    BY <1>17 DEF K
  <2> QED
    BY <1>1, <1>7, <1>9, <1>14, <1>18, <2>3, <2>2 DEF AcksOnWay
<1>22. q.una + 1 <= EndOf(q) /\ q.nxt <= EndOf(q) /\ q.msgs[1].start <= q.una
  <2>1. q.msgs[1].start <= q.una /\ q.una < EndOf(q) /\ q.nxt <= EndOf(q)
    BY <1>13 DEF InProgress
  <2> HIDE DEF q
  <2> QED
    BY <1>4, <1>15, <2>1
<1>23. AckTaken(w, v, c)
  <2>1. SameRest(w, v)
    BY <1>17 DEF SameRest
  <2> HIDE DEF c, q
  <2> QED
    BY <1>11, <1>14, <1>15, <1>17, <1>18, <1>22, <2>1 DEF AckTaken, q
<1>24. ASSUME v.qp[c].una < EndOf(v.qp[c]) PROVE Net(v, {})
  <2>1. Placed(p, r)
    <3>1. InProgress(p, r)
      <4>1. p.una < EndOf(p)
        BY <1>18, <1>24
      <4>2. q.msgs[1].start <= p.una
        <5> HIDE DEF q
        <5> QED
          BY <1>4, <1>14, <1>15, <1>22
      <4> HIDE DEF q
      <4> QED
        BY <1>13, <1>14, <1>22, <4>1, <4>2 DEF InProgress
    <3> QED
      BY <1>11, <1>13, <1>14, <3>1 DEF Placed
  <2>2. Sized(v, c)
    <3>1. \A i \in 1 .. Len(w.link[At[c]]) :
             Matches(w.link[At[c]][i], "data", c) => SizeWith(q, w.link[At[c]][i])
      BY <1>5 DEF Pipe, Sized
    <3>2. \A g : SizeWith(q, g) => SizeWith(p, g)
      BY <1>14 DEF SizeWith
    <3> HIDE DEF q
    <3> QED
      BY <1>18, <3>1, <3>2, Zenon DEF Sized
  <2>3. Pipe(v, c, 0)
    BY <1>18, <1>20, <1>21, <2>1, <2>2 DEF Pipe
  <2>4. \A d : Owed(d, {}) = 0
    BY DEF Owed
  <2> HIDE DEF c
  <2> QED
    BY <1>19, <2>3, <2>4 DEF Net
<1>25. ASSUME v.qp[c].una = EndOf(v.qp[c]) PROVE AllTaken(v, c)
  <2>1. q.una + 1 = EndOf(q) /\ q.nxt = EndOf(q) /\ got = EndOf(q)
    <3>1. q.una + 1 = EndOf(q)
      BY <1>14, <1>18, <1>25
    <3> HIDE DEF q
    <3> QED
      BY <1>4, <1>6, <1>10, <1>15, <1>22, <3>1
  <2>2. r.left = NoSize
    <3>1. r.left # NoSize => r.left > 0 /\ r.next + r.left = EndOf(q)
      BY <1>13 DEF InProgress
    <3> HIDE DEF q, r
    <3> QED
      BY <1>4, <1>12, <1>15, <2>1, <3>1 DEF NoSize
  <2>3. \A i \in 1 .. Len(w.link[At[c]]) : ~Matches(w.link[At[c]][i], "data", c)
    <3>1. w.link[At[c]] \in Seq(Frame)
      BY <1>4, HostTypes
    <3>2. \A i \in 1 .. Len(w.link[At[c]]) :
             Matches(w.link[At[c]][i], "data", c) =>
               got <= w.link[At[c]][i].seq /\ w.link[At[c]][i].seq < q.nxt /\ w.link[At[c]][i].seq \in Nat
      <4>1. \A i \in 1 .. Len(w.link[At[c]]) : w.link[At[c]][i] \in Frame
        BY <3>1
      <4> QED
        BY <1>8, <3>1, <4>1, CarriesBounds, Zenon DEF Frame
    <3>3. got \in Nat /\ q.nxt = got
      BY <1>6, <2>1
    <3> SUFFICES ASSUME NEW i \in 1 .. Len(w.link[At[c]]), Matches(w.link[At[c]][i], "data", c)
                 PROVE  FALSE
      OBVIOUS
    <3> DEFINE x == w.link[At[c]][i].seq
               y == q.nxt
    <3>4. got <= x /\ x < y /\ x \in Nat
      BY <3>2, Zenon
    <3>5. y = got
      BY <3>3
    <3> HIDE DEF x, y
    <3> QED
      BY <3>3, <3>4, <3>5
  <2>4. \A i \in 1 .. Len(q.msgs) : q.msgs[i].size > 0 /\ (q.msgs[i].set <=> i = 1)
    BY <1>13 DEF Placed
  <2> HIDE DEF c, q, r
  <2> QED
    BY <1>11, <1>12, <1>14, <1>18, <1>19, <1>20, <1>21, <2>1, <2>2, <2>3, <2>4 DEF AllTaken
<1> QED
  BY <1>17, <1>23, <1>24, <1>25

\* The message is taken off, and the next one is given its place.
Popped(w, c) == [w EXCEPT !.qp[c].msgs = Tail(@)]

\* All that this changes is the messages of c.
OnlyMessages(w, v, c) ==
    /\ SameRest(w, v) /\ v.link = w.link
    /\ \A d \in Client \ {c} : v.qp[d] = w.qp[d]
    /\ v.qp[c].nxt = w.qp[c].nxt /\ v.qp[c].una = w.qp[c].una /\ v.qp[c].live = w.qp[c].live
SameEnd(w, v) == v.held = w.held /\ v.end = w.end /\ v.finished = w.finished

Placing(msgs, n) == [msgs EXCEPT ![1] = [@ EXCEPT !.start = n, !.set = TRUE]]

\* One message less, and the first in its place
Shorter(q, p) ==
    /\ Len(q.msgs) = Len(p.msgs) + 1
    /\ \A i \in 1 .. Len(p.msgs) : p.msgs[i].size > 0 /\ (p.msgs[i].set <=> i = 1)
    /\ p.msgs # <<>> => p.msgs[1].start = q.nxt

WithMessages(w, c, msgs) == [w EXCEPT !.qp = [w.qp EXCEPT ![c] = [w.qp[c] EXCEPT !.msgs = msgs]]]

\* Other messages in the queue of one client
LEMMA MessagesReplaced ==
    ASSUME NEW w \in Worlds, NEW c \in Client, NEW msgs \in Seq(Message),
           NEW v, v = WithMessages(w, c, msgs)
    PROVE  v \in Worlds /\ OnlyMessages(w, v, c) /\ SameEnd(w, v) /\ v.qp[c].msgs = msgs
<1> DEFINE q == w.qp[c]
           p == [q EXCEPT !.msgs = msgs]
           P == [w.qp EXCEPT ![c] = p]
<1>1. q \in Pair
  BY PairTypes
<1> HIDE DEF q
<1>2. /\ p \in Pair /\ p.msgs = msgs /\ p.nxt = q.nxt /\ p.una = q.una /\ p.live = q.live
  BY <1>1 DEF Pair
<1> HIDE DEF p
<1>3. P \in [Client -> Pair] /\ P[c] = p /\ \A d \in Client \ {c} : P[d] = w.qp[d]
  BY <1>2 DEF Worlds
<1>4. v = [w EXCEPT !.qp = P]
  BY DEF p, q, WithMessages
<1> HIDE DEF P
<1>5. /\ v \in Worlds /\ v.qp = P /\ v.link = w.link /\ v.nic = w.nic /\ v.rx = w.rx
      /\ v.mtp = w.mtp /\ v.program = w.program /\ v.op = w.op /\ v.held = w.held /\ v.end = w.end
      /\ v.finished = w.finished /\ v.announced = w.announced /\ v.forgotten = w.forgotten
  BY <1>3, <1>4 DEF Worlds
<1>6. v.qp[c].nxt = w.qp[c].nxt /\ v.qp[c].una = w.qp[c].una /\ v.qp[c].live = w.qp[c].live
      /\ v.qp[c].msgs = msgs
  BY <1>2, <1>3, <1>5 DEF q
<1> QED
  BY <1>3, <1>5, <1>6 DEF OnlyMessages, SameEnd, SameRest

\* What taking off the first message changes
LEMMA PoppedFields ==
    ASSUME NEW w \in Worlds, NEW c \in Client, w.qp[c].msgs # <<>>, NEW v, v = Popped(w, c)
    PROVE  /\ v \in Worlds /\ OnlyMessages(w, v, c) /\ SameEnd(w, v)
           /\ v.qp[c].msgs = Tail(w.qp[c].msgs)
<1>1. Tail(w.qp[c].msgs) \in Seq(Message)
  <2> DEFINE s == w.qp[c].msgs
  <2>1. s \in Seq(Message) /\ s # <<>>
    BY PairTypes
  <2> HIDE DEF s
  <2>2. Tail(s) \in Seq(Message)
    BY <2>1
  <2> QED
    BY <2>2 DEF s
<1> DEFINE t == Tail(w.qp[c].msgs)
<1>2. v = WithMessages(w, c, t)
  BY Zenon DEF Popped, WithMessages
<1> HIDE DEF t
<1>3. t \in Seq(Message) /\ t = Tail(w.qp[c].msgs)
  BY <1>1 DEF t
<1>4. t \in Seq(Message)
  BY <1>3
<1> DEFINE x == WithMessages(w, c, t)
<1>6. x \in Worlds /\ OnlyMessages(w, x, c) /\ SameEnd(w, x) /\ x.qp[c].msgs = t
  BY <1>4, MessagesReplaced
<1> HIDE DEF x
<1>5. v \in Worlds /\ OnlyMessages(w, v, c) /\ SameEnd(w, v) /\ v.qp[c].msgs = t
  BY <1>2, <1>6 DEF x
<1> QED
  BY <1>3, <1>5

\* What SetUp changes
LEMMA SetUpFields ==
    ASSUME NEW w \in Worlds, NEW c \in Client,
           w.qp[c].msgs # <<>> => ~w.qp[c].msgs[1].set,
           NEW v, v = SetUp(w, c)
    PROVE  /\ v \in Worlds /\ OnlyMessages(w, v, c) /\ SameEnd(w, v)
           /\ v.qp[c].msgs = IF w.qp[c].msgs = <<>> THEN <<>> ELSE Placing(w.qp[c].msgs, w.qp[c].nxt)
<1>1. CASE w.qp[c].msgs = <<>>
  <2>1. v = w
    BY <1>1 DEF SetUp
  <2> QED
    BY <1>1, <2>1 DEF OnlyMessages, SameEnd, SameRest
<1>2. CASE w.qp[c].msgs # <<>>
  <2> DEFINE s == w.qp[c].msgs
             n == w.qp[c].nxt
             t == Placing(s, n)
  <2>1. s \in Seq(Message) /\ s # <<>> /\ n \in Nat
    BY <1>2, PairTypes
  <2> DEFINE m == [s[1] EXCEPT !.start = n]
             r == [s EXCEPT ![1] = m]
             x == WithMessages(w, c, r)
  <2>2. /\ r \in Seq(Message) /\ t \in Seq(Message) /\ Head(s) = s[1]
        /\ t = [r EXCEPT ![1].set = TRUE]
    <3> HIDE DEF s, n
    <3>1. 1 \in 1 .. Len(s) /\ s[1] \in Message /\ Head(s) = s[1]
      BY <2>1
    <3> DEFINE l == [m EXCEPT !.set = TRUE]
    <3>2. m \in Message /\ l \in Message
      BY <2>1, <3>1 DEF Message
    <3>3. l = [s[1] EXCEPT !.start = n, !.set = TRUE]
      BY <3>1 DEF Message
    <3>4. t = [s EXCEPT ![1] = l]
      BY <3>3, Zenon DEF Placing
    <3> HIDE DEF m
    <3>5. r[1] = m /\ [r EXCEPT ![1].set = TRUE] = [r EXCEPT ![1] = l]
      <4>1. r[1] = m
        BY <2>1, <3>1
      <4>2. [r EXCEPT ![1].set = TRUE] = [r EXCEPT ![1] = [r[1] EXCEPT !.set = TRUE]]
        BY Zenon
      <4> HIDE DEF r
      <4> QED
        BY <4>1, <4>2
    <3> HIDE DEF l, t
    <3>6. [r EXCEPT ![1] = l] = [s EXCEPT ![1] = l]
      BY <2>1, <3>1
    <3> QED
      BY <2>1, <3>1, <3>2, <3>4, <3>5, <3>6
  <2>3. x = [w EXCEPT !.qp[c].msgs[1].start = n]
    BY Zenon DEF WithMessages
  <2>4. v = [x EXCEPT !.qp[c].msgs[1].set = TRUE]
    <3>1. ~(s = <<>> \/ Head(s).set)
      BY <1>2, <2>2, Zenon
    <3>2. v = [w EXCEPT !.qp[c].msgs[1].start = w.qp[c].nxt, !.qp[c].msgs[1].set = TRUE]
      BY <3>1, Zenon DEF SetUp
    <3> HIDE DEF x
    <3> QED
      BY <2>3, <3>2, Zenon
  <2> HIDE DEF x, r, t, s
  <2>5. x \in Worlds /\ OnlyMessages(w, x, c) /\ SameEnd(w, x) /\ x.qp[c].msgs = r
    BY <2>2, MessagesReplaced DEF x
  <2>6. v = WithMessages(x, c, t)
    <3>1. v = WithMessages(x, c, [x.qp[c].msgs EXCEPT ![1].set = TRUE])
      BY <2>4, Zenon DEF WithMessages
    <3>2. t = [x.qp[c].msgs EXCEPT ![1].set = TRUE]
      BY <2>2, <2>5
    <3> QED
      BY <3>1, <3>2, Zenon
  <2>7. v \in Worlds /\ OnlyMessages(x, v, c) /\ SameEnd(x, v) /\ v.qp[c].msgs = t
    <3>1. t \in Seq(Message) /\ x \in Worlds
      BY <2>2, <2>5
    <3> DEFINE y == WithMessages(x, c, t)
    <3>2. y \in Worlds /\ OnlyMessages(x, y, c) /\ SameEnd(x, y) /\ y.qp[c].msgs = t
      BY <3>1, MessagesReplaced
    <3>3. v = y
      BY <2>6
    <3> HIDE DEF y
    <3> QED
      BY <3>2, <3>3
  <2>8. OnlyMessages(w, v, c) /\ SameEnd(w, v)
    BY <2>5, <2>7 DEF OnlyMessages, SameEnd, SameRest
  <2> QED
    BY <1>2, <2>7, <2>8 DEF t, s
<1> QED
  BY <1>1, <1>2

\* A queue without its first message, the next one set up
LEMMA Shortened ==
    ASSUME NEW q \in Pair, NEW p \in Pair, q.msgs # <<>>,
           \A i \in 1 .. Len(q.msgs) : q.msgs[i].size > 0 /\ (q.msgs[i].set <=> i = 1),
           p.msgs = IF Tail(q.msgs) = <<>> THEN <<>> ELSE Placing(Tail(q.msgs), q.nxt)
    PROVE  Shorter(q, p)
<1> DEFINE s == q.msgs
           t == Tail(s)
           n == q.nxt
           u == p.msgs
<1>1. s \in Seq(Message) /\ s # <<>> /\ n \in Nat
  BY DEF Pair
<1>2. \A i \in 1 .. Len(s) : s[i].size > 0 /\ (s[i].set <=> i = 1)
  OBVIOUS
<1>3. u = IF t = <<>> THEN <<>> ELSE Placing(t, n)
  OBVIOUS
<1> HIDE DEF s, n, u
<1>4. /\ t \in Seq(Message) /\ Len(s) = Len(t) + 1 /\ Len(t) \in Nat
      /\ \A i \in 1 .. Len(t) : i + 1 \in 1 .. Len(s) /\ t[i] = s[i + 1] /\ t[i] \in Message
  BY <1>1
<1> HIDE DEF t
<1>5. CASE t = <<>>
  <2>1. u = <<>> /\ Len(u) = 0 /\ Len(t) = 0
    BY <1>3, <1>5
  <2> QED
    BY <1>4, <2>1 DEF Shorter, s, u
<1>6. CASE t # <<>>
  <2> DEFINE m == [t[1] EXCEPT !.start = n, !.set = TRUE]
  <2>1. 1 \in 1 .. Len(t) /\ t[1] \in Message
    BY <1>4, <1>6
  <2>2. m.size = t[1].size /\ m.start = n /\ m.set = TRUE
    BY <2>1 DEF Message
  <2>3. u = [t EXCEPT ![1] = m]
    BY <1>3, <1>6, Zenon DEF Placing
  <2> HIDE DEF m
  <2>4. Len(u) = Len(t) /\ u[1] = m /\ \A i \in 1 .. Len(t) : i # 1 => u[i] = t[i]
    BY <1>4, <2>1, <2>3
  <2>5. ASSUME NEW i \in 1 .. Len(u) PROVE u[i].size > 0 /\ (u[i].set <=> i = 1)
    <3>1. i + 1 \in 1 .. Len(s) /\ t[i] = s[i + 1] /\ i \in Nat
      BY <1>4, <2>4
    <3>2. t[i].size > 0 /\ ~(i + 1 = 1) /\ (t[i].set <=> i + 1 = 1)
      BY <1>2, <2>5, <3>1
    <3>3. CASE i = 1
      BY <2>2, <2>4, <3>2, <3>3
    <3>4. CASE i # 1
      BY <2>4, <2>5, <3>2, <3>4
    <3> QED
      BY <3>3, <3>4
  <2>6. u[1].start = n
    BY <2>2, <2>4
  <2> QED
    BY <1>4, <2>4, <2>5, <2>6, Zenon DEF Shorter, s, u, n
<1> QED
  BY <1>5, <1>6

\* The transport goes on with the next message, or without one.
LEMMA MessageGone ==
    ASSUME NEW w \in Worlds, NEW c \in Client, AllTaken(w, c), Groups(w), Woken(w, {}),
           NEW v \in Worlds, OnlyMessages(w, v, c), Shorter(w.qp[c], v.qp[c])
    PROVE  /\ Net(v, {}) /\ Groups(v)
           /\ Woken(v, {At[c]}) /\ (v.qp[c].msgs = <<>> => Woken(v, {}))
<1> DEFINE q == w.qp[c]
           p == v.qp[c]
           r == w.rx[c]
<1>1. /\ v.rx[c] = r /\ v.nic = w.nic /\ v.link = w.link /\ v.rx = w.rx
      /\ \A d \in Client \ {c} : v.qp[d] = w.qp[d]
      /\ p.nxt = q.nxt /\ p.una = q.una /\ p.live = q.live
  BY DEF OnlyMessages, SameRest
<1>2. /\ p \in Pair /\ p.msgs \in Seq(Message) /\ q.nxt \in Nat /\ r \in Receiver /\ r.next \in Nat
      /\ At[c] \in Host
  BY PairTypes
<1>3. /\ q.live /\ q.una = q.nxt /\ r.next = q.nxt /\ r.left = NoSize
      /\ \A i \in 1 .. Len(w.link[At[c]]) : ~Matches(w.link[At[c]][i], "data", c)
      /\ DataOnWay(w, c) /\ AcksOnWay(w, c, 0)
      /\ Routed(w) /\ \A d \in Client \ {c} : Pipe(w, d, 0)
  BY DEF AllTaken
<1>4. /\ \A i \in 1 .. Len(p.msgs) : p.msgs[i].size > 0 /\ (p.msgs[i].set <=> i = 1)
      /\ p.msgs # <<>> => p.msgs[1].start = q.nxt
  BY DEF Shorter
<1> HIDE DEF p, q, r
<1>5. Placed(p, r)
  <2>1. CASE p.msgs = <<>>
    BY <1>1, <1>3, <1>4, <2>1 DEF Placed
  <2>2. CASE p.msgs # <<>>
    <3>1. 1 \in 1 .. Len(p.msgs) /\ p.msgs[1] \in Message
      <4> DEFINE s == p.msgs
      <4>1. s \in Seq(Message) /\ s # <<>>
        BY <1>2, <2>2
      <4> HIDE DEF s
      <4>2. 1 \in 1 .. Len(s) /\ s[1] \in Message
        BY <4>1
      <4> QED
        BY <4>2 DEF s
    <3>2. p.msgs[1].size \in Nat /\ p.msgs[1].size > 0 /\ p.msgs[1].start = q.nxt
      BY <1>4, <2>2, <3>1 DEF Message
    <3>3. EndOf(p) = q.nxt + p.msgs[1].size
      BY <3>2 DEF EndOf
    <3>4. InProgress(p, r)
      BY <1>1, <1>2, <1>3, <3>2, <3>3 DEF InProgress
    <3> QED
      BY <1>4, <2>2, <3>4, <1>1, <1>3 DEF Placed
  <2> QED
    BY <2>1, <2>2
<1>6. Pipe(v, c, 0)
  <2>1. Got(p, r) = Got(q, r)
    BY <1>1 DEF Got
  <2>2. DataOnWay(v, c)
    BY <1>1, <1>3, <2>1 DEF DataOnWay, p, q, r
  <2>3. AcksOnWay(v, c, 0)
    BY <1>1, <1>3, <2>1 DEF AcksOnWay, p, q, r
  <2>4. Sized(v, c)
    BY <1>1, <1>3 DEF Sized
  <2> QED
    BY <1>1, <1>5, <2>2, <2>3, <2>4 DEF Pipe, p
<1>7. Net(v, {})
  <2>1. Routed(v)
    BY <1>1, <1>3, RoutedSame, Zenon
  <2>2. ASSUME NEW d \in Client \ {c} PROVE Pipe(v, d, 0)
    <3>1. Pipe(w, d, 0) /\ v.qp[d] = w.qp[d] /\ v.rx[d] = w.rx[d]
      BY <1>1, <1>3
    <3> QED
      BY <1>1, <3>1, PipeSame, Zenon
  <2>3. \A d : Owed(d, {}) = 0
    BY DEF Owed
  <2> QED
    BY <1>6, <2>1, <2>2, <2>3 DEF Net
<1>8. Groups(v)
  <2>1. \A d \in Client : v.qp[d].live = w.qp[d].live
    BY <1>1 DEF p, q
  <2>2. \A g \in Host : v.nic[g].group = w.nic[g].group
    BY <1>1
  <2> QED
    BY <2>1, <2>2, GroupsKept
<1>9. Woken(v, {At[c]})
  <2>1. \A d \in Client : At[d] # At[c] => v.qp[d] = w.qp[d]
    BY <1>1
  <2>2. \A g \in Host \ {At[c]} : v.nic[g] = w.nic[g]
    BY <1>1
  <2>3. Woken(v, {} \cup {At[c]})
    BY <1>2, <2>1, <2>2, WokenThere
  <2> QED
    BY <2>3
<1>10. ASSUME p.msgs = <<>> PROVE Woken(v, {})
  <2>1. GetBytesLeft(p) = 0
    BY <1>2, <1>10, BytesLeft
  <2> SUFFICES ASSUME NEW g \in Host, ~v.nic[g].busy PROVE Asleep(v, g)
    BY Zenon DEF Woken
  <2>2. Asleep(w, g)
    BY <1>1 DEF Woken
  <2>3. ASSUME NEW i \in 1 .. Len(w.nic[g].group) PROVE GetBytesLeft(v.qp[w.nic[g].group[i]]) = 0
    <3>1. w.nic[g].group[i] \in Client
      BY HostTypes
    <3>2. GetBytesLeft(w.qp[w.nic[g].group[i]]) = 0
      BY <2>2 DEF Asleep
    <3> QED
      BY <1>1, <2>1, <3>1, <3>2 DEF p
  <2> QED
    BY <1>1, <2>2, <2>3, Zenon DEF Asleep
<1> QED
  BY <1>7, <1>8, <1>9, <1>10 DEF p

----------------------------------------------------------------------------
(***************************************************************************)
(* The last flow is done: the script finishes the queue pairs of all flows.*)
(***************************************************************************)
FoldStep(it, w, U) ==
    IF U = {} THEN w
    ELSE LET c == Chosen(U)
             v == it[U \ {c}]
         IN  Then(v, FinishQp(v, c))
IsFold(it, w, S) == it = [U \in SUBSET S |-> FoldStep(it, w, U)]

\* FoldSet is a recursive function on the subsets.
LEMMA FoldDefinition ==
    ASSUME NEW w
    PROVE  FinishFlows(w) = (CHOOSE it : IsFold(it, w, FlowClients))[FlowClients]
BY DEF FinishFlows, FoldSet, MapThenFoldSet, IsFold, FoldStep, Chosen

\* It exists: it is built by the size of the subsets.
LEMMA FoldExists ==
    ASSUME NEW w, NEW S, IsFiniteSet(S)
    PROVE  \E it : IsFold(it, w, S)
<1> DEFINE Upto(s, n) == \A U \in SUBSET S : Cardinality(U) <= n => s[U] = FoldStep(s, w, U)
           G == {n \in Nat : \E s : Upto(s, n)}
<1>1. \A U \in SUBSET S : IsFiniteSet(U) /\ Cardinality(U) \in Nat /\ (Cardinality(U) = 0 <=> U = {})
  BY FS_Subset, FS_EmptySet, FS_CardinalityType
<1>2. 0 \in G
  <2>1. Upto([U \in SUBSET S |-> w], 0)
    <3> SUFFICES ASSUME NEW U \in SUBSET S, Cardinality(U) <= 0
                 PROVE  [V \in SUBSET S |-> w][U] = FoldStep([V \in SUBSET S |-> w], w, U)
      OBVIOUS
    <3>1. U = {}
      BY <1>1
    <3> QED
      BY <3>1, Zenon DEF FoldStep
  <2> QED
    BY <2>1
<1>3. \A n \in G : n + 1 \in G
  <2> SUFFICES ASSUME NEW n \in Nat, NEW s, Upto(s, n) PROVE \E t : Upto(t, n + 1)
    OBVIOUS
  <2> DEFINE t == [U \in SUBSET S |-> IF Cardinality(U) <= n THEN s[U] ELSE FoldStep(s, w, U)]
  <2> SUFFICES ASSUME NEW U \in SUBSET S, Cardinality(U) <= n + 1 PROVE t[U] = FoldStep(t, w, U)
    BY Zenon
  <2>1. t[U] = FoldStep(s, w, U)
    OBVIOUS
  <2>2. CASE U = {}
    BY <2>1, <2>2, Zenon DEF FoldStep
  <2>3. CASE U # {}
    <3> DEFINE V == U \ {Chosen(U)}
    <3>1. V \in SUBSET S /\ Cardinality(V) = Cardinality(U) - 1
      BY <1>1, <2>3, ChosenMember, FS_RemoveElement
    <3>2. Cardinality(V) <= n
      BY <1>1, <3>1
    <3>3. t[V] = s[V]
      BY <3>1, <3>2
    <3> HIDE DEF t
    <3>4. /\ FoldStep(s, w, U) = Then(s[V], FinishQp(s[V], Chosen(U)))
          /\ FoldStep(t, w, U) = Then(t[V], FinishQp(t[V], Chosen(U)))
      BY <2>3, Zenon DEF FoldStep
    <3> HIDE DEF V
    <3> QED
      BY <2>1, <3>3, <3>4, Zenon
  <2> QED
    BY <2>2, <2>3
<1>4. G = Nat
  <2> HIDE DEF G
  <2>1. G \in SUBSET Nat
    BY DEF G
  <2> QED
    BY <1>2, <1>3, <2>1, NumberInduction
<1>5. Cardinality(S) \in Nat
  BY <1>1
<1>6. PICK s : Upto(s, Cardinality(S))
  BY <1>4, <1>5
<1>7. \A U \in SUBSET S : s[U] = FoldStep(s, w, U)
  BY <1>6, FS_Subset
<1> DEFINE t == [U \in SUBSET S |-> s[U]]
<1>8. ASSUME NEW U \in SUBSET S PROVE t[U] = FoldStep(t, w, U)
  <2>1. CASE U = {}
    <3>1. t[U] = s[U]
      OBVIOUS
    <3> HIDE DEF t
    <3> QED
      BY <1>7, <2>1, <3>1, Zenon DEF FoldStep
  <2>2. CASE U # {}
    <3> DEFINE V == U \ {Chosen(U)}
    <3>1. V \in SUBSET S /\ t[V] = s[V] /\ t[U] = s[U]
      OBVIOUS
    <3> HIDE DEF t
    <3>2. /\ FoldStep(s, w, U) = Then(s[V], FinishQp(s[V], Chosen(U)))
          /\ FoldStep(t, w, U) = Then(t[V], FinishQp(t[V], Chosen(U)))
      BY <2>2, Zenon DEF FoldStep
    <3> HIDE DEF V
    <3> QED
      BY <1>7, <3>1, <3>2, Zenon
  <2> QED
    BY <2>1, <2>2
<1>9. IsFold(t, w, S)
  <2>1. t = [U \in SUBSET S |-> t[U]]
    OBVIOUS
  <2> HIDE DEF t
  <2> QED
    BY <1>8, <2>1 DEF IsFold
<1> QED
  BY <1>9

\* The queue pairs of U are finished.
Ended(w, v, U, A, X) ==
    /\ Open(v) /\ Moving(v, A, X)
    /\ \A d \in Client \ U : v.qp[d] = w.qp[d] /\ v.rx[d] = w.rx[d]
    /\ \A d \in U : v.qp[d].msgs = <<>>
    /\ v.mtp = w.mtp /\ v.program = w.program /\ v.op = w.op
    /\ v.finished = w.finished /\ v.announced = w.announced /\ v.forgotten = w.forgotten

\* All queue pairs of the flows are finished, one after the other.
LEMMA FinishFlowsMoves ==
    ASSUME NEW w, Open(w), NEW A, NEW X, Moving(w, A, X),
           \A c \in FlowClients : w.qp[c].live /\ w.qp[c].msgs = <<>>,
           NEW v, v = FinishFlows(w)
    PROVE  Ended(w, v, FlowClients, A, X)
<1> DEFINE S == FlowClients
           it == CHOOSE it : IsFold(it, w, S)
<1>1. IsFiniteSet(S) /\ S \subseteq Client
  BY ClientAssumption, FS_Subset DEF FlowClients
<1>2. v = it[S]
  BY FoldDefinition
<1>3. IsFold(it, w, S)
  BY <1>1, FoldExists
<1> HIDE DEF it
<1>4. \A U \in SUBSET S : it[U] = FoldStep(it, w, U)
  BY <1>3 DEF IsFold
<1>5. \A c \in S : w.qp[c].live /\ w.qp[c].msgs = <<>>
  OBVIOUS
<1> HIDE DEF S
<1>6. \A U \in SUBSET S : IsFiniteSet(U) /\ Cardinality(U) \in Nat /\ (Cardinality(U) = 0 <=> U = {})
  BY <1>1, FS_Subset, FS_EmptySet, FS_CardinalityType
<1> DEFINE Claim(n) == \A U \in SUBSET S : Cardinality(U) = n => Ended(w, it[U], U, A, X)
           G == {n \in Nat : Claim(n)}
<1>7. 0 \in G
  <2> SUFFICES ASSUME NEW U \in SUBSET S, Cardinality(U) = 0 PROVE Ended(w, it[U], U, A, X)
    OBVIOUS
  <2>1. U = {}
    BY <1>6
  <2>2. it[U] = w
    BY <1>4, <2>1, Zenon DEF FoldStep
  <2> QED
    BY <2>1, <2>2 DEF Ended
<1>8. ASSUME NEW n \in G PROVE n + 1 \in G
  <2> SUFFICES ASSUME NEW U \in SUBSET S, Cardinality(U) = n + 1 PROVE Ended(w, it[U], U, A, X)
    BY <1>8
  <2> DEFINE c == Chosen(U)
             V == U \ {c}
             x == it[V]
             y == it[U]
  <2>1. U # {} /\ n \in Nat
    BY <1>6, <1>8
  <2>2. c \in U /\ c \in Client
    BY <1>1, <2>1, ChosenMember
  <2>3. Cardinality(V) = n /\ V \in SUBSET S
    BY <1>6, <2>1, <2>2, FS_RemoveElement
  <2>4. Ended(w, x, V, A, X)
    BY <1>8, <2>3
  <2>5. y = Then(x, FinishQp(x, c))
    BY <1>4, <2>1, Zenon DEF FoldStep
  <2>6. c \notin V /\ U = V \cup {c}
    BY <2>2
  <2>7. w.qp[c].live /\ w.qp[c].msgs = <<>>
    BY <1>5, <2>2
  <2> HIDE DEF c, V, x, y
  <2>8. /\ Open(x) /\ Moving(x, A, X)
        /\ \A d \in Client \ V : x.qp[d] = w.qp[d] /\ x.rx[d] = w.rx[d]
        /\ \A d \in V : x.qp[d].msgs = <<>>
        /\ x.mtp = w.mtp /\ x.program = w.program /\ x.op = w.op
        /\ x.finished = w.finished /\ x.announced = w.announced /\ x.forgotten = w.forgotten
    BY <2>4 DEF Ended
  <2>9. x.qp[c].live /\ x.qp[c].msgs = <<>>
    BY <2>2, <2>6, <2>7, <2>8
  <2>10. y = FinishQp(x, c)
    BY <2>5, <2>8, SectionRuns
  <2>11. /\ Open(y) /\ Moving(y, A, X)
         /\ \A d \in Client \ {c} : y.qp[d] = x.qp[d] /\ y.rx[d] = x.rx[d]
         /\ ~y.qp[c].live /\ y.qp[c].msgs = <<>>
         /\ y.mtp = x.mtp /\ y.program = x.program /\ y.op = x.op
         /\ y.finished = x.finished /\ y.announced = x.announced /\ y.forgotten = x.forgotten
    BY <2>2, <2>8, <2>9, <2>10, FinishQpMoves
  <2>12. \A d \in Client \ U : y.qp[d] = w.qp[d] /\ y.rx[d] = w.rx[d]
    BY <2>6, <2>8, <2>11
  <2>13. \A d \in U : y.qp[d].msgs = <<>>
    <3>1. V \subseteq Client
      BY <1>1, <2>3
    <3> QED
      BY <2>6, <2>8, <2>11, <3>1
  <2>14. Ended(w, y, U, A, X)
    BY <2>8, <2>11, <2>12, <2>13 DEF Ended
  <2> QED
    BY <2>14 DEF y
<1>9. G = Nat
  <2> HIDE DEF G
  <2>1. G \in SUBSET Nat
    BY DEF G
  <2> QED
    BY <1>7, <1>8, <2>1, NumberInduction
<1>10. Ended(w, it[S], S, A, X)
  <2>1. Cardinality(S) \in G /\ S \in SUBSET S
    BY <1>6, <1>9
  <2> QED
    BY <2>1
<1> QED
  BY <1>2, <1>10 DEF S

----------------------------------------------------------------------------
(***************************************************************************)
(* How many flows are left                                                 *)
(***************************************************************************)
LEMMA Remains ==
    ASSUME NEW w \in Worlds, NEW fl \in [Client -> Nat]
    PROVE  /\ IsFiniteSet(FlowClients) /\ FlowClients \subseteq Client
           /\ FlowNum \in Nat /\ w.finished \in Nat
           /\ \A c \in FlowClients : Len(w.qp[c].msgs) \in Nat
           /\ \A c \in FlowClients :
                Remaining(w, fl)[c] \in Nat /\ Remaining(w, fl)[c] = fl[c] + Len(w.qp[c].msgs)
           /\ SumFunctionOnSet(Remaining(w, fl), FlowClients) \in Nat
<1>1. IsFiniteSet(FlowClients) /\ FlowClients \subseteq Client
  BY ClientAssumption, FS_Subset DEF FlowClients
<1>2. FlowNum \in Nat
  <2>1. \A c \in FlowClients : Flows[c] \in Nat
    BY <1>1, ClientAssumption
  <2> QED
    BY <1>1, <2>1, SumNat DEF FlowNum
<1>3. ASSUME NEW c \in FlowClients
      PROVE  /\ Remaining(w, fl)[c] \in Nat /\ Remaining(w, fl)[c] = fl[c] + Len(w.qp[c].msgs)
             /\ Len(w.qp[c].msgs) \in Nat
  <2> DEFINE s == w.qp[c].msgs
  <2>1. s \in Seq(Message) /\ fl[c] \in Nat
    BY <1>1, PairTypes
  <2>2. Remaining(w, fl)[c] = fl[c] + Len(s)
    BY DEF Remaining
  <2> HIDE DEF s
  <2>3. Len(s) \in Nat
    BY <2>1
  <2> QED
    BY <2>1, <2>2, <2>3 DEF s
<1>4. SumFunctionOnSet(Remaining(w, fl), FlowClients) \in Nat
  BY <1>1, <1>3, SumNat
<1>5. w.finished \in Nat
  BY DEF Worlds
<1> QED
  BY <1>1, <1>2, <1>3, <1>4, <1>5

\* A message of a flow is done.
LEMMA CountDone ==
    ASSUME NEW w \in Worlds, NEW fl \in [Client -> Nat], Count(w, fl), NEW c \in FlowClients,
           NEW v \in Worlds, v.finished = w.finished + 1,
           Len(w.qp[c].msgs) = Len(v.qp[c].msgs) + 1,
           \A d \in FlowClients \ {c} : v.qp[d].msgs = w.qp[d].msgs,
           \A d \in FlowClients : v.qp[d].live = w.qp[d].live
    PROVE  /\ Count(v, fl) /\ \A d \in FlowClients : v.qp[d].live
           /\ v.finished = FlowNum => \A d \in FlowClients : v.qp[d].msgs = <<>>
<1> DEFINE f == Remaining(w, fl)
           g == Remaining(v, fl)
           S == FlowClients
           s == SumFunctionOnSet(f, S)
           t == SumFunctionOnSet(g, S)
<1>1. /\ IsFiniteSet(S) /\ FlowNum \in Nat /\ w.finished \in Nat /\ v.finished \in Nat
      /\ \A d \in S : f[d] \in Nat /\ g[d] \in Nat
      /\ \A d \in S : f[d] = fl[d] + Len(w.qp[d].msgs) /\ g[d] = fl[d] + Len(v.qp[d].msgs)
      /\ s \in Nat /\ t \in Nat
      /\ S \subseteq Client
      /\ \A d \in S : Len(v.qp[d].msgs) \in Nat /\ Len(w.qp[d].msgs) \in Nat
  BY Remains
<1>2. w.finished + s = FlowNum /\ (w.finished < FlowNum => \A d \in FlowClients : w.qp[d].live)
  BY DEF Count
<1> HIDE DEF f, g
<1>3. g[c] = f[c] + (-1) /\ fl[c] \in Nat
  <2> DEFINE m == Len(w.qp[c].msgs)
             n == Len(v.qp[c].msgs)
             k == fl[c]
  <2>1. m = n + 1 /\ m \in Nat /\ n \in Nat /\ k \in Nat /\ f[c] = k + m /\ g[c] = k + n
    BY <1>1
  <2> HIDE DEF m, n, k
  <2>2. g[c] = f[c] + (-1)
    BY <2>1
  <2> QED
    BY <2>1, <2>2 DEF k
<1>4. \A d \in S \ {c} : g[d] = f[d]
  BY <1>1
<1>5. t = s + (-1)
  <2>1. \A d \in S : f[d] \in Int
    BY <1>1
  <2>2. -1 \in Int /\ c \in S
    OBVIOUS
  <2> DEFINE n == -1
  <2>4. g[c] = f[c] + n /\ n \in Int
    BY <1>3, <2>2
  <2>6. IsFiniteSet(S)
    BY <1>1
  <2> HIDE DEF S, n
  <2>5. SumFunctionOnSet(g, S) = SumFunctionOnSet(f, S) + n
    BY <1>4, <2>1, <2>2, <2>4, <2>6, SumChange
  <2>3. SumFunctionOnSet(g, S) = SumFunctionOnSet(f, S) + (-1)
    BY <2>5 DEF n
  <2> QED
    BY <2>3
<1> HIDE DEF s, t
<1>6. v.finished + t = FlowNum /\ w.finished < FlowNum
  <2> DEFINE x == w.finished
             y == v.finished
  <2>1. x + s = FlowNum /\ y = x + 1 /\ x \in Nat /\ s \in Nat /\ t \in Nat /\ t = s + (-1)
    BY <1>1, <1>2, <1>5
  <2> HIDE DEF x, y
  <2>2. y + t = FlowNum /\ x < FlowNum
    BY <2>1
  <2> QED
    BY <2>2 DEF x, y
<1>7. \A d \in FlowClients : v.qp[d].live
  BY <1>2, <1>6
<1>8. Count(v, fl)
  BY <1>6, <1>7 DEF Count, t, g, S
<1>9. ASSUME v.finished = FlowNum, NEW d \in FlowClients PROVE v.qp[d].msgs = <<>>
  <2>1. t = 0
    BY <1>1, <1>6, <1>9
  <2>2. t = g[d] + SumFunctionOnSet(g, S \ {d})
    <3>1. (\A e \in S : g[e] \in Int) /\ d \in S /\ IsFiniteSet(S)
      BY <1>1, <1>9
    <3> HIDE DEF S
    <3> QED
      BY <3>1, SumRemove, Zenon DEF t
  <2>3. SumFunctionOnSet(g, S \ {d}) \in Nat
    <3>1. IsFiniteSet(S \ {d}) /\ \A e \in S \ {d} : g[e] \in Nat
      BY <1>1, FS_Subset
    <3> QED
      BY <3>1, SumNat
  <2>4. g[d] \in Nat /\ d \in Client
    BY <1>1, <1>9
  <2> DEFINE n == Len(v.qp[d].msgs)
             r == SumFunctionOnSet(g, S \ {d})
  <2>5. g[d] = fl[d] + n /\ n \in Nat /\ fl[d] \in Nat
    BY <1>1, <1>9, <2>4
  <2> HIDE DEF n, r
  <2>6. n = 0
    BY <2>1, <2>2, <2>3, <2>4, <2>5 DEF r
  <2> DEFINE q == v.qp[d].msgs
  <2>7. q \in Seq(Message) /\ Len(q) = 0
    BY <2>4, <2>6, PairTypes DEF n
  <2> HIDE DEF q
  <2>8. q = <<>>
    BY <2>7
  <2> QED
    BY <2>8 DEF q
<1> QED
  BY <1>7, <1>8, <1>9

\* The script pushes one.
LEMMA CountPushed ==
    ASSUME NEW w \in Worlds, NEW fl \in [Client -> Nat], Count(w, fl), NEW c \in Client, fl[c] > 0,
           NEW v \in Worlds, NEW size, Pushed(w, v, c, size),
           NEW gl, gl = [fl EXCEPT ![c] = fl[c] - 1]
    PROVE  Count(v, gl) /\ gl \in [Client -> Nat]
<1>1. gl \in [Client -> Nat] /\ gl[c] = fl[c] - 1 /\ \A d \in Client \ {c} : gl[d] = fl[d]
  <2>1. fl[c] - 1 \in Nat
    OBVIOUS
  <2> QED
    BY <2>1
<1>2. /\ \A d \in Client \ {c} : v.qp[d] = w.qp[d]
      /\ v.qp[c].live = w.qp[c].live /\ v.finished = w.finished
      /\ Len(v.qp[c].msgs) = Len(w.qp[c].msgs) + 1
  BY DEF Pushed
<1> DEFINE f == Remaining(w, fl)
           g == Remaining(v, gl)
<1>3. \A d \in FlowClients :
         f[d] \in Int /\ f[d] = fl[d] + Len(w.qp[d].msgs) /\ g[d] = gl[d] + Len(v.qp[d].msgs)
  <2>1. \A d \in FlowClients : f[d] \in Nat /\ f[d] = fl[d] + Len(w.qp[d].msgs)
    BY Remains
  <2>2. \A d \in FlowClients : g[d] = gl[d] + Len(v.qp[d].msgs)
    BY DEF Remaining
  <2> HIDE DEF f, g
  <2> QED
    BY <2>1, <2>2
<1>4. IsFiniteSet(FlowClients) /\ FlowClients \subseteq Client
      /\ \A d \in FlowClients : Len(w.qp[d].msgs) \in Nat
  BY Remains
<1> HIDE DEF f, g
<1>5. ASSUME NEW d \in FlowClients PROVE f[d] = g[d]
  <2>1. CASE d = c
    <3> DEFINE m == Len(w.qp[c].msgs)
               n == Len(v.qp[c].msgs)
               k == fl[c]
    <3>1. n = m + 1 /\ m \in Nat /\ k \in Nat /\ f[c] = k + m /\ g[c] = (k - 1) + n
      BY <1>1, <1>2, <1>3, <1>4, <2>1
    <3> HIDE DEF m, n, k
    <3> QED
      BY <2>1, <3>1
  <2>2. CASE d # c
    <3>1. v.qp[d] = w.qp[d] /\ gl[d] = fl[d]
      BY <1>1, <1>2, <1>4, <2>2
    <3> QED
      BY <1>3, <3>1
  <2> QED
    BY <2>1, <2>2
<1>6. SumFunctionOnSet(f, FlowClients) = SumFunctionOnSet(g, FlowClients)
  BY <1>3, <1>4, <1>5, SumSame
<1>7. \A d \in FlowClients : v.qp[d].live = w.qp[d].live
  BY <1>2, <1>4
<1> QED
  BY <1>1, <1>2, <1>6, <1>7 DEF Count, f, g

----------------------------------------------------------------------------
(***************************************************************************)
(* A message is complete                                                   *)
(***************************************************************************)
\* The last acknowledgement of the first message of c was taken.
AtItsEnd(w, c, fl) ==
    /\ Open(w) /\ AllTaken(w, c) /\ Groups(w) /\ Woken(w, {}) /\ Clients(w, {}, fl)

\* The message is gone and the next one is in its place.
Advanced(w, v, c) ==
    v \in Worlds /\ OnlyMessages(w, v, c) /\ Shorter(w.qp[c], v.qp[c])

\* The message is gone: the transport
LEMMA AdvancedMoves ==
    ASSUME NEW w, NEW c \in Client, NEW fl, AtItsEnd(w, c, fl), NEW v, Advanced(w, v, c)
    PROVE  /\ Moving(v, {}, {At[c]}) /\ (v.qp[c].msgs = <<>> => Moving(v, {}, {}))
           /\ Same(w, v)
<1>1. w \in Worlds /\ v \in Worlds /\ AllTaken(w, c) /\ Groups(w) /\ Woken(w, {})
      /\ OnlyMessages(w, v, c) /\ Shorter(w.qp[c], v.qp[c])
  BY DEF AtItsEnd, Advanced, Open
<1>2. /\ Net(v, {}) /\ Groups(v)
      /\ Woken(v, {At[c]}) /\ (v.qp[c].msgs = <<>> => Woken(v, {}))
  BY <1>1, MessageGone
<1>3. Same(w, v)
  BY <1>1 DEF OnlyMessages, SameRest, Same
<1> QED
  BY <1>1, <1>2, <1>3 DEF Moving

\* Other clients of OperationsRun do not notice.
LEMMA OthersAtWork ==
    ASSUME NEW w, NEW c \in Client, NEW fl, AtItsEnd(w, c, fl), NEW v, Advanced(w, v, c)
    PROVE  \A d \in Operators \ {c} : AtWork(v, d)
<1> SUFFICES ASSUME NEW d \in Operators, d # c PROVE AtWork(v, d)
  OBVIOUS
<1>1. AtWork(w, d) /\ d \in Client \ {c} /\ w \in Worlds
  <2>1. w \in Worlds /\ AtWork(w, d)
    BY DEF AtItsEnd, Clients, Open
  <2> QED
    BY <2>1, ProgramTypes
<1>2. /\ v.program = w.program /\ v.op = w.op /\ v.rx = w.rx /\ v.qp[d] = w.qp[d]
      /\ v.announced = w.announced /\ v.forgotten = w.forgotten
  BY <1>1 DEF Advanced, OnlyMessages, SameRest
<1> QED
  BY <1>1, <1>2, ClientSame

\* A SEND is complete: its receiver has announced it.
LEMMA OperatorDone ==
    ASSUME NEW w, NEW c \in Operators, NEW fl, AtItsEnd(w, c, fl),
           NEW v, Advanced(w, v, c), Open(v), v.finished = w.finished
    PROVE  v.qp[c].msgs = <<>> /\ Sending(v, c) /\ Good(v, {}, {c}, {}, fl) /\ Same(w, v)
<1> DEFINE list == w.program[c]
           n == w.op[c]
<1>1. /\ w \in Worlds /\ c \in Client /\ c \notin FlowClients /\ AtWork(w, c) /\ Count(w, fl)
      /\ list \in Seq(Nat) /\ Len(list) \in Nat /\ n \in Nat
      /\ w.announced[c] \in Nat /\ w.forgotten[c] \in Nat
  <2>1. w \in Worlds /\ AtWork(w, c) /\ Count(w, fl)
    BY DEF AtItsEnd, Clients, Open
  <2> QED
    BY <2>1, ProgramTypes
<1>2. /\ w.qp[c].msgs # <<>> /\ w.rx[c].next = EndOf(w.qp[c]) /\ w.qp[c].live
  BY DEF AtItsEnd, AllTaken
<1>3. Sending(w, c) /\ Len(w.qp[c].msgs) = 1
  BY <1>1, <1>2 DEF AtWork
<1>4. /\ v \in Worlds /\ v.program = w.program /\ v.op = w.op /\ v.rx = w.rx
      /\ v.announced = w.announced /\ v.forgotten = w.forgotten
      /\ v.qp[c].live = w.qp[c].live
      /\ \A d \in Client \ {c} : v.qp[d] = w.qp[d]
      /\ Len(w.qp[c].msgs) = Len(v.qp[c].msgs) + 1
  BY DEF Advanced, OnlyMessages, SameRest, Shorter
<1>5. v.qp[c].msgs = <<>>
  <2> DEFINE s == v.qp[c].msgs
  <2>1. s \in Seq(Message) /\ Len(s) + 1 = 1
    BY <1>1, <1>3, <1>4, PairTypes
  <2> HIDE DEF s
  <2>2. s = <<>>
    BY <2>1
  <2> QED
    BY <2>2 DEF s
<1>6. n \in 1 .. Len(list) /\ list[n] # Recv
  BY <1>3 DEF Sending
<1>7. Sending(v, c)
  BY <1>4, <1>6 DEF Sending
<1>8. Ready(v, c)
  <2>1. /\ SendsOf(list, n) = SendsOf(list, n - 1) + 1 /\ SendsOf(list, n - 1) \in Nat
        /\ Before(n) = n - 1
    <3>1. n - 1 \in Nat /\ (n - 1) + 1 = n
      BY <1>6
    <3> DEFINE k == n - 1
    <3> HIDE DEF k
    <3>2. k \in Nat /\ k + 1 = n
      BY <3>1 DEF k
    <3>3. /\ SendsOf(list, k) \in Nat
          /\ SendsOf(list, k + 1) = SendsOf(list, k) + IF list[k + 1] # Recv THEN 1 ELSE 0
      BY <3>2, SendsSteps
    <3>4. Before(n) = n - 1
      BY <1>6 DEF Before
    <3> QED
      BY <1>6, <3>2, <3>3, <3>4 DEF k
  <2>2. w.announced[c] = SendsOf(list, Before(n)) + 1
    BY <1>1, <1>2, <1>3 DEF AtWork
  <2>3. RecvsOf(list, Before(n)) + w.forgotten[c] = TellsOf(w, c)
    BY <1>1 DEF AtWork
  <2>4. RecvsOf(list, n) = RecvsOf(list, n - 1)
    <3> DEFINE a == SendsOf(list, n)
               b == SendsOf(list, n - 1)
    <3>1. a = b + 1 /\ b \in Nat /\ n \in Nat
      BY <1>1, <2>1
    <3> HIDE DEF a, b
    <3>2. n - a = (n - 1) - b
      BY <3>1
    <3> QED
      BY <3>2 DEF RecvsOf, a, b
  <2>5. TellsOf(v, c) = TellsOf(w, c)
    BY <1>4 DEF TellsOf
  <2>6. v.op[c] = n /\ v.program[c] = list /\ n \in 0 .. Len(list)
    BY <1>4, <1>6
  <2>7. v.announced[c] = SendsOf(list, n)
    BY <1>4, <2>1, <2>2
  <2>8. RecvsOf(list, n) + v.forgotten[c] = TellsOf(v, c)
    BY <1>4, <2>1, <2>3, <2>4, <2>5
  <2> QED
    BY <1>2, <1>4, <1>5, <2>6, <2>7, <2>8 DEF Ready
<1>9. Count(v, fl)
  <2>1. \A d \in FlowClients : d \in Client \ {c}
    BY <1>1 DEF FlowClients
  <2>2. \A d \in FlowClients : v.qp[d].msgs = w.qp[d].msgs /\ v.qp[d].live = w.qp[d].live
    BY <1>4, <2>1
  <2> QED
    BY <1>1, <2>2, CountSame
<1>10. \A d \in Operators \ {c} : AtWork(v, d)
  BY <1>1, OthersAtWork
<1>11. Clients(v, {c}, fl)
  BY <1>8, <1>9, <1>10 DEF Clients
<1>12. Moving(v, {}, {}) /\ Same(w, v)
  BY <1>1, <1>5, AdvancedMoves
<1> QED
  BY <1>5, <1>7, <1>11, <1>12 DEF Good

\* ... a PassiveDestroy client
LEMMA PassiveDone ==
    ASSUME NEW w, NEW c \in Passive, NEW fl, AtItsEnd(w, c, fl),
           NEW v, Advanced(w, v, c), v.finished = w.finished
    PROVE  /\ Moving(v, {}, {At[c]}) /\ (v.qp[c].msgs = <<>> => Moving(v, {}, {}))
           /\ Clients(v, {}, fl) /\ Same(w, v)
<1>1. c \in Client /\ c \notin Operators /\ c \notin FlowClients /\ FlowClients \subseteq Client
  BY ClientAssumption DEF FlowClients
<1>2. Moving(v, {}, {At[c]}) /\ (v.qp[c].msgs = <<>> => Moving(v, {}, {})) /\ Same(w, v)
  BY <1>1, AdvancedMoves
<1>3. \A d \in Operators : AtWork(v, d)
  BY <1>1, OthersAtWork
<1>4. Count(v, fl)
  <2>1. Count(w, fl)
    BY DEF AtItsEnd, Clients
  <2>2. \A d \in FlowClients : v.qp[d] = w.qp[d]
    BY <1>1 DEF Advanced, OnlyMessages
  <2> QED
    BY <2>1, <2>2, CountSame
<1> QED
  BY <1>2, <1>3, <1>4 DEF Clients

\* ... a client with flows
LEMMA FlowDone ==
    ASSUME NEW w, NEW c \in FlowClients, NEW fl \in [Client -> Nat], AtItsEnd(w, c, fl),
           NEW v, Advanced(w, v, c), v.finished = w.finished + 1
    PROVE  /\ Moving(v, {}, {At[c]}) /\ (v.qp[c].msgs = <<>> => Moving(v, {}, {}))
           /\ Clients(v, {}, fl) /\ Same(w, v)
           /\ \A d \in FlowClients : v.qp[d].live
           /\ v.finished = FlowNum => \A d \in FlowClients : v.qp[d].msgs = <<>>
<1>1. c \in Client /\ c \notin Operators /\ FlowClients \subseteq Client
  BY ClientAssumption DEF FlowClients
<1>2. Moving(v, {}, {At[c]}) /\ (v.qp[c].msgs = <<>> => Moving(v, {}, {})) /\ Same(w, v)
  BY <1>1, AdvancedMoves
<1>3. \A d \in Operators : AtWork(v, d)
  BY <1>1, OthersAtWork
<1>4. /\ Count(v, fl) /\ \A d \in FlowClients : v.qp[d].live
      /\ v.finished = FlowNum => \A d \in FlowClients : v.qp[d].msgs = <<>>
  <2>1. w \in Worlds /\ Count(w, fl)
    BY DEF AtItsEnd, Clients, Open
  <2>2. v \in Worlds /\ Len(w.qp[c].msgs) = Len(v.qp[c].msgs) + 1
    BY DEF Advanced, Shorter
  <2>3. /\ \A d \in Client \ {c} : v.qp[d] = w.qp[d]
        /\ v.qp[c].live = w.qp[c].live
    BY DEF Advanced, OnlyMessages
  <2>4. /\ \A d \in FlowClients \ {c} : v.qp[d].msgs = w.qp[d].msgs
        /\ \A d \in FlowClients : v.qp[d].live = w.qp[d].live
    BY <1>1, <2>3
  <2> QED
    BY <2>1, <2>2, <2>4, CountDone
<1> QED
  BY <1>2, <1>3, <1>4 DEF Clients

\* In the multithreaded build the section is held while the message is taken off.
LEMMA PoppedAdvances ==
    ASSUME NEW w, NEW c \in Client, NEW fl, AtItsEnd(w, c, fl),
           NEW b \in Worlds, SameRest(w, b), b.qp = w.qp, b.link = w.link,
           NEW p, p = Popped(b, c)
    PROVE  /\ p \in Worlds /\ OnlyMessages(w, p, c) /\ SameEnd(b, p)
           /\ p.qp[c].msgs = Tail(w.qp[c].msgs)
           /\ p.qp[c].msgs = <<>> => Advanced(w, p, c)
<1>1. w \in Worlds /\ w.qp[c].msgs # <<>> /\ w.qp[c] \in Pair
      /\ \A i \in 1 .. Len(w.qp[c].msgs) : w.qp[c].msgs[i].size > 0 /\ (w.qp[c].msgs[i].set <=> i = 1)
  BY PairTypes DEF AtItsEnd, AllTaken, Open
<1>2. /\ p \in Worlds /\ OnlyMessages(b, p, c) /\ SameEnd(b, p)
      /\ p.qp[c].msgs = Tail(b.qp[c].msgs)
  <2>1. b.qp[c].msgs # <<>>
    BY <1>1
  <2> QED
    BY <2>1, PoppedFields
<1>3. p.qp[c].msgs = Tail(w.qp[c].msgs)
  BY <1>2
<1>4. OnlyMessages(w, p, c)
  BY <1>2 DEF OnlyMessages, SameRest
<1>5. ASSUME p.qp[c].msgs = <<>> PROVE Advanced(w, p, c)
  <2> DEFINE q == w.qp[c]
             r == p.qp[c]
  <2>1. r \in Pair
    BY <1>2, PairTypes
  <2>2. r.msgs = IF Tail(q.msgs) = <<>> THEN <<>> ELSE Placing(Tail(q.msgs), q.nxt)
    BY <1>3, <1>5
  <2>3. q \in Pair /\ q.msgs # <<>>
        /\ \A i \in 1 .. Len(q.msgs) : q.msgs[i].size > 0 /\ (q.msgs[i].set <=> i = 1)
    BY <1>1
  <2> HIDE DEF q, r
  <2>4. Shorter(q, r)
    BY <2>1, <2>2, <2>3, Shortened
  <2> QED
    BY <1>2, <1>4, <2>4 DEF Advanced, q, r
<1> QED
  BY <1>2, <1>3, <1>4, <1>5

\* ... when the next message is set up
LEMMA SetUpAdvances ==
    ASSUME NEW w, NEW c \in Client, NEW fl, AtItsEnd(w, c, fl),
           NEW p \in Worlds, OnlyMessages(w, p, c), p.qp[c].msgs = Tail(w.qp[c].msgs),
           NEW v, v = SetUp(p, c)
    PROVE  /\ Advanced(w, v, c) /\ SameEnd(p, v)
           /\ v.qp[c].msgs = <<>> <=> p.qp[c].msgs = <<>>
<1> DEFINE q == w.qp[c]
           r == p.qp[c]
           s == v.qp[c]
<1>1. w \in Worlds /\ q.msgs # <<>> /\ q \in Pair
      /\ \A i \in 1 .. Len(q.msgs) : q.msgs[i].size > 0 /\ (q.msgs[i].set <=> i = 1)
  BY PairTypes DEF AtItsEnd, AllTaken, Open
<1>2. r.nxt = q.nxt /\ r.msgs = Tail(q.msgs)
  BY DEF OnlyMessages
<1>3. r.msgs # <<>> => ~r.msgs[1].set
  <2> DEFINE m == q.msgs
             t == Tail(m)
  <2>1. m \in Seq(Message) /\ m # <<>> /\ \A i \in 1 .. Len(m) : m[i].set <=> i = 1
    BY <1>1 DEF Pair
  <2> HIDE DEF m
  <2>2. t # <<>> => 2 \in 1 .. Len(m) /\ t[1] = m[2]
    BY <2>1
  <2>3. t # <<>> => ~t[1].set
    BY <2>1, <2>2
  <2> QED
    BY <1>2, <2>3 DEF m
<1>4. /\ v \in Worlds /\ OnlyMessages(p, v, c) /\ SameEnd(p, v)
      /\ s.msgs = IF r.msgs = <<>> THEN <<>> ELSE Placing(r.msgs, r.nxt)
  BY <1>3, SetUpFields
<1>5. s \in Pair
  BY <1>4, PairTypes
<1> HIDE DEF q, r, s
<1>6. s.msgs = IF Tail(q.msgs) = <<>> THEN <<>> ELSE Placing(Tail(q.msgs), q.nxt)
  BY <1>2, <1>4
<1>7. Shorter(q, s)
  BY <1>1, <1>5, <1>6, Shortened
<1>8. OnlyMessages(w, v, c)
  BY <1>4 DEF OnlyMessages, SameRest
<1>9. s.msgs = <<>> <=> r.msgs = <<>>
  <2>1. ASSUME r.msgs # <<>> PROVE s.msgs # <<>>
    <3> DEFINE t == Tail(q.msgs)
               n == Len(t)
               m == s.msgs
               k == q.msgs
    <3>1. t \in Seq(Message) /\ t # <<>> /\ n > 0 /\ n \in Nat /\ Len(k) = n + 1
      <4>1. k \in Seq(Message) /\ k # <<>> /\ Tail(k) # <<>>
        BY <1>1, <1>2, <2>1 DEF Pair
      <4> HIDE DEF k
      <4>2. Tail(k) \in Seq(Message) /\ Len(Tail(k)) > 0 /\ Len(Tail(k)) \in Nat /\ Len(k) = Len(Tail(k)) + 1
        BY <4>1
      <4> QED
        BY <4>1, <4>2 DEF k
    <3>2. Len(k) = Len(m) + 1 /\ m \in Seq(Message)
      BY <1>5, <1>7 DEF Shorter, Pair
    <3> HIDE DEF t, n, m, k
    <3>3. m # <<>>
      BY <3>1, <3>2
    <3> QED
      BY <3>3 DEF m
  <2> QED
    BY <1>4, <2>1
<1> QED
  BY <1>4, <1>7, <1>8, <1>9 DEF Advanced, q, r, s

\* A world with one more flow finished
Counted(w) == [w EXCEPT !.finished = @ + 1]

\* The counter of finished flows is all that changes.
LEMMA FinishedFields ==
    ASSUME NEW w \in Worlds, NEW v, v = Counted(w)
    PROVE  /\ v \in Worlds /\ v.finished = w.finished + 1
           /\ v.qp = w.qp /\ v.nic = w.nic /\ v.rx = w.rx /\ v.link = w.link
           /\ v.held = w.held /\ v.end = w.end
           /\ v.mtp = w.mtp /\ v.program = w.program /\ v.op = w.op
           /\ v.announced = w.announced /\ v.forgotten = w.forgotten
<1>1. w.finished \in Nat /\ w.finished + 1 \in Nat
  BY DEF Worlds
<1> QED
  BY <1>1 DEF Worlds, Counted

\* Only the critical section, or the end, is not the same.
Alike(w, v) ==
    /\ v.finished = w.finished
    /\ v.qp = w.qp /\ v.nic = w.nic /\ v.rx = w.rx /\ v.link = w.link
    /\ v.mtp = w.mtp /\ v.program = w.program /\ v.op = w.op
    /\ v.announced = w.announced /\ v.forgotten = w.forgotten

\* The section taken or left
LEMMA HeldFields ==
    ASSUME NEW w \in Worlds, NEW held \in BOOLEAN, NEW v, v = [w EXCEPT !.held = held]
    PROVE  v \in Worlds /\ v.held = held /\ v.end = w.end /\ Alike(w, v)
BY DEF Worlds, Alike

\* A world that ended
LEMMA EndFields ==
    ASSUME NEW w \in Worlds, NEW how \in Ends, NEW v, v = [w EXCEPT !.end = how]
    PROVE  v \in Worlds /\ v.end = how /\ v.held = w.held /\ Alike(w, v)
BY DEF Worlds, Alike

\* The trace and the client, for a flow
LEMMA FlowComplete ==
    ASSUME NEW w, NEW c \in FlowClients, NEW fl \in [Client -> Nat], AtItsEnd(w, c, fl),
           NEW x, Open(x), x.finished = w.finished,
           NEW m, m = Counted(x), Advanced(w, m, c), m.qp[c].msgs = <<>>,
           NEW v, v = MessageComplete(x, c)
    PROVE  Good(v, {}, {}, {}, fl) /\ Same(w, v) /\ v.qp[c].msgs = <<>>
<1>1. /\ m \in Worlds /\ m.finished = x.finished + 1 /\ m.end = x.end /\ m.held = x.held
  BY FinishedFields DEF Open
<1>2. Open(m)
  BY <1>1 DEF Open
<1>2a. m.qp[c].msgs = <<>>
  OBVIOUS
<1>3. c \notin Operators /\ c \in Client /\ FlowClients \subseteq Client
  BY DEF FlowClients
<1>4. /\ Moving(m, {}, {}) /\ Clients(m, {}, fl) /\ Same(w, m)
      /\ \A d \in FlowClients : m.qp[d].live
      /\ m.finished = FlowNum => \A d \in FlowClients : m.qp[d].msgs = <<>>
  <2>1. m.finished = w.finished + 1
    BY <1>1
  <2>2. /\ Moving(m, {}, {At[c]}) /\ (m.qp[c].msgs = <<>> => Moving(m, {}, {}))
        /\ Clients(m, {}, fl) /\ Same(w, m)
        /\ \A d \in FlowClients : m.qp[d].live
        /\ m.finished = FlowNum => \A d \in FlowClients : m.qp[d].msgs = <<>>
    BY <2>1, FlowDone
  <2> QED
    BY <1>2a, <2>2, Zenon
<1>5. v = IF m.finished = FlowNum THEN FinishFlows(m) ELSE m
  <2> DEFINE t == IF m.finished = FlowNum THEN FinishFlows(m) ELSE m
  <2>1. v = Then(t, HandleTxComplete(t, c))
    BY Zenon DEF MessageComplete, Counted
  <2>2. HandleTxComplete(t, c) = t
    BY <1>3, Zenon DEF HandleTxComplete
  <2> HIDE DEF t
  <2>3. Then(t, t) = t
    BY DEF Then
  <2> QED
    BY <2>1, <2>2, <2>3 DEF t
<1>6. CASE m.finished # FlowNum
  BY <1>2, <1>4, <1>5, <1>6 DEF Good
<1>7. CASE m.finished = FlowNum
  <2>1. v = FinishFlows(m)
    BY <1>5, <1>7
  <2>2. \A d \in FlowClients : m.qp[d].live /\ m.qp[d].msgs = <<>>
    BY <1>4, <1>7
  <2>3. Ended(m, v, FlowClients, {}, {})
    BY <1>2, <1>4, <2>1, <2>2, FinishFlowsMoves
  <2>4. /\ Open(v) /\ Moving(v, {}, {})
        /\ \A d \in Client \ FlowClients : v.qp[d] = m.qp[d] /\ v.rx[d] = m.rx[d]
        /\ \A d \in FlowClients : v.qp[d].msgs = <<>>
        /\ v.mtp = m.mtp /\ v.program = m.program /\ v.op = m.op
        /\ v.finished = m.finished /\ v.announced = m.announced /\ v.forgotten = m.forgotten
    BY <2>3 DEF Ended
  <2>5. ASSUME NEW d \in Operators PROVE AtWork(v, d)
    <3>1. AtWork(m, d)
      BY <1>4 DEF Clients
    <3>2. d \in Client \ FlowClients
      BY <1>1, ProgramTypes
    <3> QED
      BY <2>4, <3>1, <3>2, ClientSame
  <2>6. Count(v, fl)
    <3>1. Count(m, fl)
      BY <1>4 DEF Clients
    <3>2. Remaining(v, fl) = Remaining(m, fl)
      BY <2>2, <2>4 DEF Remaining
    <3>3. FlowNum \in Nat /\ ~(v.finished < FlowNum)
      BY <1>1, <1>7, <2>4, Remains
    <3> QED
      BY <2>4, <3>1, <3>2, <3>3 DEF Count
  <2>7. Clients(v, {}, fl) /\ Same(w, v)
    BY <1>4, <2>4, <2>5, <2>6 DEF Clients, Same
  <2> QED
    BY <2>4, <2>7 DEF Good
<1> QED
  BY <1>6, <1>7

\* A PassiveDestroy client of the multithreaded build finished its queue pair inside the
\* critical section.
Stuck(v, fl) ==
    /\ v.end = "nested lock" /\ v.mtp /\ Passive # {}
    /\ Moving(v, {}, {}) /\ Clients(v, {}, fl)

Comes(w, v, fl) == Same(w, v) /\ (Good(v, {}, {}, {}, fl) \/ Stuck(v, fl))

\* The transmitter of c is started when there is more to send.
LEMMA MoreSent ==
    ASSUME NEW x, NEW c \in Client, NEW fl, Good(x, {}, {}, {At[c]}, fl),
           NEW v, v = TriggerIfMore(x, c, TRUE)
    PROVE  Good(v, {}, {}, {}, fl) /\ Same(x, v)
<1>1. Open(x) /\ At[c] \in Host
  BY ClientAssumption DEF Good
<1>2. v = TriggerTransmit(x, At[c])
  BY <1>1, SectionRuns DEF TriggerIfMore
<1>3. {} \in SUBSET Operators
  OBVIOUS
<1>4. Good(v, {}, {}, {At[c]} \ {At[c]}, fl) /\ Same(x, v)
  BY <1>1, <1>2, <1>3, TriggerGood
<1>5. {At[c]} \ {At[c]} = {}
  OBVIOUS
<1> QED
  BY <1>4, <1>5

\* QpCompleteMessage of the multithreaded build
LEMMA CompleteMtp ==
    ASSUME NEW w, NEW c \in Client, NEW fl \in [Client -> Nat], AtItsEnd(w, c, fl), w.mtp,
           NEW v, v = QpCompleteMessageMtp(w, c)
    PROVE  Comes(w, v, fl)
<1> DEFINE b == [w EXCEPT !.held = TRUE]
           p == Popped(b, c)
           popped == FinishMessage(b, c)
           s == SetUp(popped, c)
           x == [s EXCEPT !.held = FALSE]
           more == x.qp[c].msgs # <<>>
           told == MessageComplete(x, c)
<1>1. Open(w) /\ w \in Worlds /\ w.end = "running"
  BY DEF AtItsEnd, Open
<1>2. v = Then(popped, TriggerIfMore(told, c, more))
  <2>1. v = Section(w, Then(popped, TriggerIfMore(told, c, more)))
    BY Zenon DEF QpCompleteMessageMtp
  <2> HIDE DEF popped, told, more
  <2> QED
    BY <1>1, <2>1, SectionRuns
<1>3. popped = Finish(p, c)
  BY Zenon DEF FinishMessage, Popped
<1>4. /\ b \in Worlds /\ b.held = TRUE /\ b.end = w.end /\ b.finished = w.finished
      /\ b.qp = w.qp /\ b.link = w.link /\ SameRest(w, b)
  <2> DEFINE held == TRUE
  <2>1. held \in BOOLEAN /\ b = [w EXCEPT !.held = held]
    OBVIOUS
  <2> HIDE DEF b
  <2>2. b \in Worlds /\ b.held = held /\ b.end = w.end /\ Alike(w, b)
    BY <1>1, <2>1, HeldFields
  <2> QED
    BY <2>2 DEF Alike, SameRest
<1> HIDE DEF b
<1>5. /\ p \in Worlds /\ OnlyMessages(w, p, c) /\ SameEnd(b, p)
      /\ p.qp[c].msgs = Tail(w.qp[c].msgs)
      /\ p.qp[c].msgs = <<>> => Advanced(w, p, c)
  BY <1>4, PoppedAdvances
<1> HIDE DEF p
<1>6. p.held = TRUE /\ p.end = "running" /\ p.finished = w.finished /\ p.mtp
  BY <1>1, <1>4, <1>5 DEF SameEnd, OnlyMessages, SameRest
<1>7. CASE c \in Passive /\ p.qp[c].msgs = <<>>
  <2> DEFINE e == "nested lock"
  <2>1. popped = [p EXCEPT !.end = e]
    <3>1. popped = FinishQp(p, c)
      BY <1>3, <1>7, Zenon DEF Finish
    <3> QED
      BY <1>6, <3>1 DEF FinishQp, Section, Then
  <2>2. e \in Ends
    BY DEF Ends
  <2> HIDE DEF popped
  <2>3. /\ popped \in Worlds /\ popped.end = e /\ popped.held = p.held /\ popped.finished = p.finished
        /\ popped.qp = p.qp /\ popped.nic = p.nic /\ popped.rx = p.rx /\ popped.link = p.link
        /\ popped.mtp = p.mtp /\ popped.program = p.program /\ popped.op = p.op
        /\ popped.announced = p.announced /\ popped.forgotten = p.forgotten
    <3> HIDE DEF e
    <3>1. popped \in Worlds /\ popped.end = e /\ popped.held = p.held /\ Alike(p, popped)
      BY <1>5, <2>1, <2>2, EndFields
    <3> QED
      BY <3>1 DEF Alike
  <2>4. v = popped
    BY <1>2, <2>3 DEF Then
  <2>5. Advanced(w, popped, c)
    BY <1>5, <1>7, <2>3 DEF Advanced, OnlyMessages, SameRest
  <2>6. /\ Moving(popped, {}, {At[c]}) /\ (popped.qp[c].msgs = <<>> => Moving(popped, {}, {}))
        /\ Clients(popped, {}, fl) /\ Same(w, popped)
    BY <1>6, <1>7, <2>3, <2>5, PassiveDone
  <2>7. Passive # {}
    BY <1>7
  <2> QED
    BY <1>6, <1>7, <2>3, <2>4, <2>6, <2>7 DEF Comes, Stuck
<1>8. CASE ~(c \in Passive /\ p.qp[c].msgs = <<>>)
  <2>1. popped = p
    BY <1>3, <1>8, Zenon DEF Finish
  <2>2. s = SetUp(p, c)
    BY <2>1, Zenon
  <2>3. v = TriggerIfMore(told, c, more)
    <3> HIDE DEF popped, told, more
    <3> QED
      BY <1>2, <1>6, <2>1 DEF Then
  <2> HIDE DEF popped, s
  <2>4. /\ Advanced(w, s, c) /\ SameEnd(p, s) /\ s \in Worlds
        /\ s.qp[c].msgs = <<>> <=> p.qp[c].msgs = <<>>
    <3>1. /\ Advanced(w, s, c) /\ SameEnd(p, s)
          /\ s.qp[c].msgs = <<>> <=> p.qp[c].msgs = <<>>
      BY <1>5, <2>2, SetUpAdvances
    <3> QED
      BY <3>1 DEF Advanced
  <2>5. /\ x \in Worlds /\ x.held = FALSE /\ x.end = s.end /\ x.finished = s.finished
        /\ x.qp = s.qp /\ x.nic = s.nic /\ x.rx = s.rx /\ x.link = s.link
        /\ x.mtp = s.mtp /\ x.program = s.program /\ x.op = s.op
        /\ x.announced = s.announced /\ x.forgotten = s.forgotten
    <3> DEFINE held == FALSE
    <3>1. held \in BOOLEAN /\ x = [s EXCEPT !.held = held]
      OBVIOUS
    <3> HIDE DEF x
    <3>2. x \in Worlds /\ x.held = held /\ x.end = s.end /\ Alike(s, x)
      BY <2>4, <3>1, HeldFields
    <3> QED
      BY <3>2 DEF Alike
  <2> HIDE DEF x
  <2>6. Advanced(w, x, c)
    BY <2>4, <2>5 DEF Advanced, OnlyMessages, SameRest
  <2>7. Open(x) /\ x.finished = w.finished
    BY <1>6, <2>4, <2>5 DEF SameEnd, Open
  <2>8. CASE c \in Operators
    <3>1. x.qp[c].msgs = <<>> /\ Sending(x, c) /\ Good(x, {}, {c}, {}, fl) /\ Same(w, x)
      BY <2>6, <2>7, <2>8, OperatorDone
    <3>2. told = NextStep(x, c)
      <4>1. c \notin FlowClients
        BY <2>8 DEF FlowClients
      <4>2. told = Then(x, HandleTxComplete(x, c))
        BY <4>1, Zenon DEF MessageComplete
      <4>3. HandleTxComplete(x, c) = NextStep(x, c)
        BY <2>8, <3>1, Zenon DEF HandleTxComplete
      <4> HIDE DEF told
      <4> QED
        BY <2>7, <4>2, <4>3, SectionRuns
    <3> HIDE DEF told
    <3>3. v = told
      BY <2>3, <3>1, Zenon DEF TriggerIfMore
    <3>4. Good(told, {}, {}, {}, fl) /\ Same(x, told)
      BY <2>8, <3>1, <3>2, NextStepGood
    <3> QED
      BY <3>1, <3>3, <3>4 DEF Comes, Same
  <2>9. CASE c \in Passive
    <3>1. Moving(x, {}, {At[c]}) /\ Clients(x, {}, fl) /\ Same(w, x)
      BY <2>6, <2>7, <2>9, PassiveDone
    <3>2. x.qp[c].msgs # <<>>
      BY <1>8, <2>4, <2>5, <2>9
    <3>3. told = x
      <4>1. c \notin FlowClients /\ c \notin Operators
        BY <2>9, ClientAssumption DEF FlowClients
      <4>2. told = Then(x, HandleTxComplete(x, c))
        BY <4>1, Zenon DEF MessageComplete
      <4>3. HandleTxComplete(x, c) = x
        BY <4>1, Zenon DEF HandleTxComplete
      <4> HIDE DEF told
      <4> QED
        BY <4>2, <4>3 DEF Then
    <3> HIDE DEF told
    <3>4. v = TriggerIfMore(x, c, TRUE)
      BY <2>3, <3>2, <3>3
    <3>5. Good(x, {}, {}, {At[c]}, fl)
      BY <2>7, <3>1 DEF Good
    <3>6. Good(v, {}, {}, {}, fl) /\ Same(x, v)
      BY <3>4, <3>5, MoreSent
    <3> QED
      BY <3>1, <3>6 DEF Comes, Same
  <2>10. CASE c \in FlowClients
    <3> DEFINE m == Counted(x)
    <3>1. /\ m \in Worlds /\ m.finished = x.finished + 1
          /\ m.qp = x.qp /\ m.nic = x.nic /\ m.rx = x.rx /\ m.link = x.link
          /\ m.held = x.held /\ m.end = x.end
          /\ m.mtp = x.mtp /\ m.program = x.program /\ m.op = x.op
          /\ m.announced = x.announced /\ m.forgotten = x.forgotten
      BY <2>5, FinishedFields
    <3> HIDE DEF m
    <3>2. Advanced(w, m, c)
      BY <2>6, <3>1 DEF Advanced, OnlyMessages, SameRest
    <3>3. CASE x.qp[c].msgs = <<>>
      <4>1. v = told
        <5> HIDE DEF told
        <5> QED
          BY <2>3, <3>3, Zenon DEF TriggerIfMore
      <4>2. m.qp[c].msgs = <<>> /\ m = Counted(x)
        BY <3>1, <3>3 DEF m
      <4>3. Good(told, {}, {}, {}, fl) /\ Same(w, told)
        BY <2>7, <2>10, <3>2, <4>2, FlowComplete
      <4> QED
        BY <4>1, <4>3 DEF Comes
    <3>4. CASE x.qp[c].msgs # <<>>
      <4>1. /\ Moving(m, {}, {At[c]}) /\ Clients(m, {}, fl) /\ Same(w, m)
            /\ m.finished = FlowNum => \A d \in FlowClients : m.qp[d].msgs = <<>>
        <5>1. m.finished = w.finished + 1
          BY <2>7, <3>1
        <5> QED
          BY <2>10, <3>2, <5>1, FlowDone
      <4>2. m.finished # FlowNum
        BY <2>10, <3>1, <3>4, <4>1
      <4>3. told = m
        <5>1. c \notin Operators
          BY <2>10 DEF FlowClients
        <5>2. told = Then(m, HandleTxComplete(m, c))
          BY <2>10, <4>2, Zenon DEF MessageComplete, Counted, m
        <5>3. HandleTxComplete(m, c) = m
          BY <5>1, Zenon DEF HandleTxComplete
        <5> HIDE DEF told
        <5> QED
          BY <5>2, <5>3 DEF Then
      <4> HIDE DEF told
      <4>4. v = TriggerIfMore(m, c, TRUE)
        BY <2>3, <3>4, <4>3
      <4>5. Good(m, {}, {}, {At[c]}, fl)
        BY <2>7, <3>1, <4>1 DEF Good, Open
      <4>6. Good(v, {}, {}, {}, fl) /\ Same(m, v)
        BY <4>4, <4>5, MoreSent
      <4> QED
        BY <4>1, <4>6 DEF Comes, Same
    <3> QED
      BY <3>3, <3>4
  <2> QED
    BY <2>8, <2>9, <2>10 DEF FlowClients
<1> QED
  BY <1>7, <1>8

\* QpCompleteMessage of the single-threaded build
LEMMA CompleteSingle ==
    ASSUME NEW w, NEW c \in Client, NEW fl \in [Client -> Nat], AtItsEnd(w, c, fl), ~w.mtp,
           NEW v, v = QpCompleteMessageSingle(w, c)
    PROVE  Comes(w, v, fl)
<1> DEFINE p == Popped(w, c)
           popped == FinishMessage(w, c)
           told == Then(popped, MessageComplete(popped, c))
           s == SetUp(told, c)
           more == told.qp[c].msgs # <<>>
<1>1. Open(w) /\ w \in Worlds /\ w.end = "running" /\ ~w.held /\ At[c] \in Host
  BY ClientAssumption DEF AtItsEnd, Open
<1>2. v = Then(told, TriggerIfMore(s, c, more))
  BY Zenon DEF QpCompleteMessageSingle
<1>3. popped = Finish(p, c)
  BY Zenon DEF FinishMessage, Popped
<1>4. SameRest(w, w) /\ w.qp = w.qp /\ w.link = w.link
  BY DEF SameRest
<1>5. /\ p \in Worlds /\ OnlyMessages(w, p, c) /\ SameEnd(w, p)
      /\ p.qp[c].msgs = Tail(w.qp[c].msgs)
      /\ p.qp[c].msgs = <<>> => Advanced(w, p, c)
  BY <1>1, <1>4, PoppedAdvances
<1> HIDE DEF p
<1>6. Open(p) /\ p.finished = w.finished /\ ~p.mtp
  BY <1>1, <1>5 DEF SameEnd, OnlyMessages, SameRest, Open
\* No message is left, and the rest of the handler does nothing.
<1>7. ASSUME told.qp[c].msgs = <<>>, Open(told) PROVE v = told
  <2>1. s = told
    BY <1>7, Zenon DEF SetUp
  <2>2. TriggerIfMore(s, c, more) = s
    BY <1>7, Zenon DEF TriggerIfMore
  <2> HIDE DEF told, s, more
  <2> QED
    BY <1>2, <1>7, <2>1, <2>2, SectionRuns
<1>8. CASE c \in Passive /\ p.qp[c].msgs = <<>>
  <2>1. popped = FinishQp(p, c)
    BY <1>3, <1>8, Zenon DEF Finish
  <2>2. c \notin FlowClients /\ c \notin Operators /\ FlowClients \subseteq Client
    BY <1>8, ClientAssumption DEF FlowClients
  <2>3. Moving(p, {}, {}) /\ Clients(p, {}, fl) /\ Same(w, p)
    <3>1. Advanced(w, p, c)
      BY <1>5, <1>8
    <3> QED
      BY <1>6, <1>8, <3>1, PassiveDone
  <2>4. p.qp[c].live
    BY <1>5 DEF AtItsEnd, AllTaken, OnlyMessages
  <2> HIDE DEF popped
  <2>5. /\ Open(popped) /\ Moving(popped, {}, {})
        /\ \A d \in Client \ {c} : popped.qp[d] = p.qp[d] /\ popped.rx[d] = p.rx[d]
        /\ ~popped.qp[c].live /\ popped.qp[c].msgs = <<>>
        /\ popped.mtp = p.mtp /\ popped.program = p.program /\ popped.op = p.op
        /\ popped.finished = p.finished /\ popped.announced = p.announced
        /\ popped.forgotten = p.forgotten
    BY <1>6, <1>8, <2>1, <2>3, <2>4, FinishQpMoves
  <2>6. told = popped
    <3>1. MessageComplete(popped, c) = Then(popped, HandleTxComplete(popped, c))
      BY <2>2, Zenon DEF MessageComplete
    <3>2. HandleTxComplete(popped, c) = popped
      BY <2>2, Zenon DEF HandleTxComplete
    <3> QED
      BY <3>1, <3>2 DEF Then
  <2>7. v = popped
    <3> HIDE DEF told
    <3> QED
      BY <1>7, <2>5, <2>6
  <2>8. ASSUME NEW d \in Operators PROVE AtWork(popped, d)
    <3>1. AtWork(p, d) /\ d \in Client \ {c}
      BY <1>5, <2>2, <2>3, ProgramTypes DEF Clients
    <3> QED
      BY <2>5, <3>1, ClientSame
  <2>9. Count(popped, fl)
    <3>1. \A d \in FlowClients : popped.qp[d].msgs = p.qp[d].msgs /\ popped.qp[d].live = p.qp[d].live
      BY <2>2, <2>5
    <3> QED
      BY <2>3, <2>5, <3>1, CountSame DEF Clients
  <2> QED
    BY <2>3, <2>5, <2>7, <2>8, <2>9 DEF Comes, Good, Clients, Same
<1>9. CASE ~(c \in Passive /\ p.qp[c].msgs = <<>>)
  <2>1. popped = p
    BY <1>3, <1>9, Zenon DEF Finish
  <2>2. told = MessageComplete(p, c)
    <3>1. told = Then(p, MessageComplete(p, c))
      BY <2>1, Zenon
    <3> QED
      BY <1>6, <3>1, SectionRuns
  <2>3. s = SetUp(told, c) /\ (more <=> told.qp[c].msgs # <<>>)
    BY Zenon
  <2> HIDE DEF popped, told, s, more
  <2>4. CASE c \in Operators
    <3>1. Advanced(w, p, c)
      <4> DEFINE y == SetUp(p, c)
      <4>1. /\ Advanced(w, y, c) /\ SameEnd(p, y)
            /\ y.qp[c].msgs = <<>> <=> p.qp[c].msgs = <<>>
        BY <1>5, SetUpAdvances
      <4> HIDE DEF y
      <4>2. Open(y) /\ y.finished = w.finished
        BY <1>6, <4>1 DEF Advanced, SameEnd, Open
      <4>3. y.qp[c].msgs = <<>>
        BY <2>4, <4>1, <4>2, OperatorDone
      <4> QED
        BY <1>5, <4>1, <4>3
    <3>2. p.qp[c].msgs = <<>> /\ Sending(p, c) /\ Good(p, {}, {c}, {}, fl) /\ Same(w, p)
      BY <1>6, <2>4, <3>1, OperatorDone
    <3>3. told = NextStep(p, c)
      <4>1. c \notin FlowClients
        BY <2>4 DEF FlowClients
      <4>2. told = Then(p, HandleTxComplete(p, c))
        BY <2>2, <4>1, Zenon DEF MessageComplete
      <4>3. HandleTxComplete(p, c) = NextStep(p, c)
        BY <2>4, <3>2, Zenon DEF HandleTxComplete
      <4> QED
        BY <1>6, <4>2, <4>3, SectionRuns
    <3>4. Good(told, {}, {}, {}, fl) /\ Same(p, told)
      BY <2>4, <3>2, <3>3, NextStepGood
    <3>5. s = told
      <4>1. CASE told.qp[c].msgs = <<>>
        BY <2>3, <4>1, Zenon DEF SetUp
      <4>2. CASE told.qp[c].msgs # <<>>
        <5>1. told \in Worlds /\ Pipe(told, c, Owed(c, {}))
          BY <3>4 DEF Good, Moving, Net
        <5> DEFINE m == told.qp[c].msgs
        <5>2. m \in Seq(Message) /\ m # <<>>
          BY <4>2, <5>1, PairTypes
        <5>3. \A i \in 1 .. Len(m) : m[i].set <=> i = 1
          BY <5>1 DEF Pipe, Placed
        <5> HIDE DEF m
        <5>4. Head(m) = m[1] /\ 1 \in 1 .. Len(m)
          BY <5>2
        <5>5. Head(m).set
          BY <5>3, <5>4
        <5> QED
          BY <2>3, <5>5, Zenon DEF SetUp, m
      <4> QED
        BY <4>1, <4>2
    <3>6. Open(told)
      BY <3>4 DEF Good
    <3>7. CASE ~more
      <4>1. v = told
        BY <1>2, <3>5, <3>6, <3>7, SectionRuns DEF TriggerIfMore
      <4> QED
        BY <3>2, <3>4, <4>1 DEF Comes, Same
    <3>8. CASE more
      <4>1. v = TriggerIfMore(told, c, TRUE)
        <5>1. v = TriggerIfMore(s, c, more)
          BY <1>2, <3>6, SectionRuns
        <5>2. more = TRUE
          BY <2>3, <3>8
        <5> QED
          BY <3>5, <5>1, <5>2, Zenon
      <4>2. Good(told, {}, {}, {At[c]}, fl)
        <5>1. Moving(told, {}, {At[c]})
          BY <3>4, WokenMore DEF Good
        <5> QED
          BY <3>4, <5>1 DEF Good
      <4>3. Good(v, {}, {}, {}, fl) /\ Same(told, v)
        BY <4>1, <4>2, MoreSent
      <4> QED
        BY <3>2, <3>4, <4>3 DEF Comes, Same
    <3> QED
      BY <3>7, <3>8
  <2>5. CASE c \in Passive
    <3>1. p.qp[c].msgs # <<>>
      BY <1>9, <2>5
    <3>2. told = p
      <4>1. c \notin FlowClients /\ c \notin Operators
        BY <2>5, ClientAssumption DEF FlowClients
      <4>2. told = Then(p, HandleTxComplete(p, c))
        BY <2>2, <4>1, Zenon DEF MessageComplete
      <4>3. HandleTxComplete(p, c) = p
        BY <4>1, Zenon DEF HandleTxComplete
      <4> QED
        BY <4>2, <4>3 DEF Then
    <3>3. Advanced(w, s, c) /\ SameEnd(p, s)
      BY <1>5, <2>3, <3>2, SetUpAdvances
    <3>4. Open(s) /\ s.finished = w.finished
      BY <1>6, <3>3 DEF Advanced, SameEnd, Open
    <3>5. Moving(s, {}, {At[c]}) /\ Clients(s, {}, fl) /\ Same(w, s)
      BY <2>5, <3>3, <3>4, PassiveDone
    <3>6. v = TriggerIfMore(s, c, TRUE)
      <4>1. v = TriggerIfMore(s, c, more)
        BY <1>2, <1>6, <3>2, SectionRuns
      <4>2. more = TRUE
        BY <2>3, <3>1, <3>2
      <4> QED
        BY <4>1, <4>2, Zenon
    <3>7. Good(s, {}, {}, {At[c]}, fl)
      BY <3>4, <3>5 DEF Good
    <3>8. Good(v, {}, {}, {}, fl) /\ Same(s, v)
      BY <3>6, <3>7, MoreSent
    <3> QED
      BY <3>5, <3>8 DEF Comes, Same
  <2>6. CASE c \in FlowClients
    <3> DEFINE m == Counted(p)
    <3>1. /\ m \in Worlds /\ m.finished = p.finished + 1
          /\ m.qp = p.qp /\ m.nic = p.nic /\ m.rx = p.rx /\ m.link = p.link
          /\ m.held = p.held /\ m.end = p.end
          /\ m.mtp = p.mtp /\ m.program = p.program /\ m.op = p.op
          /\ m.announced = p.announced /\ m.forgotten = p.forgotten
      BY <1>5, FinishedFields
    <3> HIDE DEF m
    <3>2. /\ OnlyMessages(w, m, c) /\ m.qp[c].msgs = Tail(w.qp[c].msgs)
          /\ p.qp[c].msgs = <<>> => Advanced(w, m, c)
      BY <1>5, <3>1 DEF Advanced, OnlyMessages, SameRest
    <3>3. Open(m) /\ m.finished = w.finished + 1
      BY <1>6, <3>1 DEF Open
    <3>4. CASE p.qp[c].msgs = <<>>
      <4>1. Advanced(w, m, c) /\ m.qp[c].msgs = <<>> /\ m = Counted(p)
        BY <3>1, <3>2, <3>4 DEF m
      <4>2. Good(told, {}, {}, {}, fl) /\ Same(w, told) /\ told.qp[c].msgs = <<>>
        BY <1>6, <2>2, <2>6, <4>1, FlowComplete
      <4>3. v = told
        BY <1>7, <4>2 DEF Good, told
      <4> QED
        BY <4>2, <4>3 DEF Comes
    <3>5. CASE p.qp[c].msgs # <<>>
      <4> DEFINE x == SetUp(m, c)
      <4>1. /\ Advanced(w, x, c) /\ SameEnd(m, x)
            /\ x.qp[c].msgs = <<>> <=> m.qp[c].msgs = <<>>
        BY <3>1, <3>2, SetUpAdvances
      <4> HIDE DEF x
      <4>2. Open(x) /\ x.finished = w.finished + 1 /\ x.qp[c].msgs # <<>>
        BY <3>1, <3>3, <3>5, <4>1 DEF Advanced, SameEnd, Open
      <4>3. /\ Moving(x, {}, {At[c]}) /\ Clients(x, {}, fl) /\ Same(w, x)
            /\ x.finished = FlowNum => \A d \in FlowClients : x.qp[d].msgs = <<>>
        BY <2>6, <4>1, <4>2, FlowDone
      <4>4. m.finished # FlowNum
        BY <2>6, <3>3, <4>2, <4>3
      <4>5. told = m
        <5>1. c \notin Operators
          BY <2>6 DEF FlowClients
        <5>2. told = Then(m, HandleTxComplete(m, c))
          BY <2>2, <2>6, <4>4, Zenon DEF MessageComplete, Counted, m
        <5>3. HandleTxComplete(m, c) = m
          BY <5>1, Zenon DEF HandleTxComplete
        <5> QED
          BY <5>2, <5>3 DEF Then
      <4>6. v = TriggerIfMore(x, c, TRUE)
        <5>1. s = x
          BY <2>3, <4>5 DEF x
        <5>2. more = TRUE
          BY <2>3, <3>1, <3>5, <4>5
        <5>3. v = TriggerIfMore(s, c, more)
          BY <1>2, <3>3, <4>5, SectionRuns
        <5> QED
          BY <5>1, <5>2, <5>3, Zenon
      <4>7. Good(x, {}, {}, {At[c]}, fl)
        BY <4>2, <4>3 DEF Good
      <4>8. Good(v, {}, {}, {}, fl) /\ Same(x, v)
        BY <4>6, <4>7, MoreSent
      <4> QED
        BY <4>3, <4>8 DEF Comes, Same
    <3> QED
      BY <3>4, <3>5
  <2> QED
    BY <2>4, <2>5, <2>6 DEF FlowClients
<1> QED
  BY <1>8, <1>9

\* RdmaHw::ReceiveAck
LEMMA ReceiveAckGood ==
    ASSUME NEW w, NEW fl \in [Client -> Nat], Good(w, {}, {}, {}, fl),
           NEW h \in Host,
           NEW f, FirstOf(w, h, f), f.kind = "ack",
           NEW v, v = ReceiveAck(Unlinked(w, h), f)
    PROVE  Comes(w, v, fl)
<1> DEFINE c == f.of
           u == Unlinked(w, h)
           a == Acked(u, f)
           p == a.qp[c]
<1>1. /\ w \in Worlds /\ Open(w) /\ Net(w, {}) /\ Groups(w) /\ Woken(w, {}) /\ Clients(w, {}, fl)
      /\ w.end = "running" /\ ~w.held
  BY DEF Good, Moving, Open
<1>2. c \in Client /\ At[c] \in Host
  BY <1>1, FirstFrame, ClientAssumption
<1>3. u.qp = w.qp
  <2>1. Took(w, u, h)
    BY <1>1, FirstFrame, UnlinkedFields
  <2> QED
    BY <2>1 DEF Took
<1>4. /\ a \in Worlds /\ AckTaken(w, a, c)
      /\ p.una < EndOf(p) => Net(a, {})
      /\ p.una = EndOf(p) => AllTaken(a, c)
  BY <1>1, AckArrives
<1>5. v = IF ~u.qp[c].live THEN u
          ELSE IF IsCurMessageFinished(p) THEN QpCompleteMessage(a, c)
          ELSE TriggerTransmit(a, At[c])
  BY Zenon DEF ReceiveAck, Acked
<1> HIDE DEF u, a
<1>6. /\ SameRest(w, a) /\ a.held = w.held /\ a.end = w.end /\ a.finished = w.finished
      /\ \A d \in Client \ {c} : a.qp[d] = w.qp[d]
      /\ p.msgs = w.qp[c].msgs /\ p.nxt = w.qp[c].nxt /\ p.live = w.qp[c].live
      /\ p.live /\ p.msgs # <<>>
      /\ EndOf(p) \in Nat /\ p.una <= EndOf(p)
  BY <1>4 DEF AckTaken
<1>7. p \in Pair /\ p.una \in Nat /\ p.msgs \in Seq(Message)
  BY <1>2, <1>4, PairTypes
<1>8. IsCurMessageFinished(p) <=> p.una = EndOf(p)
  <2>1. Head(p.msgs) = p.msgs[1]
    <3> DEFINE m == p.msgs
    <3>1. m \in Seq(Message) /\ m # <<>>
      BY <1>6, <1>7
    <3> HIDE DEF m
    <3>2. Head(m) = m[1]
      BY <3>1
    <3> QED
      BY <3>2 DEF m
  <2>2. IsCurMessageFinished(p) <=> p.una >= EndOf(p)
    <3> HIDE DEF p
    <3> QED
      BY <1>6, <2>1, Zenon DEF IsCurMessageFinished, EndOf
  <2> HIDE DEF p
  <2> QED
    BY <1>6, <1>7, <2>2
<1>9. v = IF p.una = EndOf(p) THEN QpCompleteMessage(a, c) ELSE TriggerTransmit(a, At[c])
  BY <1>3, <1>5, <1>6, <1>8
<1>10. Groups(a)
  <2>1. \A d \in Client : a.qp[d].live = w.qp[d].live
    BY <1>6
  <2>2. \A g \in Host : a.nic[g].group = w.nic[g].group
    BY <1>6 DEF SameRest
  <2> QED
    BY <1>1, <2>1, <2>2, GroupsKept
<1>11. Woken(a, {})
  <2>1. GetBytesLeft(p) = GetBytesLeft(w.qp[c])
    <3> HIDE DEF p
    <3> QED
      BY <1>6, Zenon DEF GetBytesLeft
  <2> SUFFICES ASSUME NEW g \in Host, ~a.nic[g].busy PROVE Asleep(a, g)
    BY Zenon DEF Woken
  <2>2. a.nic = w.nic
    BY <1>6 DEF SameRest
  <2>3. Asleep(w, g)
    BY <1>1, <2>2 DEF Woken
  <2>4. ASSUME NEW i \in 1 .. Len(w.nic[g].group) PROVE GetBytesLeft(a.qp[w.nic[g].group[i]]) = 0
    <3>1. w.nic[g].group[i] \in Client
      BY <1>1, HostTypes
    <3>2. GetBytesLeft(w.qp[w.nic[g].group[i]]) = 0
      BY <2>3 DEF Asleep
    <3> QED
      BY <1>6, <2>1, <3>1, <3>2
  <2> QED
    BY <2>2, <2>3, <2>4, Zenon DEF Asleep
<1>12. Open(a)
  BY <1>1, <1>4, <1>6 DEF Open
<1>13. Clients(a, {}, fl)
  <2>1. /\ a.rx = w.rx /\ a.program = w.program /\ a.op = w.op
        /\ a.announced = w.announced /\ a.forgotten = w.forgotten
    BY <1>6 DEF SameRest
  <2>2. \A d \in Client : a.qp[d].msgs = w.qp[d].msgs /\ a.qp[d].live = w.qp[d].live
    BY <1>6
  <2>3. ASSUME NEW d \in Operators PROVE AtWork(a, d)
    <3>1. AtWork(w, d) /\ d \in Client
      BY <1>1, ProgramTypes DEF Clients
    <3> QED
      BY <2>1, <2>2, <3>1, ClientSame
  <2>4. Count(a, fl)
    <3>1. Count(w, fl) /\ a.finished = w.finished
      BY <1>1, <1>6 DEF Clients
    <3>2. \A d \in FlowClients : a.qp[d].msgs = w.qp[d].msgs /\ a.qp[d].live = w.qp[d].live
      BY <2>2 DEF FlowClients
    <3> QED
      BY <3>1, <3>2, CountSame
  <2> QED
    BY <2>3, <2>4 DEF Clients
<1>14. Same(w, a)
  BY <1>6 DEF SameRest, Same
<1>15. CASE p.una # EndOf(p)
  <2>1. Net(a, {})
    <3> HIDE DEF p
    <3> QED
      BY <1>4, <1>6, <1>7, <1>15
  <2>2. Good(a, {}, {}, {}, fl)
    BY <1>4, <1>10, <1>11, <1>12, <1>13, <2>1 DEF Good, Moving
  <2>3. v = TriggerTransmit(a, At[c])
    BY <1>9, <1>15
  <2>4. {} \in SUBSET Operators /\ {} \ {At[c]} = {}
    OBVIOUS
  <2>5. Good(v, {}, {}, {} \ {At[c]}, fl) /\ Same(a, v)
    <3> HIDE DEF p
    <3> QED
      BY <1>2, <2>2, <2>3, <2>4, TriggerGood
  <2> QED
    BY <1>14, <2>4, <2>5 DEF Comes, Same
<1>16. CASE p.una = EndOf(p)
  <2>1. AtItsEnd(a, c, fl)
    BY <1>4, <1>10, <1>11, <1>12, <1>13, <1>16 DEF AtItsEnd
  <2>2. v = IF a.mtp THEN QpCompleteMessageMtp(a, c) ELSE QpCompleteMessageSingle(a, c)
    <3>1. v = QpCompleteMessage(a, c)
      BY <1>9, <1>16
    <3>2. ~(a.qp[c].msgs = <<>>)
      BY <1>6
    <3> QED
      BY <3>1, <3>2, Zenon DEF QpCompleteMessage
  <2>3. Comes(a, v, fl)
    <3>1. CASE a.mtp
      BY <1>2, <2>1, <2>2, <3>1, CompleteMtp
    <3>2. CASE ~a.mtp
      BY <1>2, <2>1, <2>2, <3>2, CompleteSingle
    <3> QED
      BY <3>1, <3>2
  <2> QED
    BY <1>14, <2>3 DEF Comes, Same
<1> QED
  BY <1>15, <1>16

----------------------------------------------------------------------------
(***************************************************************************)
(* The events                                                              *)
(***************************************************************************)
Inv ==
    /\ flows \in [Client -> Nat] /\ \A c \in Operators : flows[c] = 0
    /\ Moving(World, {}, {}) /\ Clients(World, {}, flows)
    /\ end = "running" \/ (end = "nested lock" /\ mtp /\ Passive # {})

\* What a handler leaves is the state after the event.
LEMMA Becomes ==
    ASSUME NEW v \in Worlds, Become(v), v.mtp = mtp, v.program = program
    PROVE  World' \in Worlds /\ Alike(v, World') /\ World'.end = v.end
<1>1. /\ mtp' = v.mtp /\ program' = v.program /\ op' = v.op /\ qp' = v.qp /\ nic' = v.nic
      /\ rx' = v.rx /\ link' = v.link /\ finished' = v.finished /\ end' = v.end
      /\ announced' = v.announced /\ forgotten' = v.forgotten
  BY DEF Become
<1>2. World' = [mtp |-> v.mtp, program |-> v.program, op |-> v.op, qp |-> v.qp, nic |-> v.nic,
                rx |-> v.rx, link |-> v.link, finished |-> v.finished, held |-> FALSE,
                end |-> v.end, announced |-> v.announced, forgotten |-> v.forgotten]
  BY <1>1 DEF World
<1> DEFINE u == World'
<1>3. u = [mtp |-> v.mtp, program |-> v.program, op |-> v.op, qp |-> v.qp, nic |-> v.nic,
           rx |-> v.rx, link |-> v.link, finished |-> v.finished, held |-> FALSE,
           end |-> v.end, announced |-> v.announced, forgotten |-> v.forgotten]
  BY <1>2
<1> HIDE DEF u
<1>4. u \in Worlds
  BY <1>3 DEF Worlds
<1>5. Alike(v, u) /\ u.end = v.end
  BY <1>3 DEF Alike
<1> QED
  BY <1>4, <1>5 DEF u

\* The invariant does not depend on the end and the section.
LEMMA AlikeGood ==
    ASSUME NEW w, NEW v \in Worlds, NEW fl, Alike(w, v), Moving(w, {}, {}), Clients(w, {}, fl)
    PROVE  Moving(v, {}, {}) /\ Clients(v, {}, fl)
<1>1. /\ v.finished = w.finished
      /\ v.qp = w.qp /\ v.nic = w.nic /\ v.rx = w.rx /\ v.link = w.link
      /\ v.mtp = w.mtp /\ v.program = w.program /\ v.op = w.op
      /\ v.announced = w.announced /\ v.forgotten = w.forgotten
  BY DEF Alike
<1>2. Moving(v, {}, {})
  <2>1. Net(w, {}) /\ Groups(w) /\ Woken(w, {})
    BY DEF Moving
  <2>2. Net(v, {}) /\ Groups(v) /\ Woken(v, {})
    BY <1>1, <2>1, SameWorld, Zenon
  <2> QED
    BY <2>2 DEF Moving
<1>3. Clients(v, {}, fl)
  <2>1. ASSUME NEW d \in Operators PROVE AtWork(v, d)
    <3>1. AtWork(w, d)
      BY DEF Clients
    <3> QED
      BY <1>1, <3>1, ClientSame
  <2>2. Count(v, fl)
    <3>1. Count(w, fl)
      BY DEF Clients
    <3> QED
      BY <1>1, <3>1, CountSame
  <2> QED
    BY <2>1, <2>2 DEF Clients
<1> QED
  BY <1>2, <1>3

\* A handler that comes back, or enters the section inside itself, leaves the invariant.
LEMMA ComesBack ==
    ASSUME NEW v, Comes(World, v, flows'), Become(v),
           flows' \in [Client -> Nat], \A c \in Operators : flows'[c] = 0
    PROVE  Inv'
<1>1. v.mtp = mtp /\ v.program = program
  BY DEF Comes, Same, World
<1>2. /\ Moving(v, {}, {}) /\ Clients(v, {}, flows') /\ v \in Worlds
      /\ v.end = "running" \/ (v.end = "nested lock" /\ v.mtp /\ Passive # {})
  BY DEF Comes, Good, Stuck, Open, Moving
<1>3. World' \in Worlds /\ Alike(v, World') /\ World'.end = v.end
  BY <1>1, <1>2, Becomes
<1>4. Moving(World', {}, {}) /\ Clients(World', {}, flows')
  BY <1>2, <1>3, AlikeGood
<1>5. end' = v.end /\ mtp' = v.mtp
  BY <1>1 DEF Become
<1> QED
  BY <1>2, <1>4, <1>5 DEF Inv

\* ... and one that leaves a good world
LEMMA GoodBack ==
    ASSUME NEW v, Good(v, {}, {}, {}, flows'), Same(World, v), Become(v),
           flows' \in [Client -> Nat], \A c \in Operators : flows'[c] = 0
    PROVE  Inv'
BY ComesBack DEF Comes

\* A handler begins in a good world.
LEMMA Begins ==
    ASSUME Inv, Running
    PROVE  Good(World, {}, {}, {}, flows) /\ World \in Worlds
<1>1. World.end = "running" /\ ~World.held
  BY DEF World, Running
<1>2. World \in Worlds
  BY DEF Inv, Moving
<1> QED
  BY <1>1, <1>2 DEF Inv, Good, Open

\* The first operation of a client starts.
LEMMA StartApplicationKeeps ==
    ASSUME Inv, NEW c \in Operators, StartApplication(c)
    PROVE  Inv'
<1>1. Good(World, {}, {}, {}, flows) /\ World \in Worlds
  BY Begins DEF StartApplication
<1>2. PICK v : v = NextStep(World, c) /\ Become(v) /\ op[c] = 0 /\ flows' = flows
  BY DEF StartApplication
<1> DEFINE w == World
<1>3. w.op[c] = 0
  BY <1>2 DEF World
<1> HIDE DEF w
<1>4. /\ w.program[c] \in Seq(Nat) /\ Len(w.program[c]) \in Nat
      /\ w.announced[c] \in Nat /\ w.forgotten[c] \in Nat
  BY <1>1, ProgramTypes DEF w
<1>5. AtWork(w, c) /\ Open(w) /\ Moving(w, {}, {}) /\ Clients(w, {}, flows)
  BY <1>1 DEF w, Good, Clients
<1>6. Ready(w, c)
  <2>1. ~Sending(w, c)
    BY <1>3 DEF Sending
  <2>2. Before(0) = 0 /\ SendsOf(w.program[c], 0) = 0
    BY SendsSteps DEF Before
  <2>3. w.qp[c].msgs = <<>> /\ w.qp[c].live
    BY <1>3, <1>4, <1>5, <2>1 DEF AtWork
  <2>4. w.announced[c] = SendsOf(w.program[c], 0)
    BY <1>3, <1>4, <1>5, <2>1, <2>2 DEF AtWork
  <2>5. RecvsOf(w.program[c], 0) + w.forgotten[c] = TellsOf(w, c)
    BY <1>3, <1>5, <2>2 DEF AtWork
  <2> QED
    BY <1>3, <1>4, <2>3, <2>4, <2>5 DEF Ready
<1>7. Good(w, {}, {c}, {}, flows)
  BY <1>5, <1>6 DEF Good, Clients
<1>8. Good(v, {}, {}, {}, flows) /\ Same(w, v)
  BY <1>2, <1>7, NextStepGood DEF w
<1>9. flows' \in [Client -> Nat] /\ \A d \in Operators : flows'[d] = 0
  BY <1>2 DEF Inv
<1>10. Good(v, {}, {}, {}, flows') /\ Same(World, v) /\ Become(v)
  BY <1>2, <1>8 DEF w
<1> QED
  BY <1>9, <1>10, GoodBack

\* The script pushes a flow.
LEMMA PushMessagetoClientKeeps ==
    ASSUME Inv, NEW c \in Client, NEW size \in Sizes, PushMessagetoClient(c, size)
    PROVE  Inv'
<1>1. Good(World, {}, {}, {}, flows) /\ World \in Worlds
  BY Begins DEF PushMessagetoClient
<1>2. PICK v : v = DoSend(World, c, size) /\ Become(v)
  BY DEF PushMessagetoClient
<1>3. flows[c] > 0 /\ flows' = [flows EXCEPT ![c] = flows[c] - 1]
  BY DEF PushMessagetoClient
<1>4. flows \in [Client -> Nat] /\ \A d \in Operators : flows[d] = 0
  BY DEF Inv
<1>5. c \notin Operators /\ Operators \subseteq Client
  BY <1>3, <1>4, ClientAssumption
<1>6. \A d \in Operators : flows'[d] = 0
  BY <1>3, <1>4, <1>5
<1> DEFINE w == World
           h == At[c]
           x == PushMessage(w, c, size)
<1>7. size \in Nat \ {0} /\ h \in Host
  BY ClientAssumption
<1>8. v = TriggerTransmit(x, h)
  BY <1>2, Zenon DEF DoSend
<1> HIDE DEF w
<1>9. Open(w) /\ Moving(w, {}, {}) /\ Clients(w, {}, flows) /\ w \in Worlds
  BY <1>1 DEF w, Good
<1>10. Open(x) /\ Moving(x, {}, {} \cup {h}) /\ Pushed(w, x, c, size)
  BY <1>7, <1>9, PushMessageMoves
<1> HIDE DEF x, h
<1>11. Count(x, flows') /\ flows' \in [Client -> Nat]
  <2>1. Count(w, flows) /\ x \in Worlds
    BY <1>9, <1>10 DEF Clients, Open
  <2> QED
    BY <1>3, <1>4, <1>9, <1>10, <2>1, CountPushed
<1>12. ASSUME NEW d \in Operators PROVE AtWork(x, d)
  <2>1. AtWork(w, d) /\ d \in Client \ {c}
    BY <1>5, <1>9 DEF Clients
  <2> QED
    BY <1>10, <2>1, ClientSame DEF Pushed
<1>13. Good(x, {}, {}, {h}, flows')
  <2>1. {} \cup {h} = {h}
    OBVIOUS
  <2> QED
    BY <1>10, <1>11, <1>12, <2>1 DEF Good, Clients
<1>14. Good(v, {}, {}, {}, flows') /\ Same(x, v)
  <2>1. {h} \ {h} = {} /\ {} \in SUBSET Operators
    OBVIOUS
  <2>2. Good(v, {}, {}, {h} \ {h}, flows') /\ Same(x, v)
    BY <1>7, <1>8, <1>13, <2>1, TriggerGood
  <2> QED
    BY <2>1, <2>2
<1>15. Same(World, v)
  BY <1>10, <1>14 DEF Pushed, Same, w
<1> QED
  BY <1>2, <1>6, <1>11, <1>14, <1>15, GoodBack

\* A transmitter is free again.
LEMMA TransmitCompleteKeeps ==
    ASSUME Inv, NEW h \in Host, TransmitComplete(h)
    PROVE  Inv'
<1>1. Good(World, {}, {}, {}, flows) /\ World \in Worlds
  BY Begins DEF TransmitComplete
<1>2. PICK v : v = TriggerTransmit([World EXCEPT !.nic[h].busy = FALSE], h) /\ Become(v) /\ flows' = flows
  BY DEF TransmitComplete
<1> DEFINE w == World
           n == [w.nic[h] EXCEPT !.busy = FALSE]
           N == [w.nic EXCEPT ![h] = n]
           x == [w EXCEPT !.nic = N]
<1>3. v = TriggerTransmit(x, h)
  BY <1>2, Zenon
<1> HIDE DEF w
<1>4. Open(w) /\ Moving(w, {}, {}) /\ Clients(w, {}, flows) /\ w \in Worlds
  BY <1>1 DEF w, Good
<1>5. /\ n \in Transmitter /\ n.acks = w.nic[h].acks /\ n.group = w.nic[h].group
      /\ n.last = w.nic[h].last
  <2>1. w.nic[h] \in Transmitter
    BY <1>4, HostTypes
  <2> QED
    BY <2>1 DEF Transmitter
<1> HIDE DEF n
<1>6. N \in [Host -> Transmitter] /\ N[h] = n /\ \A g \in Host \ {h} : N[g] = w.nic[g]
  BY <1>4, <1>5 DEF Worlds
<1> HIDE DEF N
<1>7. /\ x \in Worlds /\ x.nic = N /\ x.qp = w.qp /\ x.rx = w.rx /\ x.link = w.link
      /\ x.held = w.held /\ x.end = w.end /\ x.finished = w.finished
      /\ x.mtp = w.mtp /\ x.program = w.program /\ x.op = w.op
      /\ x.announced = w.announced /\ x.forgotten = w.forgotten
  BY <1>4, <1>6 DEF Worlds
<1> HIDE DEF x
<1>8. \A g \in Host : x.link[g] = w.link[g] /\ x.nic[g].acks = w.nic[g].acks
                      /\ x.nic[g].group = w.nic[g].group
  BY <1>5, <1>6, <1>7
<1>9. Net(w, {}) /\ Groups(w) /\ Woken(w, {})
  BY <1>4 DEF Moving
<1>10. Net(x, {})
  <2>1. Routed(x)
    BY <1>8, <1>9, RoutedSame DEF Net
  <2>2. ASSUME NEW d \in Client PROVE Pipe(x, d, Owed(d, {}))
    <3>1. Pipe(w, d, Owed(d, {}))
      BY <1>9 DEF Net
    <3>2. x.nic[At[To[d]]].acks = w.nic[At[To[d]]].acks
      BY <1>8, ClientAssumption
    <3> QED
      BY <1>7, <3>1, <3>2, PipeSame
  <2> QED
    BY <2>1, <2>2 DEF Net
<1>11. Groups(x)
  BY <1>4, <1>7, <1>8, <1>9, GroupsKept
<1>12. Woken(x, {h})
  <2>1. \A g \in Host \ {h} : x.nic[g] = w.nic[g]
    BY <1>6, <1>7
  <2>2. \A d \in Client : At[d] # h => x.qp[d] = w.qp[d]
    BY <1>7
  <2>3. Woken(x, {} \cup {h})
    BY <1>4, <1>9, <2>1, <2>2, WokenThere
  <2> QED
    BY <2>3
<1>13. Clients(x, {}, flows)
  <2>1. ASSUME NEW d \in Operators PROVE AtWork(x, d)
    <3>1. AtWork(w, d)
      BY <1>4 DEF Clients
    <3> QED
      BY <1>7, <3>1, ClientSame
  <2>2. Count(x, flows)
    <3>1. Count(w, flows)
      BY <1>4 DEF Clients
    <3> QED
      BY <1>7, <3>1, CountSame
  <2> QED
    BY <2>1, <2>2 DEF Clients
<1>14. Good(x, {}, {}, {h}, flows)
  <2>1. Open(x)
    BY <1>4, <1>7 DEF Open
  <2> QED
    BY <1>7, <1>10, <1>11, <1>12, <1>13, <2>1 DEF Good, Moving
<1>15. Good(v, {}, {}, {}, flows) /\ Same(x, v)
  <2>1. {h} \ {h} = {} /\ {} \in SUBSET Operators
    OBVIOUS
  <2>2. Good(v, {}, {}, {h} \ {h}, flows) /\ Same(x, v)
    BY <1>3, <1>14, <2>1, TriggerGood
  <2> QED
    BY <2>1, <2>2
<1>16. Good(v, {}, {}, {}, flows') /\ Same(World, v) /\ Become(v)
  BY <1>2, <1>7, <1>15 DEF Same, w
<1>17. flows' \in [Client -> Nat] /\ \A d \in Operators : flows'[d] = 0
  BY <1>2 DEF Inv
<1> QED
  BY <1>16, <1>17, GoodBack

\* A frame arrives.
LEMMA DeliverKeeps ==
    ASSUME Inv, NEW h \in Host, Deliver(h)
    PROVE  Inv'
<1>1. Good(World, {}, {}, {}, flows)
  BY Begins DEF Deliver
<1> DEFINE w == World
           f == Head(w.link[h])
           u == Unlinked(w, h)
<1>2. w.link = link
  BY DEF World
<1>3. PICK v : v = Receive([World EXCEPT !.link[h] = Tail(@)], Head(link[h])) /\ Become(v) /\ flows' = flows
  BY DEF Deliver
<1>4. u = [World EXCEPT !.link[h] = Tail(@)]
  BY Zenon DEF Unlinked
<1>5. FirstOf(w, h, f)
  BY <1>2 DEF Deliver, FirstOf
<1> HIDE DEF w
<1>6. v = Receive(u, f)
  BY <1>2, <1>3, <1>4, Zenon
<1>7. Good(w, {}, {}, {}, flows)
  BY <1>1 DEF w
<1>8. flows \in [Client -> Nat] /\ \A d \in Operators : flows[d] = 0
  BY DEF Inv
<1>9. Comes(w, v, flows)
  <2>1. f.kind \in {"data", "ack"}
    BY <1>5, <1>7, FirstFrame DEF Good, Moving
  <2>2. CASE f.kind = "data"
    <3>1. v = ReceiveUdp(u, f)
      BY <1>6, <2>2, Zenon DEF Receive
    <3> HIDE DEF f, u
    <3>2. Good(v, {}, {}, {}, flows) /\ Same(w, v)
      BY <1>5, <1>7, <2>2, <3>1, ReceiveUdpGood DEF u
    <3> QED
      BY <3>2 DEF Comes
  <2>3. CASE f.kind = "ack"
    <3>1. v = ReceiveAck(u, f)
      BY <1>6, <2>3 DEF Receive
    <3> HIDE DEF f, u
    <3> QED
      BY <1>5, <1>7, <1>8, <2>3, <3>1, ReceiveAckGood DEF u
  <2> QED
    BY <2>1, <2>2, <2>3
<1>10. Comes(World, v, flows')
  BY <1>3, <1>9 DEF w
<1> QED
  BY <1>3, <1>8, <1>10, ComesBack

----------------------------------------------------------------------------
(***************************************************************************)
(* The beginning                                                           *)
(***************************************************************************)
LEMMA HostedMembers ==
    ASSUME NEW h \in Host
    PROVE  Hosted(h) \in Seq(Client) /\ \A i \in 1 .. Len(Hosted(h)) : At[Hosted(h)[i]] = h
<1> DEFINE S == {c \in Client : At[c] = h}
           n == Cardinality(S)
<1>1. IsFiniteSet(S)
  BY ClientAssumption, FS_Subset
<1>2. n \in Nat /\ ExistsBijection(1 .. n, S)
  BY <1>1, FS_CardinalityType
<1>3. \E f \in [1 .. n -> S] : IsInjective(f)
  BY <1>2 DEF ExistsBijection, Bijection, Injection
<1>4. Hosted(h) = CHOOSE f \in [1 .. n -> S] : IsInjective(f)
  BY DEF Hosted, SetToSeq
<1>5. Hosted(h) \in [1 .. n -> S]
  BY <1>3, <1>4
<1>6. \A c \in S : c \in Client /\ At[c] = h
  OBVIOUS
<1> HIDE DEF S, n
<1> DEFINE q == Hosted(h)
<1>7. q \in [1 .. n -> S]
  BY <1>5
<1> HIDE DEF q
<1>8. q \in Seq(Client) /\ Len(q) = n /\ \A i \in 1 .. n : q[i] \in S
  BY <1>2, <1>6, <1>7
<1> QED
  BY <1>6, <1>8 DEF q

\* The initial states
LEMMA Initial ==
    ASSUME Init
    PROVE  Inv
<1> DEFINE w == World
           q0 == [msgs |-> <<>>, nxt |-> 0, una |-> 0, live |-> TRUE]
<1>1. /\ mtp \in BOOLEAN /\ program \in Programs /\ flows = Flows
      /\ flows \in [Client -> Nat] /\ \A c \in Operators : flows[c] = 0
  BY ClientAssumption DEF Init
<1>2. /\ w.mtp = mtp /\ w.program = program /\ w.op = [c \in Operators |-> 0]
      /\ w.qp = [c \in Client |-> q0]
      /\ w.nic = [h \in Host |-> [busy |-> FALSE, acks |-> <<>>, group |-> Hosted(h), last |-> 0]]
      /\ w.rx = [c \in Client |-> NoRx]
      /\ w.link = [h \in Host |-> <<>>]
      /\ w.finished = 0 /\ w.held = FALSE /\ w.end = "running"
      /\ w.announced = [c \in Client |-> 0] /\ w.forgotten = [c \in Client |-> 0]
  BY DEF World, Init
<1>3. w = [mtp |-> w.mtp, program |-> w.program, op |-> w.op, qp |-> w.qp, nic |-> w.nic,
           rx |-> w.rx, link |-> w.link, finished |-> w.finished, held |-> w.held,
           end |-> w.end, announced |-> w.announced, forgotten |-> w.forgotten]
  BY DEF World
<1>4. /\ q0 \in Pair /\ q0.msgs = <<>> /\ q0.nxt = 0 /\ q0.una = 0 /\ q0.live
      /\ NoRx \in Receiver /\ NoRx.left = NoSize /\ NoRx.next = 0
  BY DEF Pair, NoRx, Receiver, NoSize
<1> HIDE DEF w, q0, NoRx
<1>5. \A c \in Client : w.qp[c] = q0 /\ w.rx[c] = NoRx /\ w.announced[c] = 0 /\ w.forgotten[c] = 0
  BY <1>2
<1>6. \A h \in Host : /\ w.link[h] = <<>> /\ w.nic[h].acks = <<>> /\ w.nic[h].group = Hosted(h)
                      /\ ~w.nic[h].busy /\ w.nic[h] \in Transmitter
  <2> SUFFICES ASSUME NEW h \in Host
               PROVE  /\ w.link[h] = <<>> /\ w.nic[h].acks = <<>> /\ w.nic[h].group = Hosted(h)
                      /\ ~w.nic[h].busy /\ w.nic[h] \in Transmitter
    OBVIOUS
  <2> DEFINE g == Hosted(h)
  <2>1. g \in Seq(Client)
    BY HostedMembers
  <2>2. w.nic[h] = [busy |-> FALSE, acks |-> <<>>, group |-> g, last |-> 0] /\ w.link[h] = <<>>
    BY <1>2
  <2> HIDE DEF g
  <2>3. w.nic[h] \in Transmitter
    BY <2>1, <2>2 DEF Transmitter
  <2> QED
    BY <2>2, <2>3 DEF g
<1>7. w \in Worlds
  <2>1. w.nic \in [Host -> Transmitter]
    <3> DEFINE F == w.nic
    <3>1. F = [h \in Host |-> F[h]]
      BY <1>2
    <3>2. \A h \in Host : F[h] \in Transmitter
      BY <1>6
    <3> HIDE DEF F
    <3>3. F \in [Host -> Transmitter]
      BY <3>1, <3>2
    <3> QED
      BY <3>3 DEF F
  <2>2. w.link \in [Host -> Seq(Frame)]
    BY <1>2
  <2>3. w.qp \in [Client -> Pair] /\ w.rx \in [Client -> Receiver]
    BY <1>2, <1>4
  <2>4. w.op \in [Operators -> Nat] /\ w.announced \in [Client -> Nat] /\ w.forgotten \in [Client -> Nat]
    BY <1>2
  <2>5. /\ w.mtp \in BOOLEAN /\ w.program \in Programs /\ w.finished \in Nat /\ w.held \in BOOLEAN
        /\ w.end \in Ends
    <3>1. w.mtp = mtp /\ w.program = program /\ w.finished = 0 /\ w.held = FALSE /\ w.end = "running"
      BY <1>2
    <3>2. w.mtp \in BOOLEAN
      BY <1>1, <3>1, Zenon
    <3>3. w.program \in Programs
      BY <1>1, <3>1, Zenon
    <3>4. w.finished \in Nat
      BY <3>1
    <3>5. w.held \in BOOLEAN
      BY <3>1, Zenon
    <3>6. w.end \in Ends
      BY <3>1 DEF Ends
    <3> QED
      BY <3>2, <3>3, <3>4, <3>5, <3>6, Zenon
  <2> QED
    BY <1>3, <2>1, <2>2, <2>3, <2>4, <2>5 DEF Worlds
<1>8. Net(w, {})
  <2>1. Routed(w)
    <3>1. Len(<<>>) = 0 /\ 1 .. 0 = {}
      OBVIOUS
    <3> QED
      BY <1>6, <3>1 DEF Routed
  <2>2. ASSUME NEW c \in Client PROVE Pipe(w, c, Owed(c, {}))
    <3>1. w.link[At[c]] = <<>> /\ w.link[At[To[c]]] = <<>> /\ w.nic[At[To[c]]].acks = <<>>
      BY <1>6, ClientAssumption
    <3>2. Owed(c, {}) = 0 /\ 0 - 0 = 0 /\ Got(q0, NoRx) = 0
      BY <1>4 DEF Owed, Got
    <3>3. \A kind : Carries(<<>>, kind, c, 0, 0)
      BY CarriesNothing
    <3>4. DataOnWay(w, c)
      BY <1>4, <1>5, <3>1, <3>2, <3>3 DEF DataOnWay
    <3>5. AcksOnWay(w, c, 0)
      BY <1>4, <1>5, <3>1, <3>2, <3>3 DEF AcksOnWay
    <3>6. Len(<<>>) = 0 /\ 1 .. 0 = {}
      OBVIOUS
    <3>7. Sized(w, c)
      BY <3>1, <3>6 DEF Sized
    <3>8. Placed(q0, NoRx)
      BY <1>4, <3>6 DEF Placed
    <3> QED
      BY <1>5, <3>2, <3>4, <3>5, <3>7, <3>8 DEF Pipe
  <2> QED
    BY <2>1, <2>2 DEF Net
<1>9. Groups(w)
  <2> SUFFICES ASSUME NEW h \in Host, NEW i \in 1 .. Len(w.nic[h].group)
               PROVE  At[w.nic[h].group[i]] = h /\ w.qp[w.nic[h].group[i]].live
    BY Zenon DEF Groups
  <2>1. w.nic[h].group[i] \in Client
    BY <1>7, HostTypes
  <2>2. At[w.nic[h].group[i]] = h
    BY <1>6, HostedMembers
  <2> QED
    BY <1>4, <1>5, <2>1, <2>2
<1>10. Woken(w, {})
  <2> SUFFICES ASSUME NEW h \in Host PROVE Asleep(w, h)
    BY Zenon DEF Woken
  <2>1. ASSUME NEW i \in 1 .. Len(w.nic[h].group) PROVE GetBytesLeft(w.qp[w.nic[h].group[i]]) = 0
    <3>1. w.nic[h].group[i] \in Client
      BY <1>7, HostTypes
    <3> QED
      BY <1>4, <1>5, <3>1, Zenon DEF GetBytesLeft
  <2> QED
    BY <1>6, <2>1, Zenon DEF Asleep
<1>11. ASSUME NEW c \in Operators PROVE AtWork(w, c)
  <2>1. /\ c \in Client /\ w.program[c] \in Seq(Nat) /\ Len(w.program[c]) \in Nat
    BY <1>7, ProgramTypes
  <2>2. w.op[c] = 0 /\ ~Sending(w, c)
    BY <1>2 DEF Sending
  <2>3. Before(0) = 0 /\ SendsOf(w.program[c], 0) = 0
    BY SendsSteps DEF Before
  <2>4. RecvsOf(w.program[c], 0) = 0
    BY <2>3 DEF RecvsOf
  <2>5. TellsOf(w, c) = 0
    <3>1. IsFiniteSet(Senders(c)) /\ Senders(c) \subseteq Client
      BY ClientAssumption, FS_Subset DEF Senders
    <3>2. \A d \in Senders(c) : w.announced[d] = 0
      BY <1>5, <3>1
    <3>3. 0 \in Int
      OBVIOUS
    <3>4. SumFunctionOnSet(w.announced, Senders(c)) = Cardinality(Senders(c)) * 0
      BY <3>1, <3>2, <3>3, SumConstant
    <3>5. Cardinality(Senders(c)) \in Nat
      BY <3>1, FS_CardinalityType
    <3> QED
      BY <3>4, <3>5 DEF TellsOf
  <2> QED
    BY <1>4, <1>5, <2>1, <2>2, <2>3, <2>4, <2>5 DEF AtWork
<1>12. Count(w, flows)
  <2>1. FlowClients \subseteq Client /\ IsFiniteSet(FlowClients)
    BY ClientAssumption, FS_Subset DEF FlowClients
  <2> DEFINE g == Remaining(w, flows)
  <2>2. ASSUME NEW d \in FlowClients PROVE Flows[d] \in Int /\ g[d] = Flows[d]
    <3>1. w.qp[d].msgs = <<>> /\ Len(<<>>) = 0 /\ Flows[d] \in Nat
      BY <1>4, <1>5, <2>1, ClientAssumption
    <3>2. g[d] = flows[d] + Len(w.qp[d].msgs)
      BY DEF Remaining
    <3> QED
      BY <1>1, <3>1, <3>2
  <2> HIDE DEF g
  <2>3. SumFunctionOnSet(Flows, FlowClients) = SumFunctionOnSet(g, FlowClients)
    BY <2>1, <2>2, SumSame
  <2>4. FlowNum \in Nat
    BY <1>1, <1>7, Remains
  <2>5. \A d \in FlowClients : w.qp[d].live
    BY <1>4, <1>5, <2>1
  <2>6. w.finished + SumFunctionOnSet(g, FlowClients) = FlowNum
    BY <1>2, <2>3, <2>4 DEF FlowNum
  <2> QED
    BY <2>5, <2>6 DEF Count, g
<1>13. Moving(w, {}, {}) /\ Clients(w, {}, flows)
  BY <1>7, <1>8, <1>9, <1>10, <1>11, <1>12 DEF Moving, Clients
<1>14. end = "running"
  BY DEF Init
<1> QED
  BY <1>1, <1>13, <1>14 DEF Inv, w

----------------------------------------------------------------------------
(***************************************************************************)
(* Every step, and what follows from the invariant.                        *)
(***************************************************************************)
\* One lemma per action, and a step that changes nothing
LEMMA StepKeeps ==
    ASSUME Inv, [Next]_vars
    PROVE  Inv'
<1>1. ASSUME NEW c \in Operators, StartApplication(c) PROVE Inv'
  BY <1>1, StartApplicationKeeps
<1>2. ASSUME NEW c \in Client, NEW size \in Sizes, PushMessagetoClient(c, size) PROVE Inv'
  BY <1>2, PushMessagetoClientKeeps
<1>3. ASSUME NEW h \in Host, TransmitComplete(h) PROVE Inv'
  BY <1>3, TransmitCompleteKeeps
<1>4. ASSUME NEW h \in Host, Deliver(h) PROVE Inv'
  BY <1>4, DeliverKeeps
<1>5. CASE UNCHANGED vars
  <2>1. /\ World' = World /\ flows' = flows /\ end' = end /\ mtp' = mtp
    BY <1>5 DEF vars, World
  <2>2. Moving(World', {}, {}) /\ Clients(World', {}, flows')
    <3>1. Moving(World, {}, {}) /\ Clients(World, {}, flows)
      BY DEF Inv
    <3> QED
      BY <2>1, <3>1
  <2>3. /\ flows' \in [Client -> Nat] /\ \A c \in Operators : flows'[c] = 0
        /\ end' = "running" \/ (end' = "nested lock" /\ mtp' /\ Passive # {})
    BY <2>1 DEF Inv
  <2> QED
    BY <2>2, <2>3 DEF Inv
<1> QED
  BY <1>1, <1>2, <1>3, <1>4, <1>5 DEF Next

\* The invariant of the events: the state between two events is a good world.
THEOREM Invariance == Spec => []Inv
<1>1. Init => Inv
  BY Initial
<1>2. Inv /\ [Next]_vars => Inv'
  BY StepKeeps
<1> QED
  BY <1>1, <1>2, PTL DEF Spec

\* The variables as fields of the world
LEMMA WorldFields ==
    /\ World.mtp = mtp /\ World.program = program /\ World.op = op /\ World.qp = qp
    /\ World.nic = nic /\ World.rx = rx /\ World.link = link
    /\ World.finished = finished /\ World.end = end
    /\ World.announced = announced /\ World.forgotten = forgotten
BY DEF World

\* What the invariant says of a client in the words of the properties
LEMMA ClientFacts ==
    ASSUME Inv, NEW c \in Operators
    PROVE  /\ op[c] \in 0 .. Len(program[c]) + 1
           /\ Passed(c) \in Nat /\ Sends(c, Passed(c)) \in Nat
           /\ announced[c] \in {Sends(c, Passed(c)), Sends(c, Passed(c)) + 1}
           /\ Recvs(c, Passed(c)) + forgotten[c] = AnnouncedTo(c)
<1> DEFINE w == World
           list == program[c]
           n == Passed(c)
<1>1. w \in Worlds /\ AtWork(w, c)
  BY DEF Inv, Moving, Clients
<1>2. w.program[c] = list /\ w.op[c] = op[c] /\ Before(op[c]) = n
  BY WorldFields DEF Before, Passed
<1>3. w.announced = announced /\ w.forgotten = forgotten
  BY WorldFields
<1>4. Sends(c, n) = SendsOf(list, n) /\ Recvs(c, n) = RecvsOf(list, n)
  BY DEF Sends, SendsOf, Recvs, RecvsOf
<1> HIDE DEF w
<1>5. w.op[c] \in Nat
  BY <1>1, ProgramTypes
<1>6. n \in Nat
  BY <1>2, <1>5 DEF Before
<1> HIDE DEF list, n
<1>7. SendsOf(list, n) \in Nat
  BY <1>6, SendsSteps
<1>8. op[c] \in 0 .. Len(list) + 1
  BY <1>1, <1>2 DEF AtWork
<1>9. announced[c] = SendsOf(list, n) + IF Sending(w, c) /\ w.rx[c].next = EndOf(w.qp[c]) THEN 1 ELSE 0
  BY <1>1, <1>2, <1>3 DEF AtWork
<1>10. announced[c] \in {SendsOf(list, n), SendsOf(list, n) + 1}
  BY <1>7, <1>9
<1>11. RecvsOf(list, n) + forgotten[c] = AnnouncedTo(c)
  <2>1. TellsOf(w, c) = AnnouncedTo(c)
    BY <1>3 DEF TellsOf, AnnouncedTo
  <2>2. RecvsOf(list, n) + w.forgotten[c] = TellsOf(w, c)
    BY <1>1, <1>2 DEF AtWork
  <2> QED
    BY <1>3, <2>1, <2>2
<1> QED
  BY <1>4, <1>6, <1>7, <1>8, <1>10, <1>11 DEF list, n

\* Every variable has its type, and operation indexes stay within the lists.
THEOREM TypesCorrect == Spec => []TypeOK
<1>1. Inv => TypeOK
  <2> SUFFICES ASSUME Inv PROVE TypeOK
    OBVIOUS
  <2>1. World \in Worlds /\ Groups(World)
    BY DEF Inv, Moving
  <2>2. mtp \in BOOLEAN /\ program \in Programs
    <3> DEFINE w == World
    <3>1. w \in Worlds /\ w.mtp = mtp /\ w.program = program
      BY <2>1, WorldFields
    <3> HIDE DEF w
    <3>2. w.mtp \in BOOLEAN /\ w.program \in Programs
      BY <3>1 DEF Worlds
    <3> QED
      BY <3>1, <3>2, Zenon
  <2>3. flows \in [Client -> Nat]
    BY DEF Inv
  <2>4. \A c \in Operators : op[c] \in 0 .. Len(program[c]) + 1
    BY ClientFacts
  <2>5. ASSUME NEW c \in Client
        PROVE  /\ qp[c].msgs \in Seq(Message) /\ qp[c].live \in BOOLEAN
               /\ qp[c].nxt \in Nat /\ qp[c].una \in Nat
               /\ rx[c].next \in Nat /\ rx[c].left \in Nat \cup {NoSize}
    <3>1. World.qp[c].msgs \in Seq(Message) /\ World.qp[c].live \in BOOLEAN
          /\ World.qp[c].nxt \in Nat /\ World.qp[c].una \in Nat
          /\ World.rx[c].next \in Nat /\ World.rx[c].left \in Nat \cup {NoSize}
      BY <2>1, PairTypes, Zenon
    <3>2. World.qp = qp /\ World.rx = rx
      BY WorldFields
    <3> QED
      BY <3>1, <3>2, Zenon
  <2>6. ASSUME NEW h \in Host
        PROVE  /\ nic[h].busy \in BOOLEAN /\ nic[h].last \in Nat
               /\ \A i \in DOMAIN nic[h].group : At[nic[h].group[i]] = h
    <3> DEFINE w == World
    <3>1. w.nic = nic /\ w \in Worlds
      BY <2>1, WorldFields
    <3>2. \A i \in 1 .. Len(w.nic[h].group) : At[w.nic[h].group[i]] = h
      BY <2>1 DEF Groups
    <3> HIDE DEF w
    <3>3. w.nic[h].busy \in BOOLEAN /\ w.nic[h].last \in Nat /\ w.nic[h].group \in Seq(Client)
      BY <3>1, HostTypes, Zenon
    <3>4. DOMAIN w.nic[h].group = 1 .. Len(w.nic[h].group)
      BY <3>3
    <3> QED
      BY <3>1, <3>2, <3>3, <3>4, Zenon
  <2>7. /\ finished \in Nat /\ end \in Ends
        /\ announced \in [Client -> Nat] /\ forgotten \in [Client -> Nat]
    <3> DEFINE w == World
    <3>1. w \in Worlds /\ w.finished = finished /\ w.end = end
          /\ w.announced = announced /\ w.forgotten = forgotten
      BY <2>1, WorldFields
    <3> HIDE DEF w
    <3>2. /\ w.finished \in Nat /\ w.end \in Ends
          /\ w.announced \in [Client -> Nat] /\ w.forgotten \in [Client -> Nat]
      BY <3>1 DEF Worlds
    <3> QED
      BY <3>1, <3>2, Zenon
  <2> QED
    BY <2>2, <2>3, <2>4, <2>5, <2>6, <2>7, Zenon DEF TypeOK
<1> QED
  BY <1>1, Invariance, PTL

\* No call tree of a handler fails, but where a PassiveDestroy client finishes its
\* queue pair inside the critical section.
THEOREM HandlersDoNotFail == Spec => []NoFailure
<1>1. Inv => NoFailure
  <2> SUFFICES ASSUME Inv PROVE NoFailure
    OBVIOUS
  <2>1. ASSUME NEW h \in Host, NEW i \in DOMAIN nic[h].group PROVE qp[nic[h].group[i]].live
    <3> DEFINE w == World
    <3>1. w \in Worlds /\ w.nic = nic /\ w.qp = qp
      BY WorldFields DEF Inv, Moving
    <3>2. \A j \in 1 .. Len(w.nic[h].group) : w.qp[w.nic[h].group[j]].live
      BY DEF Inv, Moving, Groups
    <3> HIDE DEF w
    <3>3. w.nic[h].group \in Seq(Client)
      BY <3>1, HostTypes
    <3>4. DOMAIN w.nic[h].group = 1 .. Len(w.nic[h].group)
      BY <3>3
    <3> QED
      BY <3>1, <3>2, <3>4, Zenon
  <2>2. /\ end \in {"running", "nested lock"}
        /\ end = "nested lock" => mtp /\ Passive # {}
    BY DEF Inv
  <2> QED
    BY <2>1, <2>2 DEF NoFailure
<1> QED
  BY <1>1, Invariance, PTL

\* A client is past a SEND only if the peer has been told of the whole message.
THEOREM SentIsReceived == Spec => []SendDoneMeansReceived
<1>1. Inv => SendDoneMeansReceived
  <2> SUFFICES ASSUME Inv, NEW c \in Operators PROVE Sends(c, Passed(c)) <= announced[c]
    BY Zenon DEF SendDoneMeansReceived
  <2> DEFINE s == Sends(c, Passed(c))
  <2>1. s \in Nat /\ announced[c] \in {s, s + 1}
    BY ClientFacts
  <2> HIDE DEF s
  <2>2. s <= announced[c]
    BY <2>1
  <2> QED
    BY <2>2 DEF s
<1> QED
  BY <1>1, Invariance, PTL

\* Every announcement completes one RECV of the client or is counted as forgotten.
THEOREM RecvsMatch == Spec => []EachRecvOneMessage
<1>1. Inv => EachRecvOneMessage
  BY ClientFacts, Zenon DEF EachRecvOneMessage
<1> QED
  BY <1>1, Invariance, PTL

\* The two ends agree where a message ends.
THEOREM MessageEndsAgree == Spec => []EndsAgree
<1>1. Inv => EndsAgree
  <2> SUFFICES ASSUME Inv, NEW c \in Client, rx[c].left # NoSize
               PROVE  /\ qp[c].msgs # <<>> /\ Head(qp[c].msgs).set
                      /\ rx[c].next + rx[c].left = Head(qp[c].msgs).start + Head(qp[c].msgs).size
    BY Zenon DEF EndsAgree
  <2> DEFINE q == qp[c]
             r == rx[c]
             w == World
  <2>1. w \in Worlds /\ w.qp = qp /\ w.rx = rx
    BY WorldFields DEF Inv, Moving
  <2>2. Placed(w.qp[c], w.rx[c])
    BY DEF Inv, Moving, Net, Pipe
  <2> HIDE DEF w
  <2>3. w.qp[c].msgs \in Seq(Message)
    BY <2>1, PairTypes
  <2>4. Placed(q, r) /\ r.left # NoSize /\ q.msgs \in Seq(Message)
    BY <2>1, <2>2, <2>3
  <2> HIDE DEF q, r
  <2>5. q.msgs # <<>> /\ InProgress(q, r)
    BY <2>4 DEF Placed
  <2>6. Head(q.msgs) = q.msgs[1] /\ 1 \in 1 .. Len(q.msgs)
    BY <2>4, <2>5
  <2>7. q.msgs[1].set
    BY <2>4, <2>6 DEF Placed
  <2>8. r.next + r.left = q.msgs[1].start + q.msgs[1].size
    BY <2>4, <2>5 DEF InProgress, EndOf
  <2> QED
    BY <2>5, <2>6, <2>7, <2>8 DEF q, r
<1> QED
  BY <1>1, Invariance, PTL

\* Nothing of a message is left unsent by a host that has stopped transmitting.
THEOREM WakeupsArrive == Spec => []NoLostWakeup
<1>1. Inv => NoLostWakeup
  <2> SUFFICES ASSUME Inv, NEW h \in Host, ~nic[h].busy
               PROVE  /\ nic[h].acks = <<>>
                      /\ \A i \in DOMAIN nic[h].group : GetBytesLeft(qp[nic[h].group[i]]) = 0
    BY Zenon DEF NoLostWakeup
  <2> DEFINE w == World
  <2>1. w \in Worlds /\ w.nic = nic /\ w.qp = qp /\ Woken(w, {})
    BY WorldFields DEF Inv, Moving
  <2> HIDE DEF w
  <2>2. Asleep(w, h)
    BY <2>1 DEF Woken
  <2>3. w.nic[h].group \in Seq(Client)
    BY <2>1, HostTypes
  <2>4. DOMAIN w.nic[h].group = 1 .. Len(w.nic[h].group)
    BY <2>3
  <2>5. /\ w.nic[h].acks = <<>>
        /\ \A i \in DOMAIN w.nic[h].group : GetBytesLeft(w.qp[w.nic[h].group[i]]) = 0
    BY <2>2, <2>4, Zenon DEF Asleep
  <2> QED
    BY <2>1, <2>5, Zenon
<1> QED
  BY <1>1, Invariance, PTL

----------------------------------------------------------------------------
(***************************************************************************)
(* The end of the events                                                   *)
(***************************************************************************)

\* When nothing is on its way, everything sent is received and acknowledged.
LEMMA AllArrived ==
    ASSUME NEW w \in Worlds, NEW c \in Client, Pipe(w, c, 0),
           w.link[At[c]] = <<>>, w.link[At[To[c]]] = <<>>, w.nic[At[To[c]]].acks = <<>>
    PROVE  w.qp[c].una = w.qp[c].nxt
<1> DEFINE got == Got(w.qp[c], w.rx[c])
<1>1. got \in Nat
  BY PairTypes DEF Got
<1>2. Carries(<<>>, "data", c, got, w.qp[c].nxt)
  BY DEF Pipe, DataOnWay
<1>3. PICK m \in Nat : Carries(<<>>, "ack", c, w.qp[c].una, m) /\ Carries(<<>>, "ack", c, m, got - 0)
  BY DEF Pipe, AcksOnWay
<1> HIDE DEF got
<1>4. got = w.qp[c].nxt
  BY <1>2, CarriedNothing
<1>5. w.qp[c].una = m /\ m = got - 0
  BY <1>3, CarriedNothing
<1> QED
  BY <1>1, <1>4, <1>5

\* So what is still queued then is stranded.
LEMMA NothingQueued ==
    ASSUME Inv, NoEventLeft, NEW c \in Client, ~Stranded(c)
    PROVE  qp[c].msgs = <<>>
<1> DEFINE w == World
           h == At[c]
<1>1. /\ w \in Worlds /\ w.qp = qp /\ w.rx = rx /\ w.nic = nic /\ w.link = link
      /\ Net(w, {}) /\ Groups(w) /\ Woken(w, {})
  BY WorldFields DEF Inv, Moving
<1> HIDE DEF w
<1>2. h \in Host /\ At[To[c]] \in Host
  BY ClientAssumption
<1> HIDE DEF h
<1>3. \A g \in Host : ~w.nic[g].busy /\ w.link[g] = <<>> /\ Asleep(w, g)
  BY <1>1 DEF NoEventLeft, Woken
<1>4. Pipe(w, c, 0)
  BY <1>1 DEF Net, Owed
<1>5. w.qp[c].una = w.qp[c].nxt
  <2>1. w.link[At[c]] = <<>> /\ w.link[At[To[c]]] = <<>> /\ w.nic[At[To[c]]].acks = <<>>
    BY <1>2, <1>3 DEF Asleep, h
  <2> QED
    BY <1>1, <1>4, <2>1, AllArrived
<1> SUFFICES ASSUME w.qp[c].msgs # <<>> PROVE FALSE
  BY <1>1
<1>6. PICK i \in 1 .. Len(w.nic[h].group) : w.nic[h].group[i] = c
  <2>1. \E i \in DOMAIN w.nic[h].group : w.nic[h].group[i] = c
    BY <1>1 DEF Stranded, h
  <2>2. w.nic[h].group \in Seq(Client)
    BY <1>1, <1>2, HostTypes
  <2>3. DOMAIN w.nic[h].group = 1 .. Len(w.nic[h].group)
    BY <2>2
  <2> QED
    BY <2>1, <2>3, Zenon
<1>7. w.qp[c].live
  BY <1>1, <1>2, <1>6, Zenon DEF Groups
<1>8. GetBytesLeft(w.qp[c]) = 0
  BY <1>2, <1>3, <1>6, Zenon DEF Asleep
<1> DEFINE q == w.qp[c]
<1>9. InProgress(q, w.rx[c])
  BY <1>4, <1>7 DEF Pipe, Placed
<1>10. q \in Pair /\ q.nxt \in Nat
  BY <1>1, PairTypes
<1> HIDE DEF q
<1>11. q.msgs # <<>> /\ q.una = q.nxt /\ GetBytesLeft(q) = 0
  BY <1>5, <1>8 DEF q
<1>12. GetBytesLeft(q) > 0 <=> q.nxt < EndOf(q)
  BY <1>10, <1>11, BytesLeft
<1>13. q.una < EndOf(q)
  BY <1>9 DEF InProgress
<1> QED
  BY <1>11, <1>12, <1>13

\* Without a message queued every flow is finished.
LEMMA FlowsFinished ==
    ASSUME Inv, \A c \in Client : flows[c] = 0 /\ qp[c].msgs = <<>>
    PROVE  finished = FlowNum
<1> DEFINE w == World
           g == Remaining(w, flows)
<1>1. w \in Worlds /\ w.qp = qp /\ w.finished = finished /\ Count(w, flows) /\ flows \in [Client -> Nat]
  BY WorldFields DEF Inv, Moving, Clients
<1> HIDE DEF w
<1>2. /\ IsFiniteSet(FlowClients) /\ FlowClients \subseteq Client /\ FlowNum \in Nat
      /\ \A c \in FlowClients : g[c] = flows[c] + Len(w.qp[c].msgs)
  BY <1>1, Remains
<1>3. w.finished + SumFunctionOnSet(g, FlowClients) = FlowNum
  BY <1>1 DEF Count
<1> HIDE DEF g
<1>4. \A c \in FlowClients : g[c] = 0
  BY <1>1, <1>2
<1>5. SumFunctionOnSet(g, FlowClients) = Cardinality(FlowClients) * 0 /\ Cardinality(FlowClients) \in Nat
  BY <1>2, <1>4, SumConstant, FS_CardinalityType
<1>6. SumFunctionOnSet(g, FlowClients) = 0
  BY <1>5
<1>7. w.finished \in Nat
  BY <1>1 DEF Worlds
<1> QED
  BY <1>1, <1>2, <1>3, <1>6, <1>7

\* A client with an operation list and no message is at the end or in a RECV.
LEMMA ClientWaits ==
    ASSUME Inv, NEW c \in Operators, op[c] > 0, qp[c].msgs = <<>>, forgotten[c] = 0
    PROVE  /\ op[c] \in 1 .. Len(program[c]) + 1
           /\ op[c] <= Len(program[c]) => program[c][op[c]] = Recv
           /\ announced[c] = SendsOf(program[c], op[c] - 1) /\ announced[c] \in Nat
           /\ RecvsOf(program[c], op[c] - 1) = SumFunctionOnSet(announced, Senders(c))
<1> DEFINE w == World
           list == program[c]
           n == op[c]
<1>1. w \in Worlds /\ AtWork(w, c)
  BY DEF Inv, Moving, Clients
<1>2. /\ w.program[c] = list /\ w.op[c] = n /\ w.announced = announced /\ w.forgotten[c] = 0
      /\ w.qp[c].msgs = <<>>
  BY WorldFields
<1> HIDE DEF w
<1>3. list \in Seq(Nat) /\ Len(list) \in Nat /\ n \in Nat /\ w.announced[c] \in Nat
  BY <1>1, <1>2, ProgramTypes
<1>4. n > 0
  OBVIOUS
<1> HIDE DEF list, n
<1>5. n \in 1 .. Len(list) + 1
  BY <1>1, <1>2, <1>3, <1>4 DEF AtWork
<1>6. ~Sending(w, c)
  <2>1. Len(<<>>) = 0
    OBVIOUS
  <2> QED
    BY <1>1, <1>2, <2>1 DEF AtWork
<1>7. n <= Len(list) => list[n] = Recv
  BY <1>2, <1>3, <1>5, <1>6 DEF Sending
<1>8. Before(w.op[c]) = n - 1
  BY <1>2, <1>3, <1>4 DEF Before
<1>9. w.announced[c] = SendsOf(list, n - 1)
  <2>1. SendsOf(list, n - 1) \in Nat
    BY <1>3, <1>4, SendsSteps
  <2>2. w.announced[c] = SendsOf(list, n - 1) + 0
    BY <1>1, <1>2, <1>6, <1>8 DEF AtWork
  <2> QED
    BY <2>1, <2>2
<1>10. RecvsOf(list, n - 1) = SumFunctionOnSet(w.announced, Senders(c))
  <2>1. RecvsOf(list, n - 1) \in Int
    <3>1. SendsOf(list, n - 1) \in Nat
      BY <1>3, <1>4, SendsSteps
    <3> QED
      BY <1>3, <3>1 DEF RecvsOf
  <2>2. RecvsOf(list, n - 1) + 0 = TellsOf(w, c)
    BY <1>1, <1>2, <1>8 DEF AtWork
  <2> QED
    BY <2>1, <2>2 DEF TellsOf
<1> QED
  BY <1>2, <1>3, <1>5, <1>7, <1>9, <1>10 DEF list, n

\* If the lists fit together, they are then at their ends.
LEMMA OperatorsFinished ==
    ASSUME ProgramsMatch, Inv, NoEventLeft, \A c \in Client : qp[c].msgs = <<>> /\ forgotten[c] = 0
    PROVE  \A c \in Operators : op[c] = Len(program[c]) + 1
<1>1. Operators \subseteq Client /\ IsFiniteSet(Client)
  BY ClientAssumption
<1>2. ASSUME NEW c \in Operators
      PROVE  /\ op[c] \in 1 .. Len(program[c]) + 1
             /\ op[c] <= Len(program[c]) => program[c][op[c]] = Recv
             /\ announced[c] = SendsOf(program[c], op[c] - 1) /\ announced[c] \in Nat
             /\ RecvsOf(program[c], op[c] - 1) = SumFunctionOnSet(announced, Senders(c))
  BY <1>1, ClientWaits DEF NoEventLeft
<1> DEFINE sent == [d \in Operators |-> SendsOf(program[d], op[d] - 1)]
<1>3. ASSUME NEW c \in Operators
      PROVE  SumFunctionOnSet(announced, Senders(c)) = SumFunctionOnSet(sent, Senders(c))
  <2>1. Senders(c) \subseteq Operators
    BY DEF ProgramsMatch
  <2>2. IsFiniteSet(Senders(c))
    BY <1>1, <2>1, FS_Subset
  <2>3. \A d \in Senders(c) : announced[d] \in Int /\ announced[d] = sent[d]
    BY <1>2, <2>1
  <2> HIDE DEF sent
  <2> QED
    BY <2>2, <2>3, SumSame
<1>4. AllWait(program, op)
  <2> SUFFICES ASSUME NEW c \in Operators
               PROVE  /\ op[c] \in 1 .. Len(program[c]) + 1
                      /\ op[c] <= Len(program[c]) => program[c][op[c]] = Recv
                      /\ RecvsOf(program[c], op[c] - 1) = SumFunctionOnSet(sent, Senders(c))
    BY Zenon DEF AllWait
  <2> HIDE DEF sent
  <2> QED
    BY <1>2, <1>3, Zenon
<1>5. program \in Programs /\ op \in [Operators -> Nat]
  <2> DEFINE w == World
  <2>1. w \in Worlds /\ w.program = program /\ w.op = op
    BY WorldFields DEF Inv, Moving
  <2> HIDE DEF w
  <2>2. w.program \in Programs /\ w.op \in [Operators -> Nat]
    BY <2>1 DEF Worlds
  <2> QED
    BY <2>1, <2>2, Zenon
<1>6. op \in [Operators -> UNION {1 .. Len(program[c]) + 1 : c \in Operators}]
  <2> DEFINE U == UNION {1 .. Len(program[c]) + 1 : c \in Operators}
  <2>1. \A c \in Operators : op[c] \in U
    BY <1>2
  <2> HIDE DEF U
  <2>2. op \in [Operators -> U]
    BY <1>5, <2>1
  <2> QED
    BY <2>2 DEF U
<1> QED
  BY <1>4, <1>5, <1>6, Zenon DEF ProgramsMatch

\* When the events run out every operation has completed and every flow is acknowledged,
\* unless an announcement was forgotten or a message is stranded: nothing below the lists
\* of operations can stop a client.
THEOREM EventsRunOut == ASSUME ProgramsMatch PROVE Spec => []RunsToTheEnd
<1>1. Inv => RunsToTheEnd
  <2> SUFFICES ASSUME Inv, NoEventLeft, \A c \in Client : ~(forgotten[c] > 0) /\ ~Stranded(c)
               PROVE  AllDone
    BY Zenon DEF RunsToTheEnd
  <2>1. \A c \in Client : qp[c].msgs = <<>>
    BY NothingQueued
  <2>2. \A c \in Client : flows[c] = 0
    BY DEF NoEventLeft
  <2>3. \A c \in Client : forgotten[c] = 0
    <3> DEFINE w == World
    <3>1. w \in Worlds /\ w.forgotten = forgotten
      BY WorldFields DEF Inv, Moving
    <3> HIDE DEF w
    <3>2. w.forgotten \in [Client -> Nat]
      BY <3>1 DEF Worlds
    <3> QED
      BY <3>1, <3>2
  <2>4. finished = FlowNum
    BY <2>1, <2>2, FlowsFinished
  <2>5. \A c \in Operators : op[c] = Len(program[c]) + 1
    BY <2>1, <2>3, OperatorsFinished
  <2> QED
    BY <2>1, <2>2, <2>4, <2>5, Zenon DEF AllDone
<1> QED
  BY <1>1, Invariance, PTL
=============================================================================
