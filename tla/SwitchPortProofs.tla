-------------------------- MODULE SwitchPortProofs --------------------------
(***************************************************************************)
(* For every switch that satisfies MmuAssumption and SwitchPortAssumption: *)
(* no port is idle while it may send, and every transmission starts at a   *)
(* transmitter that is READY.                                              *)
(*                                                                         *)
(* Both speak of the moment after nested calls; the invariants say what    *)
(* holds within them: a port that may send is called for (Attended), and   *)
(* the calls are at most two, of which the inner one finds a frame of      *)
(* class 0 at another port (Nested).                                       *)
(*                                                                         *)
(* Then, of the same switches: every queued packet is charged to the port  *)
(* it came in by, and PAUSE and RESUME reach a sender in turn (LinkInv).   *)
(***************************************************************************)
EXTENDS SwitchPort, SwitchMmuProofs, SequenceTheorems, TLAPS

CallType == [op : {"dequeue", "start"}, port : Port]
Frame == [kind : {"pfc", "other"}, class : Class \cup {0}, pause : BOOLEAN]

SpTyped ==
    /\ paused  \in PerQueue(BOOLEAN)
    /\ queue   \in [Port -> [Class -> Seq(Port \X Size)]]
    /\ control \in [Port -> Seq(Frame)]
    /\ halted  \in PerQueue(BOOLEAN)
    /\ busy    \in [Port -> BOOLEAN]
    /\ calls   \in Seq(CallType)

\* No packet waits at the port it came in by.
Away ==
    \A out \in Port, c \in Class :
        \A i \in 1 .. Len(queue[out][c]) : queue[out][c][i][1] # out

IdleAt(out) == control[out] = <<>> /\ \A c \in Class : ~Sendable(out, c)
Called(out) == \E i \in 1 .. Len(calls) : calls[i].port = out

\* A READY port that may send is called for.
Attended == \A out \in Port : ~busy[out] => Called(out) \/ IdleAt(out)

\* At most two calls run; the inner one sends from class 0 of another port.
Nested ==
    /\ Len(calls) <= 2
    /\ Len(calls) = 2 =>
          /\ calls[1].op = "dequeue"
          /\ control[calls[1].port] # <<>>
          /\ calls[1].port # calls[2].port
    /\ \A i \in 1 .. Len(calls) : calls[i].op = "start" => ~busy[calls[i].port]

SpInv == SpTyped /\ Away /\ Attended /\ Nested

----------------------------------------------------------------------------
LEMMA LastReturns ==
    ASSUME NEW S, NEW s \in Seq(S), NEW t \in Seq(S), Len(t) = 1
    PROVE  s \o Tail(t) = s
<1>1. t # <<>>
  BY EmptySeq
<1>2. Tail(t) \in Seq(S) /\ Len(Tail(t)) = 0
  BY <1>1, HeadTailProperties
<1>3. Tail(t) = <<>>
  BY <1>2, EmptySeq
<1> QED
  BY <1>3, ConcatEmptySeq

LEMMA OneOfTwo == ASSUME NEW n \in Nat, n # 0, n # 2, n <= 2 PROVE n = 1
OBVIOUS

LEMMA CallTypes ==
    ASSUME NEW p \in Port
    PROVE  /\ Dequeue(p) \in CallType /\ Dequeue(p).op = "dequeue" /\ Dequeue(p).port = p
           /\ Start(p) \in CallType /\ Start(p).op = "start" /\ Start(p).port = p
BY DEF Dequeue, Start, CallType

\* One call, or another before it
LEMMA PacketCalls ==
    ASSUME NEW S, NEW a \in S, NEW b \in S, NEW s, s = <<b>> \/ s = <<a, b>>
    PROVE  /\ s \in Seq(S)
           /\ Len(s) \in 1 .. 2 /\ Len(s) \in 1 .. Len(s)
           /\ s[Len(s)] = b
           /\ \A i \in 1 .. Len(s) : s[i] = a \/ s[i] = b
           /\ Len(s) = 2 => s[1] = a /\ s[2] = b
           /\ s = <<a, b>> => Len(s) = 2
           /\ s = <<b>> => Len(s) = 1
<1>1. CASE s = <<b>>
  BY <1>1
<1>2. CASE s = <<a, b>>
  BY <1>2
<1> QED
  BY <1>1, <1>2

\* One queue changes, and no packet is in the queue of the port it came in by.
LEMMA AwayKeeps ==
    ASSUME Away, NEW out \in Port, NEW c \in Class, NEW new,
           \A q \in Port : q # out => queue'[q] = queue[q],
           \A d \in Class : d # c => queue'[out][d] = queue[out][d],
           queue'[out][c] = new,
           \A i \in 1 .. Len(new) : new[i][1] # out
    PROVE  Away'
<1> SUFFICES ASSUME NEW q \in Port, NEW d \in Class, NEW i \in 1 .. Len(queue'[q][d])
             PROVE  queue'[q][d][i][1] # q
  BY Zenon DEF Away
<1>1. CASE q = out /\ d = c
  BY <1>1, Zenon
<1>2. CASE q # out \/ d # c
  <2>1. queue'[q][d] = queue[q][d]
    BY <1>2, Zenon
  <2> QED
    BY <2>1, ZenonT(30) DEF Away
<1> QED
  BY <1>1, <1>2

\* The first call returns.
LEMMA Return ==
    ASSUME calls \in Seq(CallType), calls # <<>>, calls' = Tail(calls)
    PROVE  /\ calls' \in Seq(CallType)
           /\ Len(calls') = Len(calls) - 1
           /\ \A i \in 1 .. Len(calls') : calls'[i] = calls[i + 1]
           /\ Head(calls) = calls[1] /\ Head(calls) \in CallType
           /\ \A out \in Port : Called(out) => Called(out)' \/ out = Head(calls).port
<1>1. /\ Len(calls') = Len(calls) - 1 /\ calls' \in Seq(CallType)
      /\ \A i \in 1 .. Len(calls') : calls'[i] = calls[i + 1]
      /\ Head(calls) = calls[1] /\ Head(calls) \in CallType
      /\ Len(calls) \in Nat
  OBVIOUS
<1>2. ASSUME NEW out \in Port, Called(out), out # Head(calls).port
      PROVE  Called(out)'
  <2>1. PICK i \in 1 .. Len(calls) : calls[i].port = out
    BY <1>2 DEF Called
  <2>2. i # 1 /\ i - 1 \in 1 .. Len(calls')
    BY <1>1, <1>2, <2>1
  <2>3. calls'[i - 1] = calls[i]
    BY <1>1, <2>2
  <2> QED
    BY <2>1, <2>2, <2>3 DEF Called
<1> QED
  BY <1>1, <1>2

\* What SendPfc queues
LEMMA SendPfcFacts ==
    ASSUME NEW p \in Port, NEW c \in Class, NEW next, SendPfc(p, c),
           control \in [Port -> Seq(Frame)], paused' \in PerQueue(BOOLEAN)
    PROVE  /\ control' \in [Port -> Seq(Frame)]
           /\ \A q \in Port : q # p => control'[q] = control[q]
           /\ \/ PfcThen(p, c, next) = <<next>> /\ control' = control
              \/ PfcThen(p, c, next) = <<Dequeue(p), next>> /\ control'[p] # <<>>
<1>1. paused'[p][c] \in BOOLEAN
  BY DEF PerQueue
<1>2. CASE paused'[p][c] = paused[p][c]
  <2>1. FrameFor(p, c) = <<>>
    BY <1>2 DEF FrameFor
  <2>2. control[p] \o <<>> = control[p]
    OBVIOUS
  <2>3. control' = control
    BY <2>1, <2>2 DEF SendPfc
  <2> QED
    BY <2>1, <2>3 DEF PfcThen
<1>3. CASE paused'[p][c] # paused[p][c]
  <2>1. FrameFor(p, c) = <<Pfc(c, paused'[p][c])>>
    BY <1>3 DEF FrameFor
  <2>2. Pfc(c, paused'[p][c]) \in Frame
    BY <1>1 DEF Pfc, Frame
  <2> DEFINE longer == control[p] \o FrameFor(p, c)
  <2>3. longer \in Seq(Frame) /\ longer # <<>>
    BY <2>1, <2>2
  <2>4. control' = [control EXCEPT ![p] = longer]
    BY DEF SendPfc
  <2>5. FrameFor(p, c) # <<>>
    BY <2>1
  <2> HIDE DEF longer
  <2> QED
    BY <2>3, <2>4, <2>5 DEF PfcThen
<1> QED
  BY <1>2, <1>3

----------------------------------------------------------------------------
\* The calls
LEMMA ControlKeeps ==
    ASSUME SpInv, calls # <<>>, NEW out \in Port, out = Head(calls).port,
           Head(calls).op = "dequeue", TransmitControl(out)
    PROVE  SpInv'
<1>1. /\ ~busy[out] /\ control[out] # <<>>
      /\ control' = [control EXCEPT ![out] = Tail(@)]
      /\ busy' = [busy EXCEPT ![out] = TRUE]
      /\ calls' = Tail(calls)
      /\ paused' = paused /\ queue' = queue /\ halted' = halted
  BY DEF TransmitControl, Ready, ControlNext, mmuVars
<1>2. SpTyped
  BY DEF SpInv
<1>3. calls \in Seq(CallType)
  BY <1>2 DEF SpTyped
<1>4. SpTyped'
  <2>1. control' \in [Port -> Seq(Frame)]
    BY <1>1, <1>2 DEF SpTyped
  <2>2. busy' \in [Port -> BOOLEAN]
    BY <1>1, <1>2, Zenon DEF SpTyped
  <2>3. calls' \in Seq(CallType)
    BY <1>1, <1>3, Return
  <2> QED
    BY <1>1, <1>2, <2>1, <2>2, <2>3, Zenon DEF SpTyped
<1>5. Away'
  BY <1>1 DEF SpInv, Away
<1>6. \A q \in Port : q # out => busy'[q] = busy[q] /\ control'[q] = control[q]
  BY <1>1, <1>2 DEF SpTyped
<1>7. Attended'
  <2> SUFFICES ASSUME NEW q \in Port, ~busy'[q] PROVE Called(q)' \/ IdleAt(q)'
    BY DEF Attended
  <2>1. q # out
    BY <1>1, <1>2 DEF SpTyped
  <2>2. Called(q) \/ IdleAt(q)
    BY <1>6, <2>1 DEF SpInv, Attended
  <2>3. IdleAt(q) => IdleAt(q)'
    BY <1>1, <1>6, <2>1 DEF IdleAt, Sendable
  <2> QED
    BY <1>1, <1>3, <2>1, <2>2, <2>3, Return
<1>8. Nested'
  <2>1. Nested
    BY DEF SpInv
  <2>2. Len(calls') <= 1
    BY <1>1, <1>3, <2>1, Return DEF Nested
  <2>3. Len(calls') <= 2 /\ Len(calls') # 2
    BY <1>1, <1>3, <2>1, Return DEF Nested
  <2>4. ASSUME NEW i \in 1 .. Len(calls'), calls'[i].op = "start" PROVE ~busy'[calls'[i].port]
    <3>1. i = 1 /\ Len(calls) = 2 /\ calls'[1] = calls[2] /\ calls[2] \in CallType
      BY <1>1, <1>3, <2>1, <2>2, Return DEF Nested
    <3>2. calls[2].port \in Port /\ calls[2].port # out /\ ~busy[calls[2].port]
      BY <1>3, <2>1, <2>4, <3>1 DEF Nested, CallType
    <3> QED
      BY <1>6, <3>1, <3>2
  <2> QED
    BY <2>3, <2>4, Zenon DEF Nested
<1> QED
  BY <1>4, <1>5, <1>7, <1>8 DEF SpInv

LEMMA NothingKeeps ==
    ASSUME SpInv, calls # <<>>, NEW out \in Port, out = Head(calls).port,
           Head(calls).op = "dequeue", TransmitNothing(out)
    PROVE  SpInv'
<1>1. /\ busy[out] \/ IdleAt(out)
      /\ calls' = Tail(calls)
      /\ paused' = paused /\ queue' = queue /\ control' = control
      /\ halted' = halted /\ busy' = busy
  BY DEF TransmitNothing, Ready, ControlNext, IdleAt, mmuVars
<1>2. SpTyped
  BY DEF SpInv
<1>3. calls \in Seq(CallType)
  BY <1>2 DEF SpTyped
<1>4. SpTyped'
  <2>1. calls' \in Seq(CallType)
    BY <1>1, <1>3, Return
  <2> QED
    BY <1>1, <1>2, <2>1, Zenon DEF SpTyped
<1>5. Away'
  BY <1>1 DEF SpInv, Away
<1>7. Attended'
  <2> SUFFICES ASSUME NEW q \in Port, ~busy'[q] PROVE Called(q)' \/ IdleAt(q)'
    BY DEF Attended
  <2>2. Called(q) \/ IdleAt(q)
    BY <1>1 DEF SpInv, Attended
  <2>3. IdleAt(q) => IdleAt(q)'
    BY <1>1 DEF IdleAt, Sendable
  <2>4. CASE q = out
    BY <1>1, <2>3, <2>4
  <2>5. CASE q # out
    BY <1>1, <1>3, <2>2, <2>3, <2>5, Return
  <2> QED
    BY <2>4, <2>5
<1>8. Nested'
  <2>1. Nested
    BY DEF SpInv
  <2>2. Len(calls') <= 1
    BY <1>1, <1>3, <2>1, Return DEF Nested
  <2>3. Len(calls') <= 2 /\ Len(calls') # 2
    BY <1>1, <1>3, <2>1, Return DEF Nested
  <2>4. ASSUME NEW i \in 1 .. Len(calls'), calls'[i].op = "start" PROVE ~busy'[calls'[i].port]
    <3>1. i + 1 \in 1 .. Len(calls) /\ calls'[i] = calls[i + 1]
      BY <1>1, <1>3, Return
    <3> QED
      BY <1>1, <2>1, <2>4, <3>1 DEF Nested
  <2> QED
    BY <2>3, <2>4, Zenon DEF Nested
<1> QED
  BY <1>4, <1>5, <1>7, <1>8 DEF SpInv

LEMMA StartKeeps ==
    ASSUME SpInv, calls # <<>>, NEW out \in Port, out = Head(calls).port,
           Head(calls).op = "start", TransmitStart(out)
    PROVE  SpInv'
<1>1. /\ busy' = [busy EXCEPT ![out] = TRUE]
      /\ calls' = Tail(calls)
      /\ paused' = paused /\ queue' = queue /\ control' = control /\ halted' = halted
  BY DEF TransmitStart, mmuVars
<1>2. SpTyped
  BY DEF SpInv
<1>3. calls \in Seq(CallType)
  BY <1>2 DEF SpTyped
<1>4. SpTyped'
  <2>1. busy' \in [Port -> BOOLEAN]
    BY <1>1, <1>2, Zenon DEF SpTyped
  <2>2. calls' \in Seq(CallType)
    BY <1>1, <1>3, Return
  <2> QED
    BY <1>1, <1>2, <2>1, <2>2, Zenon DEF SpTyped
<1>5. Away'
  BY <1>1 DEF SpInv, Away
<1>6. Nested /\ Len(calls) = 1
  <2>1. Nested
    BY DEF SpInv
  <2>2. Len(calls) # 2
    BY <1>1, <1>3, <2>1, Return DEF Nested
  <2> QED
    BY <1>1, <1>3, <2>1, <2>2, Return DEF Nested
<1>7. Attended'
  <2> SUFFICES ASSUME NEW q \in Port, ~busy'[q] PROVE Called(q)' \/ IdleAt(q)'
    BY DEF Attended
  <2>1. q # out /\ ~busy[q]
    BY <1>1, <1>2 DEF SpTyped
  <2>2. Called(q) \/ IdleAt(q)
    BY <2>1 DEF SpInv, Attended
  <2>3. IdleAt(q) => IdleAt(q)'
    BY <1>1 DEF IdleAt, Sendable
  <2> QED
    BY <1>1, <1>3, <2>1, <2>2, <2>3, Return
<1>8. Nested'
  <2>0. Len(calls') = 0
    BY <1>1, <1>3, <1>6, Return
  <2>1. Len(calls') <= 2 /\ Len(calls') # 2
    BY <2>0
  <2>2. ~\E i \in 1 .. Len(calls') : TRUE
    BY <1>1, <1>3, <1>6, Return
  <2> QED
    BY <2>1, <2>2, Zenon DEF Nested
<1> QED
  BY <1>4, <1>5, <1>7, <1>8 DEF SpInv

\* A data packet goes to port out, and a frame to port in may come first: what
\* TransmitData and Arrive have in common.
LEMMA PacketKeeps ==
    ASSUME SpInv, NEW in \in Port, NEW out \in Port, in # out, NEW c \in Class,
           NEW last \in CallType, last.port = out,
           last.op = "start" => ~busy[out],
           \A i \in 1 .. Len(calls) : calls[i].port = out,
           \/ calls' = <<last>> /\ control' = control
           \/ calls' = <<Dequeue(in), last>> /\ control'[in] # <<>>,
           control' \in [Port -> Seq(Frame)],
           \A q \in Port : q # in => control'[q] = control[q],
           paused' \in PerQueue(BOOLEAN),
           queue' \in [Port -> [Class -> Seq(Port \X Size)]],
           \A q \in Port : q # out => queue'[q] = queue[q],
           Away',
           halted' = halted, busy' = busy
    PROVE  SpInv'
<1>1. SpTyped
  BY DEF SpInv
<1>3. /\ Dequeue(in) \in CallType /\ Dequeue(in).op = "dequeue" /\ Dequeue(in).port = in
  BY CallTypes
<1>2. calls' = <<last>> \/ calls' = <<Dequeue(in), last>>
  OBVIOUS
<1>4. /\ Len(calls') \in 1 .. 2 /\ Len(calls') \in 1 .. Len(calls')
      /\ calls'[Len(calls')] = last
      /\ \A i \in 1 .. Len(calls') : calls'[i] = Dequeue(in) \/ calls'[i] = last
      /\ Len(calls') = 2 => calls'[1] = Dequeue(in) /\ calls'[2] = last
      /\ calls' = <<Dequeue(in), last>> => Len(calls') = 2
      /\ calls' = <<last>> => Len(calls') = 1
  BY <1>2, <1>3, PacketCalls
<1>5. calls' \in Seq(CallType)
  BY <1>2, <1>3, PacketCalls
<1>6. SpTyped'
  BY <1>1, <1>5, Zenon DEF SpTyped
<1>7. Called(out)'
  BY <1>4, Zenon DEF Called
<1>8. ASSUME NEW q \in Port, q # out, ~busy'[q]
      PROVE  Called(q)' \/ IdleAt(q)'
  <2>1. IdleAt(q)
    BY <1>8 DEF SpInv, Attended, Called
  <2>2. control'[q] = control[q] => IdleAt(q)'
    BY <1>8, <2>1 DEF IdleAt, Sendable
  <2>3. CASE control'[q] # control[q]
    <3>1. q = in /\ Len(calls') = 2
      BY <1>4, <2>3, Zenon
    <3>2. 1 \in 1 .. Len(calls')
      BY <3>1
    <3> QED
      <4>1. calls'[1] = Dequeue(in) /\ Dequeue(in).port = q
        BY <1>3, <1>4, <3>1, Zenon
      <4> QED
        BY <3>2, <4>1, Zenon DEF Called
  <2> QED
    BY <2>2, <2>3
<1>9. Attended'
  BY <1>7, <1>8 DEF Attended
<1>10. Nested'
  <2>1. Len(calls') <= 2
    BY <1>4
  <2>2. Len(calls') = 2 => control'[in] # <<>>
    <3>1. 1 # 2
      OBVIOUS
    <3> QED
      BY <1>4, <3>1, Zenon
  <2>3. Dequeue(in).op # "start"
    BY <1>3
  <2>4. \A i \in 1 .. Len(calls') : calls'[i].op = "start" => ~busy'[calls'[i].port]
    BY <1>4, <2>3, Zenon
  <2>5. Len(calls') = 2 => /\ calls'[1].op = "dequeue"
                           /\ control'[calls'[1].port] # <<>>
                           /\ calls'[1].port # calls'[2].port
    BY <1>3, <1>4, <2>2, Zenon
  <2> QED
    BY <2>1, <2>4, <2>5, Zenon DEF Nested
<1> QED
  BY <1>6, <1>9, <1>10 DEF SpInv, Away

LEMMA DataKeeps ==
    ASSUME SpInv, calls # <<>>, NEW out \in Port, out = Head(calls).port,
           Head(calls).op = "dequeue", NEW c \in Class, TransmitData(out, c)
    PROVE  SpInv'
<1>1. PICK in \in Port, psize \in Size :
          /\ Head(queue[out][c]) = <<in, psize>>
          /\ SwitchNotifyDequeue(in, c, psize)
          /\ SendPfc(in, c)
          /\ calls' = PfcThen(in, c, Start(out)) \o Tail(calls)
  BY DEF TransmitData
<1>2. /\ ~busy[out] /\ control[out] = <<>> /\ queue[out][c] # <<>>
      /\ queue' = [queue EXCEPT ![out][c] = Tail(@)]
      /\ halted' = halted /\ busy' = busy
  BY DEF TransmitData, Ready, ControlNext, Sendable
<1>3. SpTyped /\ Away /\ Nested
  BY DEF SpInv
<1>4. calls \in Seq(CallType) /\ Head(calls) = calls[1]
  BY <1>3 DEF SpTyped
<1>5. Len(calls) = 1
  <2>1. Len(calls) # 2
    BY <1>2, <1>3, <1>4 DEF Nested
  <2>2. Len(calls) \in Nat /\ Len(calls) # 0
    BY <1>4
  <2>3. Len(calls) <= 2
    BY <1>3 DEF Nested
  <2> QED
    BY <2>1, <2>2, <2>3, OneOfTwo, Zenon
<1>6. /\ Start(out) \in CallType /\ Start(out).port = out
      /\ \A i \in 1 .. Len(calls) : calls[i].port = out
  BY <1>4, <1>5, CallTypes
<1>7. queue[out][c] \in Seq(Port \X Size)
  BY <1>3 DEF SpTyped
<1>8. in # out
  <2>1. queue[out][c][1] = <<in, psize>> /\ 1 \in 1 .. Len(queue[out][c])
    <3>1. Head(queue[out][c]) = <<in, psize>>
      BY <1>1
    <3> QED
      BY <1>2, <1>7, <3>1
  <2> QED
    BY <1>3, <2>1 DEF Away
<1>9. paused' \in PerQueue(BOOLEAN)
  <2>1. paused' = paused \/ paused' = Put(paused, in, c, FALSE)
    BY <1>1 DEF SwitchNotifyDequeue
  <2>2. paused \in PerQueue(BOOLEAN)
    BY <1>3 DEF SpTyped
  <2>3. Put(paused, in, c, FALSE) \in PerQueue(BOOLEAN)
    BY <2>2, PutOne, Zenon
  <2> QED
    BY <2>1, <2>2, <2>3, Zenon
<1> DEFINE rest == Tail(queue[out][c])
<1>10. /\ rest \in Seq(Port \X Size)
       /\ \A i \in 1 .. Len(rest) : i + 1 \in 1 .. Len(queue[out][c]) /\ rest[i] = queue[out][c][i + 1]
  BY <1>2, <1>7
<1>11. queue' = [queue EXCEPT ![out] = [queue[out] EXCEPT ![c] = rest]]
  BY <1>2
<1> HIDE DEF rest
<1>12. /\ queue' \in [Port -> [Class -> Seq(Port \X Size)]]
       /\ \A q \in Port : q # out => queue'[q] = queue[q]
       /\ \A d \in Class : queue'[out][d] = IF d = c THEN rest ELSE queue[out][d]
  BY <1>3, <1>10, <1>11 DEF SpTyped
<1>13. Away'
  <2>1. \A i \in 1 .. Len(queue[out][c]) : queue[out][c][i][1] # out
    BY <1>3, Zenon DEF Away
  <2>2. \A i \in 1 .. Len(rest) : rest[i][1] # out
    BY <1>10, <2>1, Zenon
  <2>3. queue'[out][c] = rest /\ \A d \in Class : d # c => queue'[out][d] = queue[out][d]
    BY <1>12
  <2>4. Away /\ \A q \in Port : q # out => queue'[q] = queue[q]
    BY <1>3, <1>12, Zenon
  <2> QED
    BY <2>2, <2>3, <2>4, AwayKeeps
<1>14. /\ control' \in [Port -> Seq(Frame)]
       /\ \A q \in Port : q # in => control'[q] = control[q]
       /\ \/ PfcThen(in, c, Start(out)) = <<Start(out)>> /\ control' = control
          \/ PfcThen(in, c, Start(out)) = <<Dequeue(in), Start(out)>> /\ control'[in] # <<>>
  BY <1>1, <1>3, <1>9, SendPfcFacts DEF SpTyped
<1>15. calls' = PfcThen(in, c, Start(out))
  <2>1. PfcThen(in, c, Start(out)) \in Seq(CallType)
    BY <1>6, <1>14, PacketCalls, CallTypes
  <2> QED
    BY <1>1, <1>4, <1>5, <2>1, LastReturns, Zenon
<1>16. \/ calls' = <<Start(out)>> /\ control' = control
       \/ calls' = <<Dequeue(in), Start(out)>> /\ control'[in] # <<>>
  BY <1>14, <1>15, Zenon
<1>17. /\ \A q \in Port : q # in => control'[q] = control[q]
       /\ \A q \in Port : q # out => queue'[q] = queue[q]
       /\ Start(out).op = "start" => ~busy[out]
       /\ halted' = halted /\ busy' = busy
  BY <1>2, <1>12, <1>14, Zenon
<1>18. /\ control' \in [Port -> Seq(Frame)]
       /\ queue' \in [Port -> [Class -> Seq(Port \X Size)]]
  BY <1>12, <1>14, Zenon
<1> QED
  BY <1>6, <1>8, <1>9, <1>13, <1>16, <1>17, <1>18, PacketKeeps

LEMMA ArriveKeeps ==
    ASSUME SpInv, calls = <<>>, NEW f \in Flow, NEW psize \in Size,
           Arrive(f[1], f[2], f[3], psize)
    PROVE  SpInv'
<1>1. PICK in \in Port, out \in Port, c \in Class :
          /\ in = f[1] /\ out = f[2] /\ c = f[3] /\ in # out
  <2>1. f \in Port \X Port \X Class /\ f[1] # f[2]
    BY SwitchPortAssumption
  <2>2. f[1] \in Port /\ f[2] \in Port /\ f[3] \in Class
    BY <2>1
  <2> QED
    BY <2>1, <2>2, Zenon
<1>2. halted' = halted /\ busy' = busy
  BY DEF Arrive
<1>3. SpTyped /\ Away /\ Nested /\ Attended
  BY DEF SpInv
<1>4. CASE /\ Admit(in, c, psize)
           /\ SendPfc(in, c)
           /\ queue' = [queue EXCEPT ![out][c] = Append(@, <<in, psize>>)]
           /\ calls' = PfcThen(in, c, Dequeue(out))
  <2>1. paused' \in PerQueue(BOOLEAN)
    <3>1. paused' = paused \/ paused' = Put(paused, in, c, TRUE)
      BY <1>4 DEF Admit
    <3>2. paused \in PerQueue(BOOLEAN)
      BY <1>3 DEF SpTyped
    <3>3. Put(paused, in, c, TRUE) \in PerQueue(BOOLEAN)
      BY <3>2, PutOne, Zenon
    <3> QED
      BY <3>1, <3>2, <3>3, Zenon
  <2> DEFINE more == Append(queue[out][c], <<in, psize>>)
  <2>2. queue[out][c] \in Seq(Port \X Size)
    BY <1>3 DEF SpTyped
  <2>3. /\ more \in Seq(Port \X Size) /\ Len(more) = Len(queue[out][c]) + 1
        /\ \A i \in 1 .. Len(queue[out][c]) : more[i] = queue[out][c][i]
        /\ more[Len(more)] = <<in, psize>>
    BY <2>2
  <2>4. queue' = [queue EXCEPT ![out] = [queue[out] EXCEPT ![c] = more]]
    BY <1>4
  <2> HIDE DEF more
  <2>5. /\ queue' \in [Port -> [Class -> Seq(Port \X Size)]]
        /\ \A q \in Port : q # out => queue'[q] = queue[q]
        /\ \A d \in Class : queue'[out][d] = IF d = c THEN more ELSE queue[out][d]
    BY <1>3, <2>3, <2>4 DEF SpTyped
  <2>6. ASSUME NEW i \in 1 .. Len(more) PROVE more[i][1] # out
    <3>1. Len(queue[out][c]) \in Nat
      BY <2>2
    <3>2. i = Len(more) \/ i \in 1 .. Len(queue[out][c])
      BY <2>3, <3>1
    <3>3. CASE i \in 1 .. Len(queue[out][c])
      <4>1. more[i] = queue[out][c][i]
        BY <2>3, <3>3, Zenon
      <4>2. queue[out][c][i][1] # out
        BY <1>3, <3>3, Zenon DEF Away
      <4> QED
        BY <4>1, <4>2, Zenon
    <3>4. CASE i = Len(more)
      BY <1>1, <2>3, <3>4
    <3> QED
      BY <3>2, <3>3, <3>4
  <2>7. Away'
    <3>1. queue'[out][c] = more /\ \A d \in Class : d # c => queue'[out][d] = queue[out][d]
      BY <2>5
    <3>2. Away /\ \A q \in Port : q # out => queue'[q] = queue[q]
      BY <1>3, <2>5, Zenon
    <3> QED
      BY <2>6, <3>1, <3>2, AwayKeeps
  <2>8. Dequeue(out) \in CallType /\ Dequeue(out).port = out /\ Dequeue(out).op # "start"
    BY CallTypes
  <2>9. \A i \in 1 .. Len(calls) : calls[i].port = out
    OBVIOUS
  <2>10. /\ control' \in [Port -> Seq(Frame)]
         /\ \A q \in Port : q # in => control'[q] = control[q]
         /\ \/ calls' = <<Dequeue(out)>> /\ control' = control
            \/ calls' = <<Dequeue(in), Dequeue(out)>> /\ control'[in] # <<>>
    BY <1>3, <1>4, <2>1, SendPfcFacts DEF SpTyped
  <2>11. /\ \A q \in Port : q # out => queue'[q] = queue[q]
         /\ queue' \in [Port -> [Class -> Seq(Port \X Size)]]
         /\ halted' = halted /\ busy' = busy /\ in # out
    BY <1>1, <1>2, <2>5, Zenon
  <2> QED
    BY <2>1, <2>7, <2>8, <2>9, <2>10, <2>11, PacketKeeps
<1>5. CASE Drop(in, c, psize) /\ UNCHANGED <<queue, control, calls>>
  <2>1. paused' = paused /\ queue' = queue /\ control' = control /\ calls' = calls
    BY <1>5 DEF Drop
  <2> QED
    BY <1>2, <1>3, <2>1 DEF SpInv, SpTyped, Away, Attended, Called, IdleAt, Sendable, Nested
<1> QED
  BY <1>1, <1>4, <1>5 DEF Arrive, FlowIdTag

----------------------------------------------------------------------------
\* The other events end in a call for the port they concern, or in none.
LEMMA EventKeeps ==
    ASSUME SpInv, calls = <<>>, NEW out \in Port,
           calls' = <<>> \/ calls' = <<Dequeue(out)>>,
           paused' = paused, queue' = queue,
           control' \in [Port -> Seq(Frame)],
           halted' \in PerQueue(BOOLEAN),
           busy' \in [Port -> BOOLEAN],
           \A q \in Port : q # out \/ calls' = <<>> =>
              (~busy'[q] => ~busy[q]) /\ (IdleAt(q) => IdleAt(q)')
    PROVE  SpInv'
<1>1. SpTyped /\ Away /\ Attended
  BY DEF SpInv
<1>2. Dequeue(out) \in CallType /\ Dequeue(out).op # "start" /\ Dequeue(out).port = out
  BY CallTypes
<1>3. /\ calls' \in Seq(CallType) /\ Len(calls') <= 2 /\ Len(calls') # 2
      /\ \A i \in 1 .. Len(calls') : calls'[i].op # "start"
      /\ calls' = <<>> \/ Called(out)'
  <2>1. CASE calls' = <<>>
    BY <2>1
  <2>2. CASE calls' = <<Dequeue(out)>>
    <3>1. calls' \in Seq(CallType) /\ Len(calls') = 1 /\ calls'[1] = Dequeue(out)
      BY <1>2, <2>2
    <3> QED
      BY <1>2, <3>1 DEF Called
  <2> QED
    BY <2>1, <2>2
<1>4. SpTyped'
  BY <1>1, <1>3, Zenon DEF SpTyped
<1>5. Away'
  BY <1>1, Zenon DEF Away
<1>6. \A q \in Port : ~Called(q)
  BY DEF Called
<1>7. Attended'
  BY <1>1, <1>3, <1>6, Zenon DEF Attended
<1>8. Nested'
  BY <1>3, Zenon DEF Nested
<1> QED
  BY <1>4, <1>5, <1>7, <1>8 DEF SpInv

LEMMA ArriveControlKeeps ==
    ASSUME SpInv, calls = <<>>, NEW out \in Port, ArriveControl(out)
    PROVE  SpInv'
<1>1. /\ control' = [control EXCEPT ![out] = Append(@, OtherControl)]
      /\ calls' = <<Dequeue(out)>>
      /\ paused' = paused /\ queue' = queue /\ halted' = halted /\ busy' = busy
  BY DEF ArriveControl, mmuVars
<1>2. SpTyped
  BY DEF SpInv
<1>3. OtherControl \in Frame
  BY DEF OtherControl, Frame
<1>4. control' \in [Port -> Seq(Frame)] /\ \A q \in Port : q # out => control'[q] = control[q]
  BY <1>1, <1>2, <1>3 DEF SpTyped
<1>5. halted' \in PerQueue(BOOLEAN) /\ busy' \in [Port -> BOOLEAN]
  BY <1>1, <1>2, Zenon DEF SpTyped
<1>6. calls' # <<>>
  BY <1>1
<1>7. \A q \in Port : q # out => (IdleAt(q) => IdleAt(q)')
  BY <1>1, <1>4, Zenon DEF IdleAt, Sendable
<1> QED
  BY <1>1, <1>4, <1>5, <1>6, <1>7, EventKeeps

LEMMA CompleteKeeps ==
    ASSUME SpInv, calls = <<>>, NEW out \in Port, TransmitComplete(out)
    PROVE  SpInv'
<1>1. /\ busy' = [busy EXCEPT ![out] = FALSE]
      /\ calls' = <<Dequeue(out)>>
      /\ paused' = paused /\ queue' = queue /\ halted' = halted /\ control' = control
  BY DEF TransmitComplete, mmuVars
<1>2. SpTyped
  BY DEF SpInv
<1>3. busy' \in [Port -> BOOLEAN] /\ \A q \in Port : q # out => busy'[q] = busy[q]
  BY <1>1, <1>2, Zenon DEF SpTyped
<1>4. halted' \in PerQueue(BOOLEAN) /\ control' \in [Port -> Seq(Frame)]
  BY <1>1, <1>2, Zenon DEF SpTyped
<1>5. calls' # <<>>
  BY <1>1
<1>6. \A q \in Port : IdleAt(q) => IdleAt(q)'
  BY <1>1, Zenon DEF IdleAt, Sendable
<1> QED
  BY <1>1, <1>3, <1>4, <1>5, <1>6, EventKeeps

LEMMA PauseKeeps ==
    ASSUME SpInv, calls = <<>>, NEW out \in Port, NEW c \in Class, ReceivePause(out, c)
    PROVE  SpInv'
<1>1. /\ halted' = Put(halted, out, c, TRUE) /\ calls' = <<>>
      /\ paused' = paused /\ queue' = queue /\ control' = control /\ busy' = busy
  BY DEF ReceivePause, mmuVars
<1>2. SpTyped
  BY DEF SpInv
<1>3. /\ halted' \in PerQueue(BOOLEAN)
      /\ \A q \in Port, d \in Class : ~halted'[q][d] => ~halted[q][d]
  <2>1. halted \in PerQueue(BOOLEAN)
    BY <1>2 DEF SpTyped
  <2>2. /\ Put(halted, out, c, TRUE) \in PerQueue(BOOLEAN)
        /\ Put(halted, out, c, TRUE)[out][c] = TRUE
        /\ \A q \in Port, d \in Class :
              q # out \/ d # c => Put(halted, out, c, TRUE)[q][d] = halted[q][d]
    BY <2>1, PutOne, Zenon
  <2> QED
    BY <1>1, <2>2, Zenon
<1>4. busy' \in [Port -> BOOLEAN] /\ control' \in [Port -> Seq(Frame)]
  BY <1>1, <1>2, Zenon DEF SpTyped
<1>5. \A q \in Port : IdleAt(q) => IdleAt(q)'
  BY <1>1, <1>3, Zenon DEF IdleAt, Sendable
<1> QED
  BY <1>1, <1>3, <1>4, <1>5, EventKeeps

LEMMA ResumeKeeps ==
    ASSUME SpInv, calls = <<>>, NEW out \in Port, NEW c \in Class, Resume(out, c)
    PROVE  SpInv'
<1>1. /\ halted' = Put(halted, out, c, FALSE) /\ calls' = <<Dequeue(out)>>
      /\ paused' = paused /\ queue' = queue /\ control' = control /\ busy' = busy
  BY DEF Resume, mmuVars
<1>2. SpTyped
  BY DEF SpInv
<1>3. /\ halted' \in PerQueue(BOOLEAN)
      /\ \A q \in Port, d \in Class : q # out => halted'[q][d] = halted[q][d]
  <2>1. halted \in PerQueue(BOOLEAN)
    BY <1>2 DEF SpTyped
  <2>2. /\ Put(halted, out, c, FALSE) \in PerQueue(BOOLEAN)
        /\ \A q \in Port, d \in Class :
              q # out \/ d # c => Put(halted, out, c, FALSE)[q][d] = halted[q][d]
    BY <2>1, PutOne, Zenon
  <2> QED
    BY <1>1, <2>2, Zenon
<1>4. busy' \in [Port -> BOOLEAN] /\ control' \in [Port -> Seq(Frame)]
  BY <1>1, <1>2, Zenon DEF SpTyped
<1>5. calls' # <<>>
  BY <1>1
<1>6. \A q \in Port : q # out => (IdleAt(q) => IdleAt(q)')
  BY <1>1, <1>3, Zenon DEF IdleAt, Sendable
<1> QED
  BY <1>1, <1>3, <1>4, <1>5, <1>6, EventKeeps

\* What changes nothing of the ports
LEMMA SameKeeps ==
    ASSUME SpInv, paused' = paused, UNCHANGED portVars
    PROVE  SpInv'
BY DEF portVars, SpInv, SpTyped, Away, Attended, Called, IdleAt, Sendable, Nested

----------------------------------------------------------------------------
LEMMA SpInitInv == ASSUME SpInit PROVE SpInv
<1>1. paused \in PerQueue(BOOLEAN) /\ halted \in PerQueue(BOOLEAN)
  BY Zenon DEF SpInit, MmuInit, Everywhere, PerQueue
<1>2. busy \in [Port -> BOOLEAN]
  BY Zenon DEF SpInit
<1>3. /\ queue \in [Port -> [Class -> Seq(Port \X Size)]]
      /\ control \in [Port -> Seq(Frame)]
      /\ calls \in Seq(CallType)
      /\ \A out \in Port : control[out] = <<>> /\ \A c \in Class : queue[out][c] = <<>>
  BY DEF SpInit
<1>4. SpTyped
  BY <1>1, <1>2, <1>3, Zenon DEF SpTyped
<1>5. Away
  BY <1>3 DEF Away
<1>6. Attended
  BY <1>3, Zenon DEF Attended, IdleAt, Sendable
<1>7. Nested
  BY DEF SpInit, Nested
<1> QED
  BY <1>4, <1>5, <1>6, <1>7 DEF SpInv

LEMMA SpNextInv == ASSUME SpInv, [SpNext]_spVars PROVE SpInv'
<1>1. CASE Execute
  <2>1. calls # <<>> /\ Head(calls) \in CallType
    BY <1>1 DEF Execute, SpInv, SpTyped
  <2>2. PICK out \in Port : out = Head(calls).port
    BY <2>1 DEF CallType
  <2>3. CASE Head(calls).op = "dequeue" /\ TransmitControl(out)
    BY <2>1, <2>2, <2>3, ControlKeeps
  <2>4. CASE Head(calls).op = "dequeue" /\ TransmitNothing(out)
    BY <2>1, <2>2, <2>4, NothingKeeps
  <2>5. CASE Head(calls).op = "dequeue" /\ \E c \in Class : TransmitData(out, c)
    BY <2>1, <2>2, <2>5, DataKeeps
  <2>6. CASE Head(calls).op = "start" /\ TransmitStart(out)
    BY <2>1, <2>2, <2>6, StartKeeps
  <2> QED
    BY <1>1, <2>2, <2>3, <2>4, <2>5, <2>6 DEF Execute
<1>2. CASE calls = <<>> /\ Event
  <2>1. CASE \E f \in Flow, psize \in Size : Arrive(f[1], f[2], f[3], psize)
    BY <1>2, <2>1, ArriveKeeps
  <2>2. CASE \E p \in Port : ArriveControl(p)
    BY <1>2, <2>2, ArriveControlKeeps
  <2>3. CASE \E p \in Port : TransmitComplete(p)
    BY <1>2, <2>3, CompleteKeeps
  <2>4. CASE \E p \in Port : Deliver(p)
    BY <2>4, SameKeeps DEF Deliver, mmuVars
  <2>5. CASE \E f \in Flow : ReceivePause(f[2], f[3]) \/ Resume(f[2], f[3])
    <3>1. PICK out \in Port, c \in Class : ReceivePause(out, c) \/ Resume(out, c)
      BY <2>5, SwitchPortAssumption
    <3> QED
      BY <1>2, <3>1, PauseKeeps, ResumeKeeps
  <2> QED
    BY <1>2, <2>1, <2>2, <2>3, <2>4, <2>5 DEF Event
<1>3. CASE UNCHANGED spVars
  BY <1>3, SameKeeps DEF spVars, mmuVars
<1> QED
  BY <1>1, <1>2, <1>3 DEF SpNext

LEMMA SpInvariant == SpSpec => []SpInv
BY SpInitInv, SpNextInv, PTL DEF SpSpec

\* Between events no port that may send is READY, whatever the routes and the
\* number of ports: every enqueue, completion and Resume ends in a call for the
\* port, and a call that is overtaken by another one is still made.
THEOREM NoPortIdles == SpSpec => []NoIdlePort
<1>1. SpInv => NoIdlePort
  <2> SUFFICES ASSUME SpInv, calls = <<>>, NEW out \in Port, ~busy[out]
               PROVE  control[out] = <<>> /\ \A c \in Class : ~Sendable(out, c)
    BY DEF NoIdlePort
  <2>1. ~Called(out)
    BY DEF Called
  <2> QED
    BY <2>1 DEF SpInv, Attended, IdleAt
<1> QED
  BY <1>1, SpInvariant, PTL

\* The assertion of TransmitStart holds: a RESUME sent by SwitchNotifyDequeue runs
\* the transmitter of another port, never of the port whose packet is leaving,
\* because no route leads back to the port of arrival.
THEOREM TransmitterReady == SpSpec => []StartsWhenReady
<1>1. SpInv => StartsWhenReady
  <2> SUFFICES ASSUME SpInv, calls # <<>>, Head(calls).op = "start"
               PROVE  ~busy[Head(calls).port]
    BY DEF StartsWhenReady
  <2>1. Head(calls) = calls[1] /\ 1 \in 1 .. Len(calls)
    BY DEF SpInv, SpTyped
  <2> QED
    BY <2>1, Zenon DEF SpInv, Nested
<1> QED
  BY <1>1, SpInvariant, PTL

\* Each step of the switch with ports is a step of the buffer or leaves it alone,
\* so what is proved of SwitchMmu holds of its composition with the ports.
LEMMA SwitchPortRefines == SpSpec => MmuSpec
<1>1. SpInit => MmuInit
  BY DEF SpInit
<1>2. ASSUME [SpNext]_spVars PROVE [MmuNext]_mmuVars
  <2>1. CASE Execute
    <3>1. ASSUME NEW out, NEW c \in Class, TransmitData(out, c) PROVE MmuNext
      BY <3>1 DEF TransmitData, MmuNext
    <3> QED
      BY <2>1, <3>1 DEF Execute, TransmitControl, TransmitNothing, TransmitStart
  <2>2. CASE Event
    <3>1. ASSUME NEW f \in Flow, NEW psize \in Size, Arrive(f[1], f[2], f[3], psize)
          PROVE  MmuNext
      <4>1. f[1] \in Port /\ f[3] \in Class
        BY SwitchPortAssumption
      <4>2. SendToDev(f[1], f[3], psize)
        BY <3>1 DEF Arrive, SendToDev
      <4> QED
        BY <4>1, <4>2 DEF MmuNext
    <3> QED
      BY <2>2, <3>1 DEF Event, ArriveControl, TransmitComplete, Deliver, ReceivePause, Resume
  <2>3. CASE UNCHANGED spVars
    BY <2>3 DEF spVars, mmuVars
  <2> QED
    BY <1>2, <2>1, <2>2, <2>3 DEF SpNext
<1> QED
  BY <1>1, <1>2, PTL DEF SpSpec, MmuSpec

\* With its ports and the nested calls, too, the switch never leaves an empty queue
\* paused, refuses no packet that fits before PAUSE, charges what it stores, lets no
\* counter go below zero and keeps within its buffer.
THEOREM PortsKeepTheBuffer ==
    SpSpec => [](/\ PausedHolds /\ DropOnlyAfterPause
                 /\ Accounting /\ MmuTypeOK /\ BufferBound)
BY SwitchPortRefines, NoEmptyQueuePaused, NoDropBeforePause, AccountsBalance,
   CountersNeverWrap, BufferNeverOverflows, PTL

----------------------------------------------------------------------------
\* What one packet more, or the first packet less, does to the bytes of a queue
Bytes(p, q) == [i \in DOMAIN q |-> IF q[i][1] = p THEN q[i][2] ELSE 0]
Share(in, n, p) == IF in = p THEN n ELSE 0

LEMMA ShareType == ASSUME NEW in, NEW p, NEW n \in Int PROVE Share(in, n, p) \in Int
BY DEF Share

LEMMA BytesType ==
    ASSUME NEW q \in Seq(Port \X Size), NEW p
    PROVE  /\ DOMAIN q = 1 .. Len(q) /\ Len(q) \in Nat /\ IsFiniteSet(1 .. Len(q))
           /\ \A i \in 1 .. Len(q) :
                 Bytes(p, q)[i] \in Int /\ Bytes(p, q)[i] = Share(q[i][1], q[i][2], p)
           /\ BytesFrom(p, q) = SumFunctionOnSet(Bytes(p, q), 1 .. Len(q))
           /\ BytesFrom(p, q) \in Int
<1>1. DOMAIN q = 1 .. Len(q) /\ Len(q) \in Nat
  OBVIOUS
<1>2. IsFiniteSet(1 .. Len(q))
  BY <1>1, FS_Interval
<1>3. ASSUME NEW i \in 1 .. Len(q)
      PROVE  Bytes(p, q)[i] \in Int /\ Bytes(p, q)[i] = Share(q[i][1], q[i][2], p)
  <2>1. q[i] \in Port \X Size
    BY <1>1
  <2>2. q[i][2] \in Nat
    BY <2>1, MmuAssumption
  <2> QED
    BY <1>1, <2>2 DEF Bytes, Share
<1>4. BytesFrom(p, q) = SumFunctionOnSet(Bytes(p, q), 1 .. Len(q))
  BY <1>1, Zenon DEF BytesFrom, Bytes
<1>5. SumFunctionOnSet(Bytes(p, q), 1 .. Len(q)) \in Int
  BY <1>2, <1>3, SumType
<1> QED
  BY <1>1, <1>2, <1>3, <1>4, <1>5

LEMMA BytesAppend ==
    ASSUME NEW q \in Seq(Port \X Size), NEW in \in Port, NEW n \in Size, NEW p
    PROVE  BytesFrom(p, Append(q, <<in, n>>)) = BytesFrom(p, q) + Share(in, n, p)
<1> DEFINE r == Append(q, <<in, n>>)
           k == Len(q)
           f == Bytes(p, q)
           g == Bytes(p, r)
<1>1. /\ r \in Seq(Port \X Size) /\ Len(r) = k + 1 /\ k \in Nat
      /\ \A i \in 1 .. k : r[i] = q[i]
      /\ r[k + 1] = <<in, n>>
  OBVIOUS
<1> HIDE DEF r
<1>2. /\ BytesFrom(p, q) = SumFunctionOnSet(f, 1 .. k)
      /\ \A i \in 1 .. k : f[i] \in Int /\ f[i] = Share(q[i][1], q[i][2], p)
      /\ IsFiniteSet(1 .. k)
  BY BytesType
<1>3. /\ BytesFrom(p, r) = SumFunctionOnSet(g, 1 .. k + 1)
      /\ \A i \in 1 .. k + 1 : g[i] \in Int /\ g[i] = Share(r[i][1], r[i][2], p)
  <2>1. /\ BytesFrom(p, r) = SumFunctionOnSet(g, 1 .. Len(r))
        /\ \A i \in 1 .. Len(r) : g[i] \in Int /\ g[i] = Share(r[i][1], r[i][2], p)
    BY <1>1, BytesType, Zenon
  <2> QED
    BY <1>1, <2>1, Zenon
<1> HIDE DEF f, g, k
<1>4. 1 .. k + 1 = (1 .. k) \cup {k + 1} /\ k + 1 \notin 1 .. k
  BY <1>1
<1>5. \A i \in (1 .. k) \cup {k + 1} : g[i] \in Int
  BY <1>3, <1>4
<1>6. SumFunctionOnSet(g, (1 .. k) \cup {k + 1}) = g[k + 1] + SumFunctionOnSet(g, 1 .. k)
  BY <1>2, <1>4, <1>5, SumAdd
<1>7. \A i \in 1 .. k : f[i] \in Int /\ f[i] = g[i]
  <2>1. \A i \in 1 .. k : i \in 1 .. k + 1
    BY <1>1
  <2> QED
    BY <1>1, <1>2, <1>3, <2>1
<1>8. SumFunctionOnSet(f, 1 .. k) = SumFunctionOnSet(g, 1 .. k)
  BY <1>2, <1>7, SumSame
<1>9. g[k + 1] = Share(in, n, p)
  <2>1. k + 1 \in 1 .. k + 1
    BY <1>1
  <2> QED
    BY <1>1, <1>3, <2>1
<1>10. Share(in, n, p) \in Int /\ SumFunctionOnSet(f, 1 .. k) \in Int
  <2>1. n \in Int
    BY MmuAssumption
  <2> QED
    BY <1>2, <1>7, <2>1, SumType, ShareType
<1>11. BytesFrom(p, r) = BytesFrom(p, q) + Share(in, n, p)
  <2>1. BytesFrom(p, r) = Share(in, n, p) + BytesFrom(p, q)
    BY <1>2, <1>3, <1>4, <1>6, <1>8, <1>9, Zenon
  <2>2. BytesFrom(p, q) \in Int
    BY <1>2, <1>10, Zenon
  <2> QED
    BY <1>10, <2>1, <2>2
<1> QED
  BY <1>11 DEF r

LEMMA BytesTail ==
    ASSUME NEW q \in Seq(Port \X Size), q # <<>>, NEW p
    PROVE  BytesFrom(p, Tail(q)) = BytesFrom(p, q) - Share(Head(q)[1], Head(q)[2], p)
<1> DEFINE r == Tail(q)
           k == Len(r)
           f == Bytes(p, q)
           g == Bytes(p, r)
           b == [i \in 1 .. k |-> i + 1]
<1>1. /\ r \in Seq(Port \X Size) /\ Len(q) = k + 1 /\ k \in Nat
      /\ \A i \in 1 .. k : r[i] = q[i + 1]
      /\ Head(q) = q[1]
  OBVIOUS
<1> HIDE DEF r
<1>2. /\ BytesFrom(p, q) = SumFunctionOnSet(f, 1 .. k + 1)
      /\ \A i \in 1 .. k + 1 : f[i] \in Int /\ f[i] = Share(q[i][1], q[i][2], p)
      /\ IsFiniteSet(1 .. k + 1)
  <2>1. /\ BytesFrom(p, q) = SumFunctionOnSet(f, 1 .. Len(q))
        /\ \A i \in 1 .. Len(q) : f[i] \in Int /\ f[i] = Share(q[i][1], q[i][2], p)
        /\ IsFiniteSet(1 .. Len(q))
    BY BytesType, Zenon
  <2> QED
    BY <1>1, <2>1, Zenon
<1>3. /\ BytesFrom(p, r) = SumFunctionOnSet(g, 1 .. k)
      /\ \A i \in 1 .. k : g[i] \in Int /\ g[i] = Share(r[i][1], r[i][2], p)
      /\ IsFiniteSet(1 .. k)
  BY <1>1, BytesType, Zenon
<1> HIDE DEF f, g, k
<1>4. 1 \in 1 .. k + 1 /\ (1 .. k + 1) \ {1} = 2 .. k + 1
  BY <1>1
<1>5. SumFunctionOnSet(f, 1 .. k + 1) = f[1] + SumFunctionOnSet(f, 2 .. k + 1)
  <2>1. \A i \in 1 .. k + 1 : f[i] \in Int
    BY <1>2
  <2>2. SumFunctionOnSet(f, 1 .. k + 1) = f[1] + SumFunctionOnSet(f, (1 .. k + 1) \ {1})
    BY <1>2, <1>4, <2>1, SumRemove
  <2> QED
    BY <1>4, <2>2, Zenon
<1>6. b \in Bijection(1 .. k, 2 .. k + 1)
  <2>1. b \in [1 .. k -> 2 .. k + 1] /\ \A i \in 1 .. k : b[i] = i + 1
    BY <1>1
  <2>2. \A i, j \in 1 .. k : b[i] = b[j] => i = j
    BY <1>1
  <2>3. \A j \in 2 .. k + 1 : \E i \in 1 .. k : b[i] = j
    <3> SUFFICES ASSUME NEW j \in 2 .. k + 1 PROVE \E i \in 1 .. k : b[i] = j
      OBVIOUS
    <3>1. j - 1 \in 1 .. k /\ b[j - 1] = j
      BY <1>1
    <3> QED
      BY <3>1
  <2> QED
    BY <2>1, <2>2, <2>3 DEF Bijection, Injection, Surjection, IsInjective
<1>7. \A i \in 1 .. k : g[i] \in Int /\ f[b[i]] = g[i]
  <2> SUFFICES ASSUME NEW i \in 1 .. k PROVE g[i] \in Int /\ f[b[i]] = g[i]
    OBVIOUS
  <2>1. b[i] = i + 1 /\ i + 1 \in 1 .. k + 1 /\ r[i] = q[i + 1]
    BY <1>1
  <2> QED
    BY <1>2, <1>3, <2>1, Zenon
<1> HIDE DEF b
<1>8. SumFunctionOnSet(f, 2 .. k + 1) = SumFunctionOnSet(g, 1 .. k)
  <2> DEFINE U == 1 .. k
             V == 2 .. k + 1
  <2>1. IsFiniteSet(U) /\ b \in Bijection(U, V) /\ \A i \in U : g[i] \in Int /\ f[b[i]] = g[i]
    BY <1>3, <1>6, <1>7
  <2> HIDE DEF U, V
  <2>2. SumFunctionOnSet(f, V) = SumFunctionOnSet(g, U)
    BY <2>1, SumReindex
  <2> QED
    BY <2>2 DEF U, V
<1>9. SumFunctionOnSet(g, 1 .. k) \in Int
  BY <1>3, <1>7, SumType
<1>10. f[1] = Share(Head(q)[1], Head(q)[2], p) /\ f[1] \in Int
  BY <1>1, <1>2, <1>4
<1> QED
  BY <1>2, <1>3, <1>5, <1>8, <1>9, <1>10 DEF r

LEMMA PortChange ==
    ASSUME NEW u, NEW v, NEW x \in Port, NEW k, k \in Int, \A o \in Port : u[o] \in Int,
           v[x] = u[x] + k, \A o \in Port \ {x} : v[o] = u[o]
    PROVE  SumFunctionOnSet(v, Port) = SumFunctionOnSet(u, Port) + k
<1>1. IsFiniteSet(Port)
  BY MmuAssumption
<1> QED
  BY <1>1, SumChange, Zenon

\* A queue changes by n bytes of the port in, which is charged n more.
LEMMA ChargeMoves ==
    ASSUME QueuesCharged, stored \in PerQueue(Nat),
           queue \in [Port -> [Class -> Seq(Port \X Size)]],
           queue' \in [Port -> [Class -> Seq(Port \X Size)]],
           NEW in \in Port, NEW out \in Port, NEW c \in Class, NEW n \in Int,
           stored'[in][c] = stored[in][c] + n,
           \A p \in Port, d \in Class : p # in \/ d # c => stored'[p][d] = stored[p][d],
           \A p \in Port, d \in Class : p # out \/ d # c => queue'[p][d] = queue[p][d],
           \A p \in Port :
              BytesFrom(p, queue'[out][c]) = BytesFrom(p, queue[out][c]) + Share(in, n, p)
    PROVE  QueuesCharged'
<1> SUFFICES ASSUME NEW p \in Port, NEW d \in Class
             PROVE  stored'[p][d] =
                       SumFunctionOnSet([o \in Port |-> BytesFrom(p, queue'[o][d])], Port)
  BY Zenon DEF QueuesCharged
<1> DEFINE f == [o \in Port |-> BytesFrom(p, queue[o][d])]
           g == [o \in Port |-> BytesFrom(p, queue'[o][d])]
           m == IF d = c THEN Share(in, n, p) ELSE 0
<1>1. stored[p][d] = SumFunctionOnSet(f, Port)
  BY Zenon DEF QueuesCharged
<1>2. \A o \in Port : f[o] \in Int
  <2> SUFFICES ASSUME NEW o \in Port PROVE BytesFrom(p, queue[o][d]) \in Int
    OBVIOUS
  <2>1. queue[o][d] \in Seq(Port \X Size)
    OBVIOUS
  <2> QED
    BY <2>1, BytesType
<1>3. stored'[p][d] = stored[p][d] + m /\ m \in Int
  <2>1. stored[p][d] \in Nat
    BY DEF PerQueue
  <2>2. m \in Int
    BY ShareType
  <2>3. CASE p = in /\ d = c
    BY <2>1, <2>3 DEF Share
  <2>4. CASE p # in \/ d # c
    <3>1. m = 0 /\ stored'[p][d] = stored[p][d]
      BY <2>4 DEF Share
    <3> QED
      BY <2>1, <2>2, <3>1
  <2> QED
    BY <2>2, <2>3, <2>4
<1>4. \A o \in Port \ {out} : g[o] = f[o]
  BY Zenon
<1>5. g[out] = f[out] + m
  <2>1. CASE d = c
    BY <1>2, <2>1
  <2>2. CASE d # c
    <3>1. g[out] = f[out]
      BY <2>2, Zenon
    <3> QED
      BY <1>2, <2>2, <3>1
  <2> QED
    BY <2>1, <2>2
<1> HIDE DEF f, g, m
<1>6. SumFunctionOnSet(g, Port) = SumFunctionOnSet(f, Port) + m
  BY ONLY <1>2, <1>3, <1>4, <1>5, out \in Port, PortChange
<1>7. stored'[p][d] = SumFunctionOnSet(g, Port)
  BY <1>1, <1>3, <1>6
<1> QED
  BY <1>7 DEF g

LEMMA DataCharged ==
    ASSUME SpInv, MmuInv, QueuesCharged, NEW out \in Port, NEW c \in Class, TransmitData(out, c)
    PROVE  QueuesCharged'
<1>1. PICK in \in Port, psize \in Size :
          /\ Head(queue[out][c]) = <<in, psize>>
          /\ psize <= stored[in][c]
          /\ stored' = Add(stored, in, c, -psize)
  BY DEF TransmitData, SwitchNotifyDequeue
<1>2. queue[out][c] # <<>> /\ queue' = [queue EXCEPT ![out][c] = Tail(@)]
  BY DEF TransmitData, Sendable
<1>3. queue \in [Port -> [Class -> Seq(Port \X Size)]] /\ stored \in PerQueue(Nat)
  BY DEF SpInv, SpTyped, MmuInv, Typed
<1>4. psize \in Nat /\ -psize \in Int
  BY MmuAssumption
<1>5. /\ stored'[in][c] = stored[in][c] + -psize
      /\ \A p \in Port, d \in Class : p # in \/ d # c => stored'[p][d] = stored[p][d]
  <2>1. stored[in][c] + -psize \in Nat
    BY <1>1, <1>3, <1>4 DEF PerQueue
  <2> QED
    BY <1>1, <1>3, <1>4, <2>1, AddOne
<1> DEFINE less == Tail(queue[out][c])
<1>6. queue[out][c] \in Seq(Port \X Size) /\ less \in Seq(Port \X Size)
  BY <1>2, <1>3
<1>7. queue' = [queue EXCEPT ![out] = [queue[out] EXCEPT ![c] = less]]
  BY <1>2
<1>8. \A p \in Port : BytesFrom(p, less) = BytesFrom(p, queue[out][c]) + Share(in, -psize, p)
  <2> SUFFICES ASSUME NEW p \in Port
               PROVE  BytesFrom(p, less) = BytesFrom(p, queue[out][c]) + Share(in, -psize, p)
    OBVIOUS
  <2>0. Head(queue[out][c])[1] = in /\ Head(queue[out][c])[2] = psize
    BY <1>1
  <2>1. BytesFrom(p, less) = BytesFrom(p, queue[out][c]) - Share(in, psize, p)
    BY <1>2, <1>6, <2>0, BytesTail, Zenon
  <2>2. BytesFrom(p, queue[out][c]) \in Int
    BY <1>6, BytesType
  <2> HIDE DEF less
  <2> QED
    BY <1>4, <2>1, <2>2 DEF Share
<1> HIDE DEF less
<1>9. /\ queue' \in [Port -> [Class -> Seq(Port \X Size)]]
      /\ \A p \in Port, d \in Class : p # out \/ d # c => queue'[p][d] = queue[p][d]
      /\ queue'[out][c] = less
  BY <1>3, <1>6, <1>7
<1> QED
  BY <1>3, <1>4, <1>5, <1>8, <1>9, ChargeMoves, Zenon

LEMMA ArriveCharged ==
    ASSUME SpInv, MmuInv, QueuesCharged, NEW in \in Port, NEW out \in Port, NEW c \in Class,
           NEW psize \in Size, Arrive(in, out, c, psize)
    PROVE  QueuesCharged'
<1>1. CASE Drop(in, c, psize) /\ UNCHANGED <<queue, control, calls>>
  BY <1>1 DEF Drop, QueuesCharged
<1>2. CASE /\ stored' = Add(stored, in, c, psize)
           /\ queue' = [queue EXCEPT ![out][c] = Append(@, <<in, psize>>)]
  <2>3. queue \in [Port -> [Class -> Seq(Port \X Size)]] /\ stored \in PerQueue(Nat)
    BY DEF SpInv, SpTyped, MmuInv, Typed
  <2>4. psize \in Nat /\ psize \in Int
    BY MmuAssumption
  <2>5. /\ stored'[in][c] = stored[in][c] + psize
        /\ \A p \in Port, d \in Class : p # in \/ d # c => stored'[p][d] = stored[p][d]
    <3>1. stored[in][c] + psize \in Nat
      BY <2>3, <2>4 DEF PerQueue
    <3>2. /\ Add(stored, in, c, psize)[in][c] = stored[in][c] + psize
          /\ \A p \in Port, d \in Class :
                p # in \/ d # c => Add(stored, in, c, psize)[p][d] = stored[p][d]
      BY <2>3, <2>4, <3>1, AddOne, SMTT(30)
    <3> QED
      BY <1>2, <3>2, Zenon
  <2> DEFINE more == Append(queue[out][c], <<in, psize>>)
  <2>6. queue[out][c] \in Seq(Port \X Size) /\ more \in Seq(Port \X Size)
    BY <2>3
  <2>7. queue' = [queue EXCEPT ![out] = [queue[out] EXCEPT ![c] = more]]
    BY <1>2
  <2>8. \A p \in Port : BytesFrom(p, more) = BytesFrom(p, queue[out][c]) + Share(in, psize, p)
    <3>1. ASSUME NEW q \in Seq(Port \X Size), NEW p \in Port
          PROVE  BytesFrom(p, Append(q, <<in, psize>>)) = BytesFrom(p, q) + Share(in, psize, p)
      BY BytesAppend
    <3> QED
      BY <2>6, <3>1, Zenon
  <2> HIDE DEF more
  <2>9. /\ queue' \in [Port -> [Class -> Seq(Port \X Size)]]
        /\ \A p \in Port, d \in Class : p # out \/ d # c => queue'[p][d] = queue[p][d]
        /\ queue'[out][c] = more
    BY <2>3, <2>6, <2>7
  <2> QED
    BY <2>3, <2>4, <2>5, <2>8, <2>9, ChargeMoves, Zenon
<1> QED
  BY <1>1, <1>2 DEF Arrive, Admit, FlowIdTag

LEMMA SpNextCharged ==
    ASSUME SpInv, MmuInv, QueuesCharged, [SpNext]_spVars
    PROVE  QueuesCharged'
<1>1. CASE UNCHANGED <<stored, queue>>
  BY <1>1 DEF QueuesCharged
<1>2. CASE Execute
  <2>1. Head(calls) \in CallType
    BY <1>2 DEF Execute, SpInv, SpTyped
  <2>3. Head(calls).port \in Port
    BY <2>1 DEF CallType
  <2>2. CASE \E c \in Class : TransmitData(Head(calls).port, c)
    BY <2>2, <2>3, DataCharged
  <2> QED
    BY <1>1, <1>2, <2>2
       DEF Execute, TransmitControl, TransmitNothing, TransmitStart, mmuVars
<1>3. CASE Event
  <2>1. CASE \E f \in Flow, psize \in Size : Arrive(f[1], f[2], f[3], psize)
    <3>1. PICK f \in Flow, psize \in Size : Arrive(f[1], f[2], f[3], psize)
      BY <2>1
    <3>2. f[1] \in Port /\ f[2] \in Port /\ f[3] \in Class
      BY SwitchPortAssumption
    <3> QED
      BY <3>1, <3>2, ArriveCharged
  <2> QED
    BY <1>1, <1>3, <2>1 DEF Event, ArriveControl, TransmitComplete, Deliver, ReceivePause,
                            Resume, mmuVars, portVars
<1>4. CASE UNCHANGED spVars
  BY <1>1, <1>4 DEF spVars, mmuVars, portVars
<1> QED
  BY <1>2, <1>3, <1>4 DEF SpNext

LEMMA SpInitCharged == ASSUME SpInit PROVE QueuesCharged
<1> SUFFICES ASSUME NEW p \in Port, NEW c \in Class
             PROVE  stored[p][c] = SumFunctionOnSet([o \in Port |-> BytesFrom(p, queue[o][c])], Port)
  BY Zenon DEF QueuesCharged
<1> DEFINE f == [o \in Port |-> BytesFrom(p, queue[o][c])]
<1>1. stored[p][c] = 0
  BY DEF SpInit, MmuInit, Everywhere
<1>2. ASSUME NEW o \in Port PROVE f[o] = 0
  <2>1. queue[o][c] = <<>>
    BY DEF SpInit
  <2>2. <<>> \in Seq(Port \X Size) /\ Len(<<>>) = 0
    OBVIOUS
  <2>3. BytesFrom(p, <<>>) = SumFunctionOnSet(Bytes(p, <<>>), 1 .. 0)
    BY <2>2, BytesType
  <2>4. 1 .. 0 = {}
    OBVIOUS
  <2> QED
    BY <2>1, <2>3, <2>4, SumEmpty
<1> HIDE DEF f
<1>3. SumFunctionOnSet(f, Port) = Cardinality(Port) * 0
  BY <1>2, MmuAssumption, SumConstant
<1>4. Cardinality(Port) \in Nat
  BY MmuAssumption, FS_CardinalityType
<1>5. stored[p][c] = SumFunctionOnSet(f, Port)
  BY <1>1, <1>3, <1>4
<1> QED
  BY <1>5 DEF f

\* Whatever the routes, and however calls nest: the MMU holds for each port and
\* class exactly the bytes that wait in the egress queues with the tag of that port,
\* so SwitchNotifyDequeue never takes from a port more than it was charged.
THEOREM PacketsStayCharged == SpSpec => []QueuesCharged
<1>1. SpSpec => []MmuInv
  BY SwitchPortRefines, MmuInvariant, PTL
<1> QED
  BY <1>1, SpInvariant, SpInitCharged, SpNextCharged, PTL DEF SpSpec

----------------------------------------------------------------------------
\* What a sender hears of frames that are queued, or sent on
Says(f, c) == f.kind = "pfc" /\ f.class = c

LEMMA HeardNothing == ASSUME NEW c, NEW a \in BOOLEAN PROVE Heard(<<>>, c, a, a)
<1> DEFINE h == [i \in 0 .. 0 |-> a]
<1>1. h \in [0 .. Len(<<>>) -> BOOLEAN] /\ h[0] = a /\ h[Len(<<>>)] = a /\ 1 .. Len(<<>>) = {}
  OBVIOUS
<1> HIDE DEF h
<1> QED
  BY <1>1 DEF Heard

LEMMA HeardTypes ==
    ASSUME NEW s \in Seq(Frame), NEW c, NEW a, NEW b, Heard(s, c, a, b)
    PROVE  a \in BOOLEAN /\ b \in BOOLEAN
<1>1. PICK h \in [0 .. Len(s) -> BOOLEAN] : h[0] = a /\ h[Len(s)] = b
  BY DEF Heard
<1>2. 0 \in 0 .. Len(s) /\ Len(s) \in 0 .. Len(s)
  OBVIOUS
<1> QED
  BY <1>1, <1>2

\* One frame more at the end
LEMMA HeardAppend ==
    ASSUME NEW s \in Seq(Frame), NEW f \in Frame, NEW c, NEW a, NEW b, NEW d \in BOOLEAN,
           Heard(s, c, a, b),
           IF Says(f, c) THEN d = f.pause /\ d # b ELSE d = b
    PROVE  Heard(Append(s, f), c, a, d)
<1> DEFINE t == Append(s, f)
           n == Len(s)
<1>1. /\ n \in Nat /\ Len(t) = n + 1 /\ t[n + 1] = f
      /\ \A i \in 1 .. n : t[i] = s[i]
  OBVIOUS
<1>2. PICK h \in [0 .. n -> BOOLEAN] :
          /\ h[0] = a /\ h[n] = b
          /\ \A i \in 1 .. n :
                IF Says(s[i], c) THEN h[i] = s[i].pause /\ h[i] # h[i - 1] ELSE h[i] = h[i - 1]
  BY Zenon DEF Heard, Says
<1> HIDE DEF t, n
<1> DEFINE g == [i \in 0 .. n + 1 |-> IF i = n + 1 THEN d ELSE h[i]]
<1>3. /\ g \in [0 .. n + 1 -> BOOLEAN]
      /\ g[n + 1] = d
      /\ \A i \in 0 .. n : g[i] = h[i]
  BY <1>1, <1>2
<1>4. g[0] = a /\ g[n] = b
  BY <1>1, <1>2, <1>3
<1> HIDE DEF g
<1>5. ASSUME NEW i \in 1 .. n + 1
      PROVE  IF Says(t[i], c) THEN g[i] = t[i].pause /\ g[i] # g[i - 1] ELSE g[i] = g[i - 1]
  <2>1. CASE i = n + 1
    <3>1. i - 1 = n /\ t[i] = f /\ g[i] = d /\ g[i - 1] = b
      BY <1>1, <1>3, <1>4, <2>1
    <3> QED
      BY <3>1, Zenon
  <2>2. CASE i # n + 1
    <3>1. i \in 1 .. n /\ i \in 0 .. n /\ i - 1 \in 0 .. n
      BY <1>1, <2>2
    <3>2. t[i] = s[i] /\ g[i] = h[i] /\ g[i - 1] = h[i - 1]
      BY <1>1, <1>3, <3>1, Zenon
    <3> QED
      BY <1>2, <3>1, <3>2, Zenon
  <2> QED
    BY <2>1, <2>2
<1>6. Heard(t, c, a, d)
  <2>1. /\ g \in [0 .. Len(t) -> BOOLEAN] /\ g[0] = a /\ g[Len(t)] = d
        /\ \A i \in 1 .. Len(t) :
              IF Says(t[i], c) THEN g[i] = t[i].pause /\ g[i] # g[i - 1] ELSE g[i] = g[i - 1]
    BY <1>1, <1>3, <1>4, <1>5, Zenon
  <2> QED
    BY <2>1, Zenon DEF Heard, Says
<1> QED
  BY <1>6 DEF t

\* One frame less at the head
LEMMA HeardTail ==
    ASSUME NEW s \in Seq(Frame), s # <<>>, NEW c, NEW a, NEW b, Heard(s, c, a, b)
    PROVE  IF Says(Head(s), c)
           THEN Head(s).pause # a /\ Heard(Tail(s), c, Head(s).pause, b)
           ELSE Heard(Tail(s), c, a, b)
<1> DEFINE t == Tail(s)
           n == Len(t)
<1>1. /\ n \in Nat /\ Len(s) = n + 1 /\ Head(s) = s[1] /\ t \in Seq(Frame)
      /\ \A i \in 1 .. n : t[i] = s[i + 1]
  OBVIOUS
<1> HIDE DEF t
<1>2. PICK h \in [0 .. n + 1 -> BOOLEAN] :
          /\ h[0] = a /\ h[n + 1] = b
          /\ \A i \in 1 .. n + 1 :
                IF Says(s[i], c) THEN h[i] = s[i].pause /\ h[i] # h[i - 1] ELSE h[i] = h[i - 1]
  BY <1>1, Zenon DEF Heard, Says
<1> HIDE DEF n
<1> DEFINE g == [i \in 0 .. n |-> h[i + 1]]
<1>3. /\ g \in [0 .. n -> BOOLEAN]
      /\ \A i \in 0 .. n : g[i] = h[i + 1]
  BY <1>1, <1>2
<1> HIDE DEF g
<1>4. g[0] = h[1] /\ g[n] = b
  BY <1>1, <1>2, <1>3
<1>5. ASSUME NEW i \in 1 .. n
      PROVE  IF Says(t[i], c) THEN g[i] = t[i].pause /\ g[i] # g[i - 1] ELSE g[i] = g[i - 1]
  <2>1. i + 1 \in 1 .. n + 1 /\ i \in 0 .. n /\ i - 1 \in 0 .. n /\ (i + 1) - 1 = i /\ (i - 1) + 1 = i
    BY <1>1
  <2>2. t[i] = s[i + 1] /\ g[i] = h[i + 1] /\ g[i - 1] = h[(i - 1) + 1]
    BY <1>1, <1>3, <2>1, Zenon
  <2>3. IF Says(s[i + 1], c) THEN h[i + 1] = s[i + 1].pause /\ h[i + 1] # h[(i + 1) - 1]
                             ELSE h[i + 1] = h[(i + 1) - 1]
    BY <1>2, <2>1, Zenon
  <2> QED
    BY <2>1, <2>2, <2>3, Zenon
<1>6. Heard(t, c, h[1], b)
  BY <1>3, <1>4, <1>5, Zenon DEF Heard, Says, n
<1>7. IF Says(s[1], c) THEN h[1] = s[1].pause /\ h[1] # a ELSE h[1] = a
  <2>1. 1 \in 1 .. n + 1 /\ 1 - 1 = 0
    BY <1>1
  <2> QED
    BY <1>2, <2>1, Zenon
<1> QED
  BY <1>1, <1>6, <1>7, Zenon DEF t

\* One after the other
LEMMA HeardJoin ==
    ASSUME NEW s \in Seq(Frame), NEW t \in Seq(Frame), NEW c, NEW a, NEW m, NEW b,
           Heard(s, c, a, m), Heard(t, c, m, b)
    PROVE  Heard(s \o t, c, a, b)
<1> DEFINE u == s \o t
           k == Len(s)
           n == Len(t)
<1>1. /\ k \in Nat /\ n \in Nat /\ Len(u) = k + n
      /\ \A i \in 1 .. k : u[i] = s[i]
      /\ \A i \in 1 .. n : u[k + i] = t[i]
  OBVIOUS
<1>2. PICK h \in [0 .. k -> BOOLEAN] :
          /\ h[0] = a /\ h[k] = m
          /\ \A i \in 1 .. k :
                IF Says(s[i], c) THEN h[i] = s[i].pause /\ h[i] # h[i - 1] ELSE h[i] = h[i - 1]
  BY Zenon DEF Heard, Says
<1>3. PICK g \in [0 .. n -> BOOLEAN] :
          /\ g[0] = m /\ g[n] = b
          /\ \A i \in 1 .. n :
                IF Says(t[i], c) THEN g[i] = t[i].pause /\ g[i] # g[i - 1] ELSE g[i] = g[i - 1]
  BY Zenon DEF Heard, Says
<1> HIDE DEF u, k, n
<1> DEFINE j == [i \in 0 .. k + n |-> IF i <= k THEN h[i] ELSE g[i - k]]
<1>4. /\ j \in [0 .. k + n -> BOOLEAN]
      /\ \A i \in 0 .. k : j[i] = h[i]
  <2>1. \A i \in 0 .. k + n : ~(i <= k) => i - k \in 0 .. n
    BY <1>1
  <2> QED
    BY <1>1, <1>2, <1>3, <2>1
<1>5. \A i \in 0 .. n : j[k + i] = g[i]
  <2> SUFFICES ASSUME NEW i \in 0 .. n PROVE j[k + i] = g[i]
    OBVIOUS
  <2>1. k + i \in 0 .. k + n /\ (k + i) - k = i /\ (k + i <= k => i = 0 /\ k + i = k)
    BY <1>1
  <2>2. CASE i = 0
    BY <1>1, <1>2, <1>3, <2>1, <2>2
  <2>3. CASE i # 0
    BY <1>1, <2>1, <2>3
  <2> QED
    BY <2>2, <2>3
<1> HIDE DEF j
<1>6. j[0] = a /\ j[k + n] = b
  BY <1>1, <1>2, <1>3, <1>4, <1>5
<1>7. ASSUME NEW i \in 1 .. k + n
      PROVE  IF Says(u[i], c) THEN j[i] = u[i].pause /\ j[i] # j[i - 1] ELSE j[i] = j[i - 1]
  <2>1. CASE i <= k
    <3>1. i \in 1 .. k /\ i \in 0 .. k /\ i - 1 \in 0 .. k
      BY <1>1, <2>1
    <3>2. u[i] = s[i] /\ j[i] = h[i] /\ j[i - 1] = h[i - 1]
      BY <1>1, <1>4, <3>1, Zenon
    <3> QED
      BY <1>2, <3>1, <3>2, Zenon
  <2>2. CASE ~(i <= k)
    <3> DEFINE d == i - k
    <3>1. /\ d \in 1 .. n /\ d \in 0 .. n /\ d - 1 \in 0 .. n
          /\ i = k + d /\ i - 1 = k + (d - 1)
      BY <1>1, <2>2
    <3> HIDE DEF d
    <3>2. u[i] = t[d] /\ j[i] = g[d] /\ j[i - 1] = g[d - 1]
      BY <1>1, <1>5, <3>1, Zenon
    <3> QED
      BY <1>3, <3>1, <3>2, Zenon
  <2> QED
    BY <2>1, <2>2
<1>8. Heard(u, c, a, b)
  <2>1. /\ j \in [0 .. Len(u) -> BOOLEAN] /\ j[0] = a /\ j[Len(u)] = b
        /\ \A i \in 1 .. Len(u) :
              IF Says(u[i], c) THEN j[i] = u[i].pause /\ j[i] # j[i - 1] ELSE j[i] = j[i - 1]
    BY <1>1, <1>4, <1>6, <1>7, Zenon
  <2> QED
    BY <2>1, Zenon DEF Heard, Says
<1> QED
  BY <1>8 DEF u

----------------------------------------------------------------------------
LinkTyped ==
    /\ wire \in [Port -> Seq(Frame)]
    /\ told \in PerQueue(BOOLEAN)

\* What has left the port leads from what the sender was told to some m, and what
\* waits at the port leads from m to what the MMU holds.
InTurnAt(p, c) ==
    \E m : Heard(wire[p], c, told[p][c], m) /\ Heard(control[p], c, m, paused[p][c])

\* Only PFC frames are followed to the sender.
OnlyPfc == \A p \in Port : \A i \in 1 .. Len(wire[p]) : wire[p][i].kind = "pfc"

LinkInv == LinkTyped /\ OnlyPfc /\ \A p \in Port, c \in Class : InTurnAt(p, c)

LEMMA LinkInvAlternates == ASSUME SpInv, LinkInv PROVE FramesAlternate
<1> SUFFICES ASSUME NEW p \in Port, NEW c \in Class
             PROVE  Heard(wire[p] \o control[p], c, told[p][c], paused[p][c])
  BY Zenon DEF FramesAlternate
<1>1. wire[p] \in Seq(Frame) /\ control[p] \in Seq(Frame)
  BY DEF SpInv, SpTyped, LinkInv, LinkTyped
<1>2. PICK m : Heard(wire[p], c, told[p][c], m) /\ Heard(control[p], c, m, paused[p][c])
  BY Zenon DEF LinkInv, InTurnAt
<1> QED
  BY <1>1, <1>2, HeardJoin, Zenon

\* The MMU decides, and the decision is queued.
LEMMA SendPfcLink ==
    ASSUME SpInv, LinkInv, NEW p \in Port, NEW c \in Class, SendPfc(p, c),
           NEW b \in BOOLEAN, paused' = paused \/ paused' = Put(paused, p, c, b),
           UNCHANGED <<wire, told>>
    PROVE  LinkInv'
<1>1. LinkTyped' /\ OnlyPfc'
  BY DEF LinkInv, LinkTyped, OnlyPfc
<1>2. paused \in PerQueue(BOOLEAN) /\ control \in [Port -> Seq(Frame)]
  BY DEF SpInv, SpTyped
<1>3. /\ paused'[p][c] \in BOOLEAN
      /\ \A q \in Port, d \in Class : q # p \/ d # c => paused'[q][d] = paused[q][d]
  <2>1. CASE paused' = paused
    BY <1>2, <2>1 DEF PerQueue
  <2>2. CASE paused' = Put(paused, p, c, b)
    BY <1>2, <2>2, PutOne
  <2> QED
    BY <2>1, <2>2
<1>4. control' = [control EXCEPT ![p] = @ \o FrameFor(p, c)]
  BY DEF SendPfc
<1>5. ASSUME NEW q \in Port, NEW d \in Class PROVE InTurnAt(q, d)'
  <2>1. PICK m : Heard(wire[q], d, told[q][d], m) /\ Heard(control[q], d, m, paused[q][d])
    BY Zenon DEF LinkInv, InTurnAt
  <2>2. Heard(control'[q], d, m, paused'[q][d])
    <3>1. CASE q # p
      <4>1. control'[q] = control[q] /\ paused'[q][d] = paused[q][d]
        BY <1>2, <1>3, <1>4, <3>1
      <4> QED
        BY <2>1, <4>1
    <3>2. CASE q = p /\ paused'[p][c] = paused[p][c]
      <4>1. FrameFor(p, c) = <<>> /\ control[p] \o <<>> = control[p]
        BY <1>2, <3>2 DEF FrameFor
      <4>2. control'[q] = control[q]
        BY <1>2, <1>4, <3>2, <4>1
      <4>3. paused'[q][d] = paused[q][d]
        BY <1>3, <3>2, Zenon
      <4> QED
        BY <2>1, <4>2, <4>3
    <3>3. CASE q = p /\ paused'[p][c] # paused[p][c]
      <4> DEFINE f == Pfc(c, paused'[p][c])
      <4>1. f \in Frame /\ f.kind = "pfc" /\ f.class = c /\ f.pause = paused'[p][c]
        BY <1>3 DEF Pfc, Frame
      <4>2. FrameFor(p, c) = <<f>>
        BY <3>3 DEF FrameFor
      <4>3. control[p] \o <<f>> = Append(control[p], f) /\ control[p] \in Seq(Frame)
        BY <1>2, <4>1
      <4>4. control'[q] = Append(control[q], f)
        BY <1>2, <1>4, <3>3, <4>2, <4>3
      <4> HIDE DEF f
      <4>5. paused'[q][d] \in BOOLEAN
        <5>1. CASE d = c
          BY <1>3, <3>3, <5>1
        <5>2. CASE d # c
          <6>1. paused'[q][d] = paused[q][d]
            BY <1>3, <3>3, <5>2, Zenon
          <6> QED
            BY <1>2, <6>1 DEF PerQueue
        <5> QED
          BY <5>1, <5>2
      <4>6. IF Says(f, d) THEN paused'[q][d] = f.pause /\ paused'[q][d] # paused[q][d]
                          ELSE paused'[q][d] = paused[q][d]
        <5>1. CASE d = c
          BY <3>3, <4>1, <5>1, Zenon DEF Says
        <5>2. CASE d # c
          <6>1. ~Says(f, d)
            BY <4>1, <5>2, Zenon DEF Says
          <6> QED
            BY <1>3, <3>3, <5>2, <6>1, Zenon
        <5> QED
          BY <5>1, <5>2
      <4>7. control[q] \in Seq(Frame)
        BY <1>2
      <4> QED
        BY <2>1, <4>1, <4>4, <4>5, <4>6, <4>7, HeardAppend, Zenon
    <3> QED
      BY <3>1, <3>2, <3>3
  <2>3. wire' = wire /\ told' = told
    OBVIOUS
  <2> QED
    BY <2>1, <2>2, <2>3, Zenon DEF InTurnAt
<1> QED
  BY <1>1, <1>5 DEF LinkInv

\* The head of the queue of class 0 is sent: a PFC frame is on its way.
LEMMA ControlLink ==
    ASSUME SpInv, LinkInv, NEW out \in Port, TransmitControl(out)
    PROVE  LinkInv'
<1> DEFINE f == Head(control[out])
<1>1. /\ control[out] # <<>>
      /\ control' = [control EXCEPT ![out] = Tail(@)]
      /\ wire' = IF f.kind = "pfc" THEN [wire EXCEPT ![out] = Append(@, f)] ELSE wire
      /\ told' = told /\ paused' = paused
  BY DEF TransmitControl, ControlNext, mmuVars
<1>2. control \in [Port -> Seq(Frame)] /\ LinkTyped
  BY DEF SpInv, SpTyped, LinkInv
<1>3. control[out] \in Seq(Frame) /\ f \in Frame /\ wire[out] \in Seq(Frame)
  BY <1>1, <1>2 DEF LinkTyped
<1>4. control'[out] = Tail(control[out]) /\ \A q \in Port : q # out => control'[q] = control[q]
  BY <1>1, <1>2
<1> HIDE DEF f
<1>5. /\ wire' \in [Port -> Seq(Frame)]
      /\ wire'[out] = IF f.kind = "pfc" THEN Append(wire[out], f) ELSE wire[out]
      /\ \A q \in Port : q # out => wire'[q] = wire[q]
  BY <1>1, <1>2, <1>3 DEF LinkTyped
<1>6. LinkTyped' /\ OnlyPfc'
  <2>1. LinkTyped'
    BY <1>1, <1>2, <1>5 DEF LinkTyped
  <2>2. ASSUME NEW q \in Port, NEW i \in 1 .. Len(wire'[q]) PROVE wire'[q][i].kind = "pfc"
    <3>1. CASE wire'[q] = wire[q]
      BY <2>2, <3>1 DEF LinkInv, OnlyPfc
    <3>2. CASE f.kind = "pfc" /\ q = out
      <4>1. /\ wire'[q] = Append(wire[out], f) /\ Len(wire'[q]) = Len(wire[out]) + 1
            /\ wire'[q][Len(wire[out]) + 1] = f /\ Len(wire[out]) \in Nat
            /\ \A j \in 1 .. Len(wire[out]) : wire'[q][j] = wire[out][j]
        BY <1>3, <1>5, <3>2
      <4>2. i \in 1 .. Len(wire[out]) \/ i = Len(wire[out]) + 1
        BY <4>1
      <4>3. CASE i \in 1 .. Len(wire[out])
        BY <4>1, <4>3, Zenon DEF LinkInv, OnlyPfc
      <4> QED
        BY <3>2, <4>1, <4>2, <4>3
    <3> QED
      BY <1>5, <3>1, <3>2
  <2> QED
    BY <2>1, <2>2 DEF OnlyPfc
<1>7. ASSUME NEW q \in Port, NEW d \in Class PROVE InTurnAt(q, d)'
  <2>1. PICK m : Heard(wire[q], d, told[q][d], m) /\ Heard(control[q], d, m, paused[q][d])
    BY Zenon DEF LinkInv, InTurnAt
  <2>2. CASE q # out
    BY <1>1, <1>4, <1>5, <2>1, <2>2, Zenon DEF InTurnAt
  <2>3. CASE q = out
    <3>1. IF Says(f, d) THEN f.pause # m /\ Heard(control'[out], d, f.pause, paused[out][d])
                        ELSE Heard(control'[out], d, m, paused[out][d])
      <4>1. IF Says(Head(control[out]), d)
            THEN /\ Head(control[out]).pause # m
                 /\ Heard(Tail(control[out]), d, Head(control[out]).pause, paused[out][d])
            ELSE Heard(Tail(control[out]), d, m, paused[out][d])
        BY <1>1, <1>3, <2>1, <2>3, HeardTail, Zenon
      <4> QED
        BY <1>4, <4>1, Zenon DEF f
    <3>2. m \in BOOLEAN /\ f.pause \in BOOLEAN
      BY <1>3, <2>1, <2>3, HeardTypes DEF Frame
    <3>3. CASE Says(f, d)
      <4>1. wire'[out] = Append(wire[out], f)
        BY <1>5, <3>3 DEF Says
      <4>2. Heard(wire'[out], d, told[out][d], f.pause)
        BY <1>3, <2>1, <2>3, <3>1, <3>2, <3>3, <4>1, HeardAppend, Zenon
      <4> QED
        BY <1>1, <2>3, <3>1, <3>3, <4>2, Zenon DEF InTurnAt
    <3>4. CASE ~Says(f, d)
      <4>1. Heard(wire'[out], d, told[out][d], m)
        <5>1. CASE f.kind = "pfc"
          <6>1. wire'[out] = Append(wire[out], f)
            BY <1>5, <5>1
          <6> QED
            BY <1>3, <2>1, <2>3, <3>2, <3>4, <6>1, HeardAppend, Zenon
        <5>2. CASE f.kind # "pfc"
          BY <1>5, <2>1, <2>3, <5>2
        <5> QED
          BY <5>1, <5>2
      <4> QED
        BY <1>1, <2>3, <3>1, <3>4, <4>1, Zenon DEF InTurnAt
    <3> QED
      BY <3>3, <3>4
  <2> QED
    BY <2>2, <2>3
<1> QED
  BY <1>6, <1>7 DEF LinkInv

LEMMA ArriveControlLink ==
    ASSUME SpInv, LinkInv, NEW out \in Port, ArriveControl(out)
    PROVE  LinkInv'
<1>1. /\ control' = [control EXCEPT ![out] = Append(@, OtherControl)]
      /\ wire' = wire /\ told' = told /\ paused' = paused
  BY DEF ArriveControl, mmuVars
<1>2. OtherControl \in Frame /\ \A d : ~Says(OtherControl, d)
  BY DEF OtherControl, Frame, Says
<1>3. control \in [Port -> Seq(Frame)] /\ LinkTyped /\ paused \in PerQueue(BOOLEAN)
  BY DEF SpInv, SpTyped, LinkInv
<1>4. LinkTyped' /\ OnlyPfc'
  BY <1>1, <1>3 DEF LinkTyped, LinkInv, OnlyPfc
<1>5. ASSUME NEW q \in Port, NEW d \in Class PROVE InTurnAt(q, d)'
  <2>1. PICK m : Heard(wire[q], d, told[q][d], m) /\ Heard(control[q], d, m, paused[q][d])
    BY Zenon DEF LinkInv, InTurnAt
  <2>2. CASE q # out
    <3>1. control'[q] = control[q]
      BY <1>1, <1>3, <2>2
    <3> QED
      BY <1>1, <2>1, <3>1, Zenon DEF InTurnAt
  <2>3. CASE q = out
    <3>1. control'[q] = Append(control[q], OtherControl) /\ control[q] \in Seq(Frame)
      BY <1>1, <1>3, <2>3
    <3>2. paused[q][d] \in BOOLEAN
      BY <1>3 DEF PerQueue
    <3>3. Heard(control'[q], d, m, paused[q][d])
      BY <1>2, <2>1, <3>1, <3>2, HeardAppend, Zenon
    <3> QED
      BY <1>1, <2>1, <3>3, Zenon DEF InTurnAt
  <2> QED
    BY <2>2, <2>3
<1> QED
  BY <1>4, <1>5 DEF LinkInv

\* A frame reaches the sender.
LEMMA DeliverLink ==
    ASSUME SpInv, LinkInv, NEW p \in Port, Deliver(p)
    PROVE  LinkInv'
<1> DEFINE f == Head(wire[p])
<1>1. /\ wire[p] # <<>>
      /\ told' = Put(told, p, f.class, f.pause)
      /\ wire' = [wire EXCEPT ![p] = Tail(@)]
      /\ control' = control /\ paused' = paused
  BY DEF Deliver, mmuVars, portVars
<1>2. LinkTyped
  BY DEF LinkInv
<1>3. wire[p] \in Seq(Frame) /\ Tail(wire[p]) \in Seq(Frame) /\ f \in Frame
  BY <1>1, <1>2 DEF LinkTyped
<1>4. /\ wire' \in [Port -> Seq(Frame)] /\ wire'[p] = Tail(wire[p])
      /\ \A q \in Port : q # p => wire'[q] = wire[q]
  BY <1>1, <1>2, <1>3 DEF LinkTyped
<1>8. OnlyPfc' /\ f.kind = "pfc"
  <2>1. /\ Len(wire[p]) \in Nat \ {0} /\ Len(wire'[p]) = Len(wire[p]) - 1
        /\ f = wire[p][1]
        /\ \A i \in 1 .. Len(wire'[p]) : wire'[p][i] = wire[p][i + 1]
    BY <1>1, <1>3, <1>4
  <2>2. f.kind = "pfc"
    BY <2>1 DEF LinkInv, OnlyPfc
  <2>3. ASSUME NEW q \in Port, NEW i \in 1 .. Len(wire'[q]) PROVE wire'[q][i].kind = "pfc"
    <3>1. CASE q = p
      <4>1. wire'[q][i] = wire[p][i + 1] /\ i + 1 \in 1 .. Len(wire[p])
        BY <2>1, <3>1
      <4> QED
        BY <4>1 DEF LinkInv, OnlyPfc
    <3>2. CASE q # p
      BY <1>4, <2>3, <3>2 DEF LinkInv, OnlyPfc
    <3> QED
      BY <3>1, <3>2
  <2> QED
    BY <2>2, <2>3 DEF OnlyPfc
<1> HIDE DEF f
<1>5. f.pause \in BOOLEAN
  BY <1>3 DEF Frame
<1>6. /\ told' \in PerQueue(BOOLEAN)
      /\ \A q \in Port : q # p => told'[q] = told[q]
      /\ \A d \in Class : told'[p][d] = IF d = f.class THEN f.pause ELSE told[p][d]
  <2>1. told \in [Port -> [Class -> BOOLEAN]]
    BY <1>2 DEF LinkTyped, PerQueue
  <2>2. told' = [told EXCEPT ![p] = [told[p] EXCEPT ![f.class] = f.pause]]
    BY <1>1 DEF Put
  <2> DEFINE row == [told[p] EXCEPT ![f.class] = f.pause]
  <2>3. row \in [Class -> BOOLEAN] /\ \A d \in Class : row[d] = IF d = f.class THEN f.pause ELSE told[p][d]
    BY <1>5, <2>1, Zenon
  <2> HIDE DEF row
  <2>4. told' = [told EXCEPT ![p] = row]
    BY <2>2 DEF row
  <2> QED
    BY <2>1, <2>3, <2>4 DEF PerQueue
<1>7. ASSUME NEW q \in Port, NEW d \in Class PROVE InTurnAt(q, d)'
  <2>1. PICK m : Heard(wire[q], d, told[q][d], m) /\ Heard(control[q], d, m, paused[q][d])
    BY Zenon DEF LinkInv, InTurnAt
  <2>2. CASE q # p
    BY <1>1, <1>4, <1>6, <2>1, <2>2, Zenon DEF InTurnAt
  <2>3. CASE q = p
    <3>1. IF Says(f, d) THEN Heard(wire'[p], d, f.pause, m) ELSE Heard(wire'[p], d, told[p][d], m)
      BY <1>1, <1>3, <1>4, <2>1, <2>3, HeardTail, Zenon DEF f
    <3>2. Heard(wire'[p], d, told'[p][d], m)
      <4>1. told'[p][d] = IF Says(f, d) THEN f.pause ELSE told[p][d]
        BY <1>6, <1>8, Zenon DEF Says
      <4> QED
        BY <3>1, <4>1, Zenon
    <3> QED
      BY <1>1, <2>1, <2>3, <3>2, Zenon DEF InTurnAt
  <2> QED
    BY <2>2, <2>3
<1> QED
  BY <1>4, <1>6, <1>7, <1>8 DEF LinkInv, LinkTyped

LEMMA SameLink ==
    ASSUME LinkInv, UNCHANGED <<wire, told, control, paused>>
    PROVE  LinkInv'
BY DEF LinkInv, LinkTyped, OnlyPfc, InTurnAt

LEMMA LinkInitInv == ASSUME SpInit PROVE LinkInv
<1>1. told \in PerQueue(BOOLEAN)
  BY Zenon DEF SpInit, Everywhere, PerQueue
<1>2. \A p \in Port : wire[p] = <<>> /\ control[p] = <<>>
  BY DEF SpInit
<1>3. wire \in [Port -> Seq(Frame)]
  BY DEF SpInit
<1>4. OnlyPfc
  BY <1>2 DEF OnlyPfc
<1>5. ASSUME NEW p \in Port, NEW c \in Class PROVE InTurnAt(p, c)
  <2>1. told[p][c] = FALSE /\ paused[p][c] = FALSE
    BY DEF SpInit, MmuInit, Everywhere
  <2>2. Heard(<<>>, c, FALSE, FALSE)
    BY HeardNothing
  <2> QED
    BY <1>2, <2>1, <2>2, Zenon DEF InTurnAt
<1> QED
  BY <1>1, <1>3, <1>4, <1>5 DEF LinkInv, LinkTyped

LEMMA LinkNextInv == ASSUME SpInv, LinkInv, [SpNext]_spVars PROVE LinkInv'
<1>1. CASE Execute
  <2>1. Head(calls) \in CallType
    BY <1>1 DEF Execute, SpInv, SpTyped
  <2>2. Head(calls).port \in Port
    BY <2>1 DEF CallType
  <2>3. ASSUME NEW out \in Port, NEW c \in Class, TransmitData(out, c) PROVE LinkInv'
    <3>1. PICK in \in Port, psize \in Size : SwitchNotifyDequeue(in, c, psize) /\ SendPfc(in, c)
      BY <2>3 DEF TransmitData
    <3>2. paused' = paused \/ paused' = Put(paused, in, c, FALSE)
      BY <3>1 DEF SwitchNotifyDequeue
    <3>3. UNCHANGED <<wire, told>>
      BY <2>3 DEF TransmitData, linkVars
    <3> QED
      BY <3>1, <3>2, <3>3, SendPfcLink
  <2>4. CASE TransmitControl(Head(calls).port)
    BY <2>2, <2>4, ControlLink
  <2>5. CASE TransmitNothing(Head(calls).port) \/ TransmitStart(Head(calls).port)
    BY <2>5, SameLink DEF TransmitNothing, TransmitStart, mmuVars, linkVars
  <2> QED
    BY <1>1, <2>2, <2>3, <2>4, <2>5 DEF Execute
<1>2. CASE Event
  <2>1. ASSUME NEW in \in Port, NEW out \in Port, NEW c \in Class, NEW psize \in Size,
               Arrive(in, out, c, psize)
        PROVE  LinkInv'
    <3>1. UNCHANGED <<wire, told>>
      BY <2>1 DEF Arrive
    <3>2. CASE Admit(in, c, psize) /\ SendPfc(in, c)
      <4>1. paused' = paused \/ paused' = Put(paused, in, c, TRUE)
        BY <3>2 DEF Admit
      <4> QED
        BY <3>1, <3>2, <4>1, SendPfcLink
    <3>3. CASE Drop(in, c, psize) /\ UNCHANGED <<queue, control, calls>>
      BY <3>1, <3>3, SameLink DEF Drop
    <3> QED
      BY <2>1, <3>2, <3>3 DEF Arrive
  <2>2. CASE \E f \in Flow, psize \in Size : Arrive(f[1], f[2], f[3], psize)
    <3>1. PICK f \in Flow, psize \in Size : Arrive(f[1], f[2], f[3], psize)
      BY <2>2
    <3>2. f[1] \in Port /\ f[2] \in Port /\ f[3] \in Class
      BY SwitchPortAssumption
    <3> QED
      BY <2>1, <3>1, <3>2
  <2>3. CASE \E p \in Port : ArriveControl(p)
    BY <2>3, ArriveControlLink
  <2>4. CASE \E p \in Port : Deliver(p)
    BY <2>4, DeliverLink
  <2>5. CASE \E p \in Port : TransmitComplete(p)
    BY <2>5, SameLink DEF TransmitComplete, mmuVars, linkVars
  <2>6. CASE \E f \in Flow : ReceivePause(f[2], f[3]) \/ Resume(f[2], f[3])
    BY <2>6, SameLink DEF ReceivePause, Resume, mmuVars, linkVars
  <2> QED
    BY <1>2, <2>2, <2>3, <2>4, <2>5, <2>6 DEF Event
<1>3. CASE UNCHANGED spVars
  BY <1>3, SameLink DEF spVars, mmuVars, portVars, linkVars
<1> QED
  BY <1>1, <1>2, <1>3 DEF SpNext

\* Whatever waits in the queues of class 0 and however often the MMU decides again
\* in the meantime, the sender at a port hears PAUSE and RESUME of a class in turn,
\* and in the end what the MMU holds.
THEOREM PauseAndResumeAlternate == SpSpec => []FramesAlternate
BY SpInvariant, LinkInitInv, LinkNextInv, LinkInvAlternates, PTL DEF SpSpec
=============================================================================
