----------------------------- MODULE MCMtpKernel -----------------------------
(* Three systems in a row, 1 -- 2 -- 3, two workers and the main thread. *)
EXTENDS MtpKernel

Workers == {"w1", "w2"}
Sorted == {[i \in 0 .. 2 |-> i + 1], [i \in 0 .. 2 |-> 3 - i]}

Links == {<<1, 2>>, <<2, 1>>, <<2, 3>>, <<3, 2>>}
Delays3 == [l \in Links |-> IF 3 \in {l[1], l[2]} THEN 1 ELSE 2]

\* A packet from system 1 is forwarded by 2 and answered by 3; 3 sends one too; the
\* script starts a message at 2, and stops.
Homes == [send1 |-> 1, fwd |-> 2, last |-> 3, send3 |-> 3, data |-> 2, timer |-> 2,
          got |-> 1, push |-> 2, script |-> 0, stop |-> 0]
Kinds == DOMAIN Homes
Handlers == [
    send1  |-> <<[kind |-> "fwd", after |-> 2]>>,
    fwd    |-> <<[kind |-> "last", after |-> 1]>>,
    last   |-> <<>>,
    send3  |-> <<[kind |-> "data", after |-> 1]>>,
    data   |-> <<[kind |-> "timer", after |-> 0], [kind |-> "got", after |-> 2]>>,
    timer  |-> <<>>,
    got    |-> <<>>,
    push   |-> <<[kind |-> "last", after |-> 2]>>,
    script |-> <<[kind |-> "push", after |-> 0]>>,
    stop   |-> <<>>]

At(ts, kind) == [ts |-> ts, kind |-> kind]
Own(ts, uid_, kind) == [ts |-> ts, uid |-> uid_, kind |-> kind]
None == [s \in Lp |-> <<>>]
\* Two packets that meet at 2 at the same time, one of them from an event that time 0
\* left for time 0, or sent at time 0 itself; a script that acts at that time; one that
\* stops the simulation with events of that time and later ones still to run; two events
\* and a script of the same time in the list from before Run; a packet that must
\* overtake a timer
Meet == Partition({Own(0, 0, "send1")}, None, <<At(1, "send3")>>, 1)
Sent == Partition({}, [None EXCEPT ![1] = <<[sent |-> 0, uid |-> 0, ts |-> 2, kind |-> "fwd"]>>],
                  <<At(1, "send3")>>, 0)
Script == Partition({}, None, <<At(1, "send1"), At(2, "script")>>, 0)
Stop == Partition({}, None, <<At(1, "send1"), At(1, "send3"), At(2, "stop")>>, 0)
Tied == Partition({}, None, <<At(1, "timer"), At(1, "script"), At(1, "timer"), At(1, "send3")>>, 0)
Ahead == Partition({}, None, <<At(1, "send3"), At(3, "timer")>>, 0)
Left == {Meet, Sent, Script, Stop, Tied, Ahead}

\* Two events of one time at one system, in the list from before Run
TwoAtOnce == {Partition({}, None, <<At(1, "timer"), At(1, "data")>>, 0)}

HalfTime == 20

=============================================================================
