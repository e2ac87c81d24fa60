----------------------------- MODULE MtpKernel -----------------------------
(***************************************************************************)
(* The multithreaded simulator: LogicalProcess, one per system, under the  *)
(* threads of MtpWorkers.  A system keeps its own event list and clock.    *)
(* In stage 1 it runs its events up to a granted time: the smallest time   *)
(* of the next events of all systems plus the delay of its shortest link,  *)
(* but no later than the next event of the public system.  What it         *)
(* schedules on itself goes into its list, what it schedules on another    *)
(* system into a mailbox there, one per sender, which the owner empties in *)
(* stage 3.  The public system 0 (events without a node: those a script    *)
(* schedules) runs in stage 2, alone.                                      *)
(*                                                                         *)
(* A handler is the list of the calls to schedule it makes; each call is a *)
(* step, and those of systems that run at the same time interleave.  Only  *)
(* the public system stops the simulation: Simulator::Stop (delay) is      *)
(* called by a script, without a node.  Event numbers, and with them ties  *)
(* between events of one time, are in; cancelling events is not.           *)
(***************************************************************************)
EXTENDS MtpWorkers, Sequences

CONSTANTS
    Link,           \* pairs of systems with a link that Partition() has cut
    Delay,          \* Delay[l]: its delay
    Kind,           \* handlers of events
    Home,           \* Home[k]: the system that runs events of kind k
    Calls,          \* Calls[k]: what the handler schedules, [kind, after]
    Stops,          \* kinds that call Simulator::Stop
    Starts,         \* what Partition() may leave, see there
    Half            \* Time::Max () / 2

Lp == 0 .. N
Event == [ts : Nat, uid : Nat, kind : Kind]
Message == [sent : Nat, uid : Nat, ts : Nat, kind : Kind]
Call == [kind : Kind, after : Nat]

\* A call for another system is a packet on a link, or comes from the public system.
ASSUME KernelAssumption ==
    /\ Link \subseteq System \X System /\ \A l \in Link : <<l[2], l[1]>> \in Link
    /\ Delay \in [Link -> Nat] /\ \A l \in Link : Delay[<<l[2], l[1]>>] = Delay[l]
    /\ Home \in [Kind -> Lp]
    /\ Calls \in [Kind -> Seq(Call)]
    /\ \A k \in Kind : \A i \in DOMAIN Calls[k] :
        LET c == Calls[k][i]
        IN  Home[k] # 0 /\ Home[c.kind] # Home[k] =>
                <<Home[k], Home[c.kind]>> \in Link /\ c.after >= Delay[<<Home[k], Home[c.kind]>>]
    /\ \A k \in Stops : Home[k] = 0
    /\ Starts \subseteq [events : [Lp -> SUBSET Event],
                         mail : [System -> [Lp -> Seq(Message)]], uid : [Lp -> Nat]]
    /\ \A start \in Starts :
        /\ \A s \in Lp : \A e \in start.events[s] : Home[e.kind] = s /\ e.uid < start.uid[s]
        /\ \A d \in System, s \in Lp : \A i \in DOMAIN start.mail[d][s] :
              Home[start.mail[d][s][i].kind] = d
    /\ Half \in Nat \ {0}

VARIABLES
    events,         \* m_events
    mailbox,        \* mailbox[d][s]: messages of s for d, in the order they were sent
    now,            \* m_currentTs
    uid,            \* m_uid
    call,           \* the handler a system is in and the call it makes next
    stopped,        \* m_stop, which Stop sets in every system
    smallest,       \* g_smallestTime
    nextPublic      \* g_nextPublicTime

lps == <<events, mailbox, now, uid, call, stopped, smallest, nextPublic>>
vars == <<control, lps>>

Idle == [kind |-> "none", next |-> 0]
Max == 2 * Half

Earlier(e, f) == e.ts < f.ts \/ (e.ts = f.ts /\ e.uid < f.uid)
First(s) == CHOOSE e \in events[s] : \A f \in events[s] : ~Earlier(f, e)
NextTime(s) == IF stopped \/ events[s] = {} THEN Max ELSE First(s).ts
Least(a, b) == IF a <= b THEN a ELSE b

\* CalculateLookAhead: the shortest delay of a link to another system.  Names ending in
\* Longest, Private and Any are wrong variants for the mutants of the project; the
\* specification does not use them.
Delays(s) == {Delay[l] : l \in {k \in Link : k[1] = s /\ k[2] # s}}
LookAheadLongest(s) ==
    IF s = 0 \/ Delays(s) = {} THEN 0
    ELSE CHOOSE d \in Delays(s) : \A e \in Delays(s) : d >= e
LookAhead(s) ==
    IF s = 0 THEN 0
    ELSE CHOOSE d \in Delays(s) \cup {Half - 1} : \A e \in Delays(s) \cup {Half - 1} : d <= e

GrantedPrivate(s) == smallest + LookAhead(s)
Granted(s) == Least(smallest + LookAhead(s), nextPublic)

----------------------------------------------------------------------------
\* LogicalProcess

\* The thread t is inside ProcessOneRound of s
Runs(t, s) ==
    \/ s # 0 /\ pc[t] = "work" /\ lp[t] = s /\ ~recv
    \/ s = 0 /\ t = Main /\ pc[Main] = "public"

\* The loop of ProcessOneRound takes the next event and calls its handler.
RunNext(s) ==
    /\ call[s] = Idle
    /\ NextTime(s) <= Granted(s)
    /\ events' = [events EXCEPT ![s] = @ \ {First(s)}]
    /\ now' = [now EXCEPT ![s] = First(s).ts]
    /\ call' = [call EXCEPT ![s] = [kind |-> First(s).kind, next |-> 1]]
    /\ UNCHANGED <<mailbox, uid, stopped, smallest, nextPublic>>

NextCall(s) == Calls[call[s].kind][call[s].next]
InCall(s) == call[s] # Idle /\ call[s].next <= Len(Calls[call[s].kind])
CallMade(s) == call' = [call EXCEPT ![s].next = @ + 1]

\* Schedule, or ScheduleWithContext for the system itself
Schedule(s) ==
    /\ InCall(s)
    /\ Home[NextCall(s).kind] = s
    /\ events' = [events EXCEPT ![s] = @ \cup
            {[ts |-> now[s] + NextCall(s).after, uid |-> uid[s], kind |-> NextCall(s).kind]}]
    /\ uid' = [uid EXCEPT ![s] = @ + 1]
    /\ CallMade(s)
    /\ UNCHANGED <<mailbox, now, stopped, smallest, nextPublic>>

\* ScheduleWithContext for another system: the message carries the sender's clock and
\* event number.
ScheduleRemote(s) ==
    LET d == Home[NextCall(s).kind]
    IN  /\ InCall(s) /\ d # s
        /\ mailbox' = [mailbox EXCEPT ![d][s] = Append(@,
                [sent |-> now[s], uid |-> uid[s], ts |-> now[s] + NextCall(s).after,
                 kind |-> NextCall(s).kind])]
        /\ CallMade(s)
        /\ UNCHANGED <<events, now, uid, stopped, smallest, nextPublic>>

\* The handler returns; MultithreadedSimulatorImpl::Stop, if it calls it
Return(s) ==
    /\ call[s] # Idle /\ ~InCall(s)
    /\ stopped' = (stopped \/ call[s].kind \in Stops)
    /\ call' = [call EXCEPT ![s] = Idle]
    /\ UNCHANGED <<events, mailbox, now, uid, smallest, nextPublic>>

RoundOver(s) == call[s] = Idle /\ NextTime(s) > Granted(s)

\* ReceiveMessages goes through the senders in their order, and through the messages of
\* one as sorted by time and event number at the sender, then by the time of the event.
\* std::sort leaves open how it orders what is equal.
SortsBefore(m, n) ==
    \/ m.sent < n.sent
    \/ m.sent = n.sent /\ m.uid < n.uid
    \/ m.sent = n.sent /\ m.uid = n.uid /\ m.ts < n.ts
Waiting(d) == UNION {{s} \X DOMAIN mailbox[d][s] : s \in Lp}
Precedes(d, p, q) ==
    \/ p[1] < q[1]
    \/ p[1] = q[1] /\ SortsBefore(mailbox[d][p[1]][p[2]], mailbox[d][q[1]][q[2]])
Ranks(d) == {rank \in [Waiting(d) -> 0 .. Cardinality(Waiting(d)) - 1] :
    \A p, q \in Waiting(d) :
        /\ p # q => rank[p] # rank[q]
        /\ Precedes(d, p, q) => rank[p] < rank[q]}

ReceiveMessages(d) ==
    /\ \E rank \in Ranks(d) :
        events' = [events EXCEPT ![d] = @ \cup
            {[ts |-> mailbox[d][p[1]][p[2]].ts, uid |-> uid[d] + rank[p],
              kind |-> mailbox[d][p[1]][p[2]].kind] : p \in Waiting(d)}]
    /\ uid' = [uid EXCEPT ![d] = @ + Cardinality(Waiting(d))]
    /\ mailbox' = [mailbox EXCEPT ![d] = [s \in Lp |-> <<>>]]
    /\ UNCHANGED <<now, call, stopped, smallest, nextPublic>>

----------------------------------------------------------------------------
\* The rounds

AllFinishedAny == stopped \/ \E s \in System : events[s] = {}
AllFinished == stopped \/ \A s \in Lp : events[s] = {}

SmallestTime == CHOOSE t \in {Half} \cup {NextTime(s) : s \in Lp} :
                    \A s \in Lp : t <= Half /\ t <= NextTime(s)

CalculateSmallestTime ==
    /\ smallest' = SmallestTime
    /\ nextPublic' = NextTime(0)
    /\ Advance(AllFinished)
    /\ UNCHANGED <<events, mailbox, now, uid, call, stopped>>

LpStep(s) == RunNext(s) \/ Schedule(s) \/ ScheduleRemote(s) \/ Return(s)
Process(t) == UNCHANGED control /\ \E s \in Lp : Runs(t, s) /\ LpStep(s)
EndRound(t) == ~recv /\ Worked(t) /\ RoundOver(lp[t]) /\ UNCHANGED lps
EndReceive(t) == recv /\ Worked(t) /\ ReceiveMessages(lp[t])
EndPublic == Publish /\ RoundOver(0) /\ UNCHANGED lps

Step(t) ==
    \/ Process(t) \/ EndRound(t) \/ EndReceive(t)
    \/ (Take(t) \/ Count(t) \/ Test(t) \/ Spin(t)) /\ UNCHANGED lps
    \/ /\ t = Main
       /\ \/ EndPublic \/ CalculateSmallestTime
          \/ (Sort \/ Reset \/ Open \/ Wait \/ Close \/ Join) /\ UNCHANGED lps

\* MultithreadedSimulatorImpl::Partition: events of time 0 are run on the spot, each by its
\* system (InvokeNow); what they schedule on that system is own, what system s schedules on
\* another is crossed[s].  Later ones, in the order of the list, go to the public system if
\* they have no node, and from it to the mailbox of their system if they have.  Other
\* events have been numbered before: from is the next number.
Partition(own, crossed, later, from) ==
    LET public == {i \in DOMAIN later : Home[later[i].kind] = 0}
        number(i) == from + Cardinality({j \in public : j < i})
        sent == [i \in DOMAIN later |->
                    [sent |-> 0, uid |-> number(i), ts |-> later[i].ts, kind |-> later[i].kind]]
        outgoing(s) == crossed[s] \o IF s = 0 THEN sent ELSE <<>>
    IN  [events |-> [s \in Lp |-> {e \in own : Home[e.kind] = s} \cup
                        {[ts |-> later[i].ts, uid |-> number(i), kind |-> later[i].kind]
                            : i \in {j \in public : s = 0}}],
         mail |-> [d \in System |-> [s \in Lp |->
                        SelectSeq(outgoing(s), LAMBDA m : Home[m.kind] = d)]],
         uid |-> [s \in Lp |-> from + IF s = 0 THEN Cardinality(public) ELSE 0]]

KernelInit ==
    /\ Init
    /\ \E start \in Starts :
        /\ events = start.events
        /\ uid = start.uid
        /\ mailbox = [d \in Lp |-> IF d = 0 THEN [s \in Lp |-> <<>>] ELSE start.mail[d]]
    /\ now = [s \in Lp |-> 0]
    /\ call = [s \in Lp |-> Idle]
    /\ stopped = FALSE /\ smallest = 0 /\ nextPublic = 0

KernelNext == \E t \in Thread : Step(t)

\* The operating system lets every thread go on.
KernelSpec ==
    KernelInit /\ [][KernelNext]_vars /\ \A t \in Thread : WF_vars(Step(t))

----------------------------------------------------------------------------
\* Properties

KernelTypeOK ==
    /\ events \in [Lp -> SUBSET Event]
    /\ \A s \in Lp : \A e \in events[s] : Home[e.kind] = s /\ e.uid < uid[s]
    /\ mailbox \in [Lp -> [Lp -> Seq(Message)]]
    /\ \A d, s \in Lp : \A i \in DOMAIN mailbox[d][s] : Home[mailbox[d][s][i].kind] = d
    /\ now \in [Lp -> Nat] /\ uid \in [Lp -> Nat]
    /\ call \in [Lp -> [kind : Kind \cup {"none"}, next : Nat]]
    /\ \A s \in Lp : call[s] # Idle =>
        /\ call[s].kind \in Kind /\ Home[call[s].kind] = s
        /\ call[s].next \in 1 .. Len(Calls[call[s].kind]) + 1
    /\ stopped \in BOOLEAN /\ smallest \in Nat /\ nextPublic \in Nat

\* No system has, or is ever sent, an event of its past: the windows and the mailboxes
\* make up for the lack of a common clock.
Causality ==
    /\ \A s \in Lp : \A e \in events[s] : e.ts >= now[s]
    /\ \A d \in System, s \in Lp : \A i \in DOMAIN mailbox[d][s] :
        mailbox[d][s][i].ts >= now[d]

\* An event of the public system sees all systems at its own time: they have run every
\* event before it and none after it.
PublicInOrder ==
    call[0] # Idle =>
        \A s \in System :
            /\ call[s] = Idle /\ now[s] <= now[0]
            /\ \A e \in events[s] : e.ts >= now[0]
            /\ \A r \in Lp : \A i \in DOMAIN mailbox[s][r] : mailbox[s][r][i].ts >= now[0]

\* No system sends while one receives: the owner of a mailbox and its senders share it
\* without a lock.
ReceiveAlone ==
    (\E t \in Thread : recv /\ pc[t] = "work") => \A s \in Lp : call[s] = Idle

\* Run returns when everything has run, or what is left is not before the time of the
\* Stop; no message is left in a mailbox.
RunsEverything ==
    pc[Main] = "end" =>
        /\ \A s \in Lp : \A e \in events[s] : stopped /\ e.ts >= now[0]
        /\ \A d, s \in Lp : mailbox[d][s] = <<>>

\* What one system sends to another for one and the same time keeps its order.
SameTimeFifo ==
    [][\A d \in System, s \in Lp : \A i, j \in DOMAIN mailbox[d][s] :
        LET m == mailbox[d][s][i]  n == mailbox[d][s][j]
        IN  mailbox'[d][s] = <<>> /\ i < j /\ m.ts = n.ts =>
            \E e, f \in events'[d] \ events[d] :
                /\ e.ts = m.ts /\ e.kind = m.kind /\ f.ts = n.ts /\ f.kind = n.kind
                /\ e.uid < f.uid]_vars

\* Every thread ends, under any scheduling that lets every thread go on.
Terminates == <>(\A t \in Thread : pc[t] \in {"end", "out"})

=============================================================================
