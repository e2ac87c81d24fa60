----------------------------- MODULE SwitchMmu -----------------------------
(***************************************************************************)
(* The shared buffer of a switch (SwitchMmu) and the priority flow control *)
(* decisions SwitchNode takes from it.  Every packet is charged to the     *)
(* port and class it came in by: first to a reserved part, then to a       *)
(* dynamic share of the common pool, then to the headroom of the port,     *)
(* which is there for what arrives after PAUSE was sent.                   *)
(*                                                                         *)
(* A packet is its size.  The egress queues are abstracted to stored, the  *)
(* bytes of each ingress queue that wait on any egress port                *)
(* (SwitchNode::m_bytes): a dequeued packet has any size that fits.        *)
(* Class 0 (PFC frames, and acknowledgements with m_ackHighPrio) bypasses  *)
(* the buffer.                                                             *)
(*                                                                         *)
(* The code computes in uint32_t; the model in the integers.  MmuTypeOK    *)
(* and PoolBound say that no subtraction of the code wraps.                *)
(***************************************************************************)
EXTENDS Integers, FiniteSets, Functions

CONSTANTS
    Port,           \* ports (m_devices of the switch, from 1)
    Class,          \* classes other than 0
    Size,           \* sizes of packets
    Buffer,         \* buffer_size
    Reserve,        \* reserve
    Headroom,       \* headroom[p]
    Scale,          \* Scale[p] = 2 ^ pfc_a_shift[p]
    ResumeOffset,   \* resume_offset
    PfcEnabled      \* SwitchNode::m_pfcEnabled

\* ConfigNPort
TotalHdrm == SumFunctionOnSet(Headroom, Port)
TotalRsrv == SumFunctionOnSet([p \in Port |-> Reserve], Port)
Pool == Buffer - TotalHdrm - TotalRsrv

ASSUME MmuAssumption ==
    /\ IsFiniteSet(Port) /\ IsFiniteSet(Class)
    /\ Size \subseteq Nat \ {0}
    /\ Buffer \in Nat /\ Reserve \in Nat
    /\ Headroom \in [Port -> Nat]
    /\ Scale \in [Port -> Nat \ {0}]
    /\ ResumeOffset \in Nat
    /\ PfcEnabled \in BOOLEAN
    /\ Pool \in Nat             \* the headrooms and reserves fit in the buffer

VARIABLES
    ingress,        \* ingress_bytes: bytes in the reserve and in the pool
    hdrm,           \* hdrm_bytes: bytes in the headroom
    shared,         \* shared_used_bytes
    paused,         \* paused: PAUSE was sent and no RESUME since
    stored,         \* SwitchNode::m_bytes, summed over the egress ports
    dropped         \* the queue whose packet the last step refused, if any

mmuVars == <<ingress, hdrm, shared, paused, stored, dropped>>

Queue == Port \X Class
PerQueue(S) == [Port -> [Class -> S]]
Everywhere(x) == [p \in Port |-> [c \in Class |-> x]]
Add(f, p, c, n) == [f EXCEPT ![p][c] = @ + n]
Put(f, p, c, v) == [f EXCEPT ![p][c] = v]

MmuInit ==
    /\ ingress = Everywhere(0)
    /\ hdrm    = Everywhere(0)
    /\ shared  = 0
    /\ paused  = Everywhere(FALSE)
    /\ stored  = Everywhere(0)
    /\ dropped = {}

----------------------------------------------------------------------------
\* Names ending in Stale, Kept, Unchecked, Anyway, Whole and Plain are wrong variants
\* for the mutants of the project; the specification does not use them.

Least(a, b) == IF a <= b THEN a ELSE b
Excess(bytes) == IF bytes > Reserve THEN bytes - Reserve ELSE 0
GetSharedUsed(p, c) == Excess(ingress[p][c])

\* (buffer_size - total_hdrm - total_rsrv - shared_used_bytes) >> pfc_a_shift
GetPfcThreshold(p) == (Pool - shared) \div Scale[p]

CheckIngressAdmissionAnyway(p, c, psize) ==
    \/ hdrm[p][c] <= Headroom[p]
    \/ psize + GetSharedUsed(p, c) <= GetPfcThreshold(p)
CheckIngressAdmission(p, c, psize) ==
    \/ psize + hdrm[p][c] <= Headroom[p]
    \/ psize + GetSharedUsed(p, c) <= GetPfcThreshold(p)

\* Of a packet, what does not fit in the reserve is taken from the pool.
FromPoolWhole(p, c, psize) ==
    IF ingress[p][c] + psize > Reserve THEN psize ELSE 0
FromPool(p, c, psize) ==
    IF ingress[p][c] + psize > Reserve
    THEN Least(psize, ingress[p][c] + psize - Reserve) ELSE 0

WithinPoolUnchecked(p, c, psize) == TRUE
WithinPool(p, c, psize) ==
    \/ ingress[p][c] + psize <= Reserve
    \/ ingress[p][c] + psize - Reserve <= GetPfcThreshold(p)

UpdateIngressAdmission(p, c, psize) ==
    \/ /\ WithinPool(p, c, psize)
       /\ ingress' = Add(ingress, p, c, psize)
       /\ shared' = shared + FromPool(p, c, psize)
       /\ UNCHANGED hdrm
    \/ /\ ~WithinPool(p, c, psize)
       /\ hdrm' = Add(hdrm, p, c, psize)
       /\ UNCHANGED <<ingress, shared>>

RemoveFromIngressAdmissionPlain(p, c, psize) ==
    LET fromHdrm == Least(hdrm[p][c], psize)
    IN /\ hdrm' = Add(hdrm, p, c, -fromHdrm)
       /\ ingress' = Add(ingress, p, c, -(psize - fromHdrm))
       /\ shared' = IF GetSharedUsed(p, c) > 0 THEN shared - (psize - fromHdrm) ELSE shared
\* The headroom is given back first.
RemoveFromIngressAdmission(p, c, psize) ==
    LET fromHdrm   == Least(hdrm[p][c], psize)
        fromShared == Least(psize - fromHdrm, GetSharedUsed(p, c))
    IN /\ hdrm' = Add(hdrm, p, c, -fromHdrm)
       /\ ingress' = Add(ingress, p, c, -(psize - fromHdrm))
       /\ shared' = shared - fromShared

\* CheckShouldPause and CheckShouldResume look at the buffer after the change.
CheckShouldPauseStale(p, c) ==
    /\ ~paused[p][c]
    /\ hdrm[p][c] > 0 \/ GetSharedUsed(p, c) >= GetPfcThreshold(p)
CheckShouldPause(p, c) ==
    /\ ~paused[p][c]
    /\ hdrm'[p][c] > 0 \/ GetSharedUsed(p, c)' >= GetPfcThreshold(p)'

CheckShouldResumeKept(p, c) ==
    /\ paused[p][c]
    /\ hdrm'[p][c] = 0
    /\ GetSharedUsed(p, c)' + ResumeOffset <= GetPfcThreshold(p)'
CheckShouldResume(p, c) ==
    /\ paused[p][c]
    /\ hdrm'[p][c] = 0
    /\ \/ GetSharedUsed(p, c)' = 0
       \/ GetSharedUsed(p, c)' + ResumeOffset <= GetPfcThreshold(p)'

----------------------------------------------------------------------------
\* SwitchNode::SendToDev of a packet that came in by port p: admitted, and
\* CheckAndSendPfc
Admit(p, c, psize) ==
    /\ CheckIngressAdmission(p, c, psize)
    /\ UpdateIngressAdmission(p, c, psize)
    /\ paused' = IF PfcEnabled /\ CheckShouldPause(p, c)
                 THEN Put(paused, p, c, TRUE) ELSE paused
    /\ stored' = Add(stored, p, c, psize)
    /\ dropped' = {}

\* SwitchNode::SendToDev, refused
Drop(p, c, psize) ==
    /\ ~CheckIngressAdmission(p, c, psize)
    /\ dropped' = {<<p, c>>}
    /\ UNCHANGED <<ingress, hdrm, shared, paused, stored>>

SendToDev(p, c, psize) == Admit(p, c, psize) \/ Drop(p, c, psize)

\* SwitchNode::SwitchNotifyDequeue with CheckAndSendResume
SwitchNotifyDequeue(p, c, psize) ==
    /\ psize <= stored[p][c]
    /\ RemoveFromIngressAdmission(p, c, psize)
    /\ paused' = IF PfcEnabled /\ CheckShouldResume(p, c)
                 THEN Put(paused, p, c, FALSE) ELSE paused
    /\ stored' = Add(stored, p, c, -psize)
    /\ dropped' = {}

MmuNext ==
    \E p \in Port, c \in Class, psize \in Size :
        SendToDev(p, c, psize) \/ SwitchNotifyDequeue(p, c, psize)

MmuSpec == MmuInit /\ [][MmuNext]_mmuVars

----------------------------------------------------------------------------
\* Every counter is a natural number: no unsigned subtraction of the MMU wraps.
MmuTypeOK ==
    /\ ingress \in PerQueue(Nat)
    /\ hdrm    \in PerQueue(Nat)
    /\ shared  \in Nat
    /\ paused  \in PerQueue(BOOLEAN)
    /\ stored  \in PerQueue(Nat)
    /\ dropped \subseteq Queue

\* The bytes charged are the bytes stored, and the pool is charged with exactly
\* what every queue holds over its reserve, however packets were split between
\* reserve, pool and headroom on the way in and out (Update and
\* RemoveFromIngressAdmission).
Accounting ==
    /\ \A p \in Port, c \in Class : stored[p][c] = ingress[p][c] + hdrm[p][c]
    /\ shared = SumFunctionOnSet([q \in Queue |-> GetSharedUsed(q[1], q[2])], Queue)

\* The pool is never overdrawn (else GetPfcThreshold wraps to a huge value).
PoolBound == shared <= Pool

\* No queue uses more than the headroom of its port.
HeadroomBound == \A p \in Port, c \in Class : hdrm[p][c] <= Headroom[p]

\* The switch never holds more than its buffer with one class.  The reserve and the
\* headroom are counted once per port but granted to every class of it, so each
\* class beyond the first can add them once more.
BufferBound ==
    SumFunctionOnSet([q \in Queue |-> stored[q[1]][q[2]]], Queue)
        <= Buffer + (Cardinality(Class) - 1) * (TotalHdrm + TotalRsrv)

\* While a queue uses headroom its sender has been told to pause.
HeadroomPaused ==
    PfcEnabled => \A p \in Port, c \in Class : hdrm[p][c] > 0 => paused[p][c]

\* A paused queue holds a packet: RESUME is considered only when a packet of the
\* queue leaves (SwitchNotifyDequeue), so an empty queue left paused would stop
\* its sender for good.
PausedHolds ==
    \A p \in Port, c \in Class : paused[p][c] => stored[p][c] > 0

\* A packet that fits the headroom of its port is dropped only after its sender
\* was told to pause.
DropOnlyAfterPause ==
    PfcEnabled =>
        \A p \in Port, c \in Class :
            /\ <<p, c>> \in dropped
            /\ \A n \in Size : n <= Headroom[p]
            => paused[p][c]
=============================================================================
