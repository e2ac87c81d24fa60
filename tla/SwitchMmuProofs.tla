-------------------------- MODULE SwitchMmuProofs --------------------------
(***************************************************************************)
(* For every switch that satisfies MmuAssumption: the pool is not          *)
(* overdrawn, headroom is within bounds and used only while the sender is  *)
(* paused, no empty queue is paused, no packet that fits is dropped before *)
(* PAUSE, no counter goes below zero, the accounts balance, and the buffer *)
(* is exceeded by no more than the grants of the further classes.          *)
(*                                                                         *)
(* The inductive invariant adds that each queue is charged with what it    *)
(* stores, which is why a removal never takes more than is there, and the  *)
(* pool with the sum of what the queues hold of it (PoolCharged).          *)
(***************************************************************************)
EXTENDS SwitchMmu, SumLaws, TLAPS

Charged == \A p \in Port, c \in Class : stored[p][c] = ingress[p][c] + hdrm[p][c]

\* What each queue holds of the pool, and that the pool is charged with all of it
Held == [q \in Queue |-> GetSharedUsed(q[1], q[2])]
PoolCharged == shared = SumFunctionOnSet(Held, Queue)

Typed ==
    /\ ingress \in PerQueue(Nat)
    /\ hdrm    \in PerQueue(Nat)
    /\ shared  \in Int
    /\ paused  \in PerQueue(BOOLEAN)
    /\ stored  \in PerQueue(Nat)
    /\ dropped \subseteq Queue

\* Without PFC nothing is ever paused.
OffUnpaused == ~PfcEnabled => \A p \in Port, c \in Class : ~paused[p][c]

MmuInv ==
    /\ Typed
    /\ OffUnpaused
    /\ Charged
    /\ PoolCharged
    /\ PoolBound
    /\ HeadroomBound
    /\ HeadroomPaused
    /\ PausedHolds
    /\ DropOnlyAfterPause

\* A share of the pool is part of it (GetPfcThreshold).
LEMMA DivBound ==
    ASSUME NEW x \in Nat, NEW n \in Nat \ {0}
    PROVE  x \div n \in Nat /\ x \div n <= x
<1>1. x = n * (x \div n) + (x % n) /\ x % n \in 0 .. n - 1
  OBVIOUS
<1>2. x \div n \in Int
  OBVIOUS
<1>3. x \div n >= 0
  BY <1>1, <1>2
<1>4. n * (x \div n) >= x \div n
  BY <1>2, <1>3
<1> QED
  BY <1>1, <1>2, <1>3, <1>4

\* Add changes one queue.
LEMMA AddOne ==
    ASSUME NEW f \in PerQueue(Nat), NEW p \in Port, NEW c \in Class, NEW n \in Int,
           f[p][c] + n \in Nat
    PROVE  /\ Add(f, p, c, n) \in PerQueue(Nat)
           /\ Add(f, p, c, n)[p][c] = f[p][c] + n
           /\ \A q \in Port, d \in Class :
                 q # p \/ d # c => Add(f, p, c, n)[q][d] = f[q][d]
BY DEF Add, PerQueue

\* So does Put of a flag.
LEMMA PutOne ==
    ASSUME NEW f \in PerQueue(BOOLEAN), NEW p \in Port, NEW c \in Class,
           NEW b \in BOOLEAN
    PROVE  /\ Put(f, p, c, b) \in PerQueue(BOOLEAN)
           /\ Put(f, p, c, b)[p][c] = b
           /\ \A q \in Port, d \in Class :
                 q # p \/ d # c => Put(f, p, c, b)[q][d] = f[q][d]
<1> DEFINE g == [f EXCEPT ![p][c] = b]
<1>1. f \in [Port -> [Class -> BOOLEAN]]
  BY DEF PerQueue
<1>2. f[p] \in [Class -> BOOLEAN]
  BY <1>1
<1>3. g = [f EXCEPT ![p] = [f[p] EXCEPT ![c] = b]]
  OBVIOUS
<1>4. [f[p] EXCEPT ![c] = b] \in [Class -> BOOLEAN]
  BY <1>2
<1>5. g \in [Port -> [Class -> BOOLEAN]]
  BY <1>1, <1>3, <1>4
<1>6. g[p] = [f[p] EXCEPT ![c] = b]
  BY <1>1, <1>3
<1>7. g[p][c] = b
  BY <1>2, <1>6
<1>8. ASSUME NEW q \in Port, NEW d \in Class, q # p \/ d # c
      PROVE  g[q][d] = f[q][d]
  BY <1>1, <1>2, <1>3, <1>6, <1>8
<1> QED
  BY <1>5, <1>7, <1>8, Zenon DEF PerQueue, Put

\* The threshold is never more than what is left of the pool.
LEMMA ThresholdBound ==
    ASSUME MmuInv, NEW p \in Port
    PROVE  GetPfcThreshold(p) \in Nat /\ GetPfcThreshold(p) <= Pool - shared
<1>1. Pool - shared \in Nat
  BY MmuAssumption DEF MmuInv, Typed, PoolBound
<1>2. Scale[p] \in Nat \ {0}
  BY MmuAssumption
<1> QED
  BY <1>1, <1>2, DivBound DEF GetPfcThreshold

\* What a step of one queue must establish: its own numbers are right, those of
\* the other queues are as before.
Others(p, c) ==
    \A q \in Port, d \in Class : q # p \/ d # c =>
        /\ ingress'[q][d] = ingress[q][d]
        /\ hdrm'[q][d] = hdrm[q][d]
        /\ stored'[q][d] = stored[q][d]
        /\ paused'[q][d] = paused[q][d]

LEMMA OneQueue ==
    ASSUME MmuInv, Typed', PoolCharged', PoolBound', dropped' = {},
           NEW p \in Port, NEW c \in Class, Others(p, c),
           stored'[p][c] = ingress'[p][c] + hdrm'[p][c],
           hdrm'[p][c] <= Headroom[p],
           PfcEnabled /\ hdrm'[p][c] > 0 => paused'[p][c],
           paused'[p][c] => stored'[p][c] > 0,
           PfcEnabled \/ paused' = paused
    PROVE  MmuInv'
<1>1. Charged'
  BY DEF MmuInv, Charged, Others
<1>2. HeadroomBound'
  BY DEF MmuInv, HeadroomBound, Others
<1>3. HeadroomPaused'
  BY DEF MmuInv, HeadroomPaused, Others
<1>4. PausedHolds'
  BY DEF MmuInv, PausedHolds, Others
<1>5. DropOnlyAfterPause'
  BY DEF DropOnlyAfterPause
<1>6. OffUnpaused'
  BY DEF MmuInv, OffUnpaused
<1> QED
  BY <1>1, <1>2, <1>3, <1>4, <1>5, <1>6 DEF MmuInv

\* One queue takes n bytes of the pool, or gives them back.
LEMMA PoolMoves ==
    ASSUME ingress \in PerQueue(Nat), ingress' \in PerQueue(Nat), PoolCharged,
           NEW p \in Port, NEW c \in Class, NEW n \in Int,
           \A q \in Port, d \in Class : q # p \/ d # c => ingress'[q][d] = ingress[q][d],
           Excess(ingress'[p][c]) = Excess(ingress[p][c]) + n,
           shared' = shared + n
    PROVE  PoolCharged'
<1>1. IsFiniteSet(Queue)
  BY MmuAssumption, FS_Product DEF Queue
<1>2. <<p, c>> \in Queue /\ <<p, c>>[1] = p /\ <<p, c>>[2] = c
  BY DEF Queue
<1>3. ASSUME NEW q \in Queue
      PROVE  /\ q[1] \in Port /\ q[2] \in Class /\ q = <<q[1], q[2]>>
             /\ Held[q] = Excess(ingress[q[1]][q[2]])
             /\ Held'[q] = Excess(ingress'[q[1]][q[2]])
  BY DEF Queue, Held, GetSharedUsed
<1>4. \A q \in Queue : Held[q] \in Int
  <2>1. \A q \in Queue : ingress[q[1]][q[2]] \in Nat
    BY <1>3 DEF PerQueue
  <2> QED
    BY <1>3, <2>1, MmuAssumption DEF Excess
<1>5. Held'[<<p, c>>] = Held[<<p, c>>] + n
  BY <1>2, <1>3
<1>6. ASSUME NEW q \in Queue \ {<<p, c>>} PROVE Held'[q] = Held[q]
  <2>1. q[1] # p \/ q[2] # c
    BY <1>3
  <2> QED
    BY <1>3, <2>1
<1>7. SumFunctionOnSet(Held', Queue) = SumFunctionOnSet(Held, Queue) + n
  <2> HIDE DEF Held
  <2> QED
    BY <1>1, <1>2, <1>4, <1>5, <1>6, SumChange
<1> QED
  BY <1>7 DEF PoolCharged

\* UpdateIngressAdmission of an admitted packet.
LEMMA UpdateKeeps ==
    ASSUME MmuInv, NEW p \in Port, NEW c \in Class, NEW psize \in Size,
           CheckIngressAdmission(p, c, psize), UpdateIngressAdmission(p, c, psize)
    PROVE  /\ ingress' \in PerQueue(Nat) /\ hdrm' \in PerQueue(Nat) /\ shared' \in Int
           /\ PoolCharged' /\ PoolBound'
           /\ hdrm'[p][c] <= Headroom[p]
           /\ ingress'[p][c] + hdrm'[p][c] = ingress[p][c] + hdrm[p][c] + psize
           /\ \A q \in Port, d \in Class : q # p \/ d # c =>
                 ingress'[q][d] = ingress[q][d] /\ hdrm'[q][d] = hdrm[q][d]
<1> DEFINE in == ingress[p][c]
           h  == hdrm[p][c]
           th == GetPfcThreshold(p)
<1>1. /\ ingress \in PerQueue(Nat) /\ hdrm \in PerQueue(Nat) /\ shared \in Int
      /\ PoolCharged /\ shared <= Pool /\ h <= Headroom[p]
  BY DEF MmuInv, Typed, PoolBound, HeadroomBound
<1>2. in \in Nat /\ h \in Nat
  BY <1>1 DEF PerQueue
<1>3. psize \in Nat /\ psize > 0 /\ Reserve \in Nat /\ Headroom[p] \in Nat /\ Pool \in Nat
  BY MmuAssumption
<1>4. th \in Nat /\ th <= Pool - shared
  BY ThresholdBound
<1>5. CASE ~WithinPool(p, c, psize)
  <2>1. hdrm' = Add(hdrm, p, c, psize) /\ ingress' = ingress /\ shared' = shared
    BY <1>5 DEF UpdateIngressAdmission
  <2>2. in + psize > Reserve /\ in + psize - Reserve > th
    BY <1>2, <1>3, <1>4, <1>5 DEF WithinPool
  <2>3. psize + h <= Headroom[p]
    <3>1. psize + h <= Headroom[p] \/ psize + Excess(in) <= th
      BY DEF CheckIngressAdmission, GetSharedUsed
    <3>2. Excess(in) \in Int /\ psize + Excess(in) > th
      BY <1>2, <1>3, <1>4, <2>2 DEF Excess
    <3> QED
      BY <1>3, <1>4, <3>1, <3>2
  <2>4. /\ hdrm' \in PerQueue(Nat) /\ hdrm'[p][c] = h + psize
        /\ \A q \in Port, d \in Class : q # p \/ d # c => hdrm'[q][d] = hdrm[q][d]
    BY <1>1, <1>2, <1>3, <2>1, AddOne
  <2>5. ingress'[p][c] + hdrm'[p][c] = in + h + psize
    BY <1>2, <1>3, <2>1, <2>4
  <2>6. PoolBound'
    BY <1>1, <2>1 DEF PoolBound
  <2>7. PoolCharged'
    BY <1>1, <2>1 DEF PoolCharged, Held, GetSharedUsed
  <2> QED
    BY <1>1, <1>2, <1>3, <2>1, <2>3, <2>4, <2>5, <2>6, <2>7
<1>6. CASE WithinPool(p, c, psize)
  <2>1. /\ ingress' = Add(ingress, p, c, psize) /\ hdrm' = hdrm
        /\ shared' = shared + FromPool(p, c, psize)
    BY <1>6 DEF UpdateIngressAdmission
  <2>2. FromPool(p, c, psize) \in Nat /\ shared + FromPool(p, c, psize) <= Pool
    BY <1>1, <1>2, <1>3, <1>4, <1>6 DEF WithinPool, FromPool, Least
  <2>3. /\ ingress' \in PerQueue(Nat) /\ ingress'[p][c] = in + psize
        /\ \A q \in Port, d \in Class : q # p \/ d # c => ingress'[q][d] = ingress[q][d]
    BY <1>1, <1>2, <1>3, <2>1, AddOne
  <2>4. ingress'[p][c] + hdrm'[p][c] = in + h + psize
    BY <1>2, <1>3, <2>1, <2>3
  <2>5. PoolBound'
    BY <2>1, <2>2 DEF PoolBound
  <2>6. Excess(ingress'[p][c]) = Excess(in) + FromPool(p, c, psize)
    BY <1>2, <1>3, <2>3 DEF Excess, FromPool, Least
  <2>7. PoolCharged'
    <3>1. FromPool(p, c, psize) \in Int
      BY <2>2
    <3> QED
      BY <1>1, <2>1, <2>3, <2>6, <3>1, PoolMoves
  <2> QED
    BY <1>1, <2>1, <2>2, <2>3, <2>4, <2>5, <2>7
<1> QED
  BY <1>5, <1>6

LEMMA AdmitKeeps ==
    ASSUME MmuInv, NEW p \in Port, NEW c \in Class, NEW psize \in Size,
           Admit(p, c, psize)
    PROVE  MmuInv'
<1>1. /\ ingress' \in PerQueue(Nat) /\ hdrm' \in PerQueue(Nat) /\ shared' \in Int
      /\ PoolCharged' /\ PoolBound'
      /\ hdrm'[p][c] <= Headroom[p]
      /\ ingress'[p][c] + hdrm'[p][c] = ingress[p][c] + hdrm[p][c] + psize
      /\ \A q \in Port, d \in Class : q # p \/ d # c =>
            ingress'[q][d] = ingress[q][d] /\ hdrm'[q][d] = hdrm[q][d]
  BY UpdateKeeps DEF Admit
<1>2. psize \in Nat /\ psize > 0
  BY MmuAssumption
<1>3. stored \in PerQueue(Nat) /\ paused \in PerQueue(BOOLEAN)
  BY DEF MmuInv, Typed
<1>4. /\ stored[p][c] \in Nat /\ stored[p][c] = ingress[p][c] + hdrm[p][c]
      /\ ingress[p][c] \in Nat /\ hdrm[p][c] \in Nat
  BY DEF MmuInv, Typed, Charged, PerQueue
<1>5. /\ stored' \in PerQueue(Nat) /\ stored'[p][c] = stored[p][c] + psize
      /\ \A q \in Port, d \in Class : q # p \/ d # c => stored'[q][d] = stored[q][d]
  BY <1>2, <1>3, <1>4, AddOne DEF Admit
<1>6. /\ paused' \in PerQueue(BOOLEAN)
      /\ \A q \in Port, d \in Class : q # p \/ d # c => paused'[q][d] = paused[q][d]
  <2>1. paused' = paused \/ paused' = Put(paused, p, c, TRUE)
    BY DEF Admit
  <2>2. CASE paused' = paused
    BY <1>3, <2>2
  <2>3. CASE paused' = Put(paused, p, c, TRUE)
    <3>1. /\ Put(paused, p, c, TRUE) \in PerQueue(BOOLEAN)
          /\ \A q \in Port, d \in Class :
                q # p \/ d # c => Put(paused, p, c, TRUE)[q][d] = paused[q][d]
      BY <1>3, PutOne, Zenon
    <3> QED
      BY <2>3, <3>1, Zenon
  <2> QED
    BY <2>1, <2>2, <2>3
<1>7. PfcEnabled /\ hdrm'[p][c] > 0 => paused'[p][c]
  <2>1. CASE paused[p][c]
    <3>1. paused' = paused
      BY <2>1 DEF Admit, CheckShouldPause
    <3> QED
      BY <2>1, <3>1
  <2>2. CASE ~paused[p][c] /\ PfcEnabled /\ hdrm'[p][c] > 0
    <3>1. paused' = Put(paused, p, c, TRUE)
      BY <2>2 DEF Admit, CheckShouldPause
    <3> QED
      BY <1>3, <3>1, PutOne
  <2> QED
    BY <2>1, <2>2
<1>8. stored'[p][c] > 0 /\ stored'[p][c] = ingress'[p][c] + hdrm'[p][c]
  BY <1>1, <1>2, <1>4, <1>5
<1>9. dropped' = {}
  BY DEF Admit
<1>10. Others(p, c)
  BY <1>1, <1>5, <1>6 DEF Others
<1>11. Typed'
  BY <1>1, <1>5, <1>6, <1>9 DEF Typed
<1>12. PfcEnabled \/ paused' = paused
  BY DEF Admit
<1> QED
  BY <1>1, <1>7, <1>8, <1>9, <1>10, <1>11, <1>12, OneQueue

LEMMA DropKeeps ==
    ASSUME MmuInv, NEW p \in Port, NEW c \in Class, NEW psize \in Size,
           Drop(p, c, psize)
    PROVE  MmuInv'
<1>1. UNCHANGED <<ingress, hdrm, shared, paused, stored>> /\ dropped' = {<<p, c>>}
  BY DEF Drop
<1>2. ASSUME PfcEnabled, \A n \in Size : n <= Headroom[p]
      PROVE  paused[p][c]
  <2>1. ~(psize + hdrm[p][c] <= Headroom[p])
    BY DEF Drop, CheckIngressAdmission
  <2>2. hdrm[p][c] \in Nat /\ psize \in Nat /\ psize <= Headroom[p] /\ Headroom[p] \in Nat
    BY <1>2, MmuAssumption DEF MmuInv, Typed, PerQueue
  <2>3. hdrm[p][c] > 0
    BY <2>1, <2>2
  <2> QED
    BY <1>2, <2>3 DEF MmuInv, HeadroomPaused
<1>3. DropOnlyAfterPause'
  BY <1>1, <1>2 DEF DropOnlyAfterPause
<1>4. /\ OffUnpaused' /\ Charged' /\ PoolCharged' /\ PoolBound'
      /\ HeadroomBound' /\ HeadroomPaused' /\ PausedHolds'
  BY <1>1 DEF MmuInv, OffUnpaused, Charged, PoolCharged, Held, GetSharedUsed, PoolBound,
              HeadroomBound, HeadroomPaused, PausedHolds
<1>5. Typed'
  BY <1>1 DEF MmuInv, Typed, Queue
<1> QED
  BY <1>3, <1>4, <1>5 DEF MmuInv

\* RemoveFromIngressAdmission of a packet that is stored.
LEMMA RemoveKeeps ==
    ASSUME MmuInv, NEW p \in Port, NEW c \in Class, NEW psize \in Size,
           psize <= stored[p][c], RemoveFromIngressAdmission(p, c, psize)
    PROVE  /\ ingress' \in PerQueue(Nat) /\ hdrm' \in PerQueue(Nat) /\ shared' \in Int
           /\ PoolCharged' /\ PoolBound'
           /\ hdrm'[p][c] <= Headroom[p]
           /\ hdrm'[p][c] <= hdrm[p][c]
           /\ ingress'[p][c] + hdrm'[p][c] = ingress[p][c] + hdrm[p][c] - psize
           /\ \A q \in Port, d \in Class : q # p \/ d # c =>
                 ingress'[q][d] = ingress[q][d] /\ hdrm'[q][d] = hdrm[q][d]
<1> DEFINE in == ingress[p][c]
           h  == hdrm[p][c]
           fromHdrm == Least(h, psize)
           fromShared == Least(psize - fromHdrm, GetSharedUsed(p, c))
<1>1. /\ ingress \in PerQueue(Nat) /\ hdrm \in PerQueue(Nat) /\ shared \in Int
      /\ PoolCharged /\ shared <= Pool /\ h <= Headroom[p]
  BY DEF MmuInv, Typed, PoolBound, HeadroomBound
<1>2. in \in Nat /\ h \in Nat
  BY <1>1 DEF PerQueue
<1>3. psize \in Nat /\ psize > 0 /\ Reserve \in Nat /\ Headroom[p] \in Nat /\ Pool \in Nat
  BY MmuAssumption
<1>4. psize <= in + h
  BY DEF MmuInv, Charged
<1>5. /\ hdrm' = Add(hdrm, p, c, -fromHdrm)
      /\ ingress' = Add(ingress, p, c, -(psize - fromHdrm))
      /\ shared' = shared - fromShared
  BY DEF RemoveFromIngressAdmission
<1>6. GetSharedUsed(p, c) \in Nat
  BY <1>2, <1>3 DEF GetSharedUsed, Excess
<1>7. fromHdrm \in Nat /\ fromHdrm <= h /\ fromHdrm <= psize /\ psize - fromHdrm <= in
  BY <1>2, <1>3, <1>4 DEF Least
<1> HIDE DEF fromHdrm
<1>8. /\ fromShared \in Nat
      /\ Excess(in + (-(psize - fromHdrm))) = Excess(in) + (-fromShared)
  BY <1>2, <1>3, <1>6, <1>7 DEF Least, GetSharedUsed, Excess
<1> HIDE DEF fromShared
<1>9. /\ hdrm' \in PerQueue(Nat) /\ hdrm'[p][c] = h + (-fromHdrm)
      /\ \A q \in Port, d \in Class : q # p \/ d # c => hdrm'[q][d] = hdrm[q][d]
  <2>1. -fromHdrm \in Int /\ h + (-fromHdrm) \in Nat
    BY <1>2, <1>7
  <2> QED
    BY <1>1, <1>5, <2>1, AddOne
<1>10. /\ ingress' \in PerQueue(Nat) /\ ingress'[p][c] = in + (-(psize - fromHdrm))
       /\ \A q \in Port, d \in Class : q # p \/ d # c => ingress'[q][d] = ingress[q][d]
  <2>1. -(psize - fromHdrm) \in Int /\ in + (-(psize - fromHdrm)) \in Nat
    BY <1>2, <1>3, <1>7
  <2> QED
    BY <1>1, <1>5, <2>1, AddOne
<1>11. shared' \in Int /\ PoolBound'
  BY <1>1, <1>3, <1>5, <1>8 DEF PoolBound
<1>12. hdrm'[p][c] <= h /\ hdrm'[p][c] <= Headroom[p]
  BY <1>1, <1>2, <1>3, <1>7, <1>9
<1>13. ingress'[p][c] + hdrm'[p][c] = in + h - psize
  BY <1>2, <1>3, <1>7, <1>9, <1>10
<1>14. PoolCharged'
  <2>1. -fromShared \in Int /\ shared' = shared + (-fromShared)
    BY <1>1, <1>5, <1>8
  <2> QED
    BY <1>1, <1>8, <1>10, <2>1, PoolMoves
<1> QED
  BY <1>9, <1>10, <1>11, <1>12, <1>13, <1>14

LEMMA DequeueKeeps ==
    ASSUME MmuInv, NEW p \in Port, NEW c \in Class, NEW psize \in Size,
           SwitchNotifyDequeue(p, c, psize)
    PROVE  MmuInv'
<1>1. /\ ingress' \in PerQueue(Nat) /\ hdrm' \in PerQueue(Nat) /\ shared' \in Int
      /\ PoolCharged' /\ PoolBound'
      /\ hdrm'[p][c] <= Headroom[p]
      /\ hdrm'[p][c] <= hdrm[p][c]
      /\ ingress'[p][c] + hdrm'[p][c] = ingress[p][c] + hdrm[p][c] - psize
      /\ \A q \in Port, d \in Class : q # p \/ d # c =>
            ingress'[q][d] = ingress[q][d] /\ hdrm'[q][d] = hdrm[q][d]
  BY RemoveKeeps DEF SwitchNotifyDequeue
<1>2. psize \in Nat /\ psize > 0 /\ psize <= stored[p][c]
  BY MmuAssumption DEF SwitchNotifyDequeue
<1>3. stored \in PerQueue(Nat) /\ paused \in PerQueue(BOOLEAN)
  BY DEF MmuInv, Typed
<1>4. /\ stored[p][c] \in Nat /\ stored[p][c] = ingress[p][c] + hdrm[p][c]
      /\ ingress[p][c] \in Nat /\ hdrm[p][c] \in Nat
  BY DEF MmuInv, Typed, Charged, PerQueue
<1>5. /\ stored' \in PerQueue(Nat) /\ stored'[p][c] = stored[p][c] + (-psize)
      /\ \A q \in Port, d \in Class : q # p \/ d # c => stored'[q][d] = stored[q][d]
  <2>1. -psize \in Int /\ stored[p][c] + (-psize) \in Nat
    BY <1>2, <1>4
  <2>2. stored' = Add(stored, p, c, -psize)
    BY DEF SwitchNotifyDequeue
  <2> QED
    BY <1>3, <2>1, <2>2, AddOne
<1>6. paused' = paused \/ (paused' = Put(paused, p, c, FALSE) /\ CheckShouldResume(p, c))
  BY DEF SwitchNotifyDequeue
<1>7. /\ paused' \in PerQueue(BOOLEAN)
      /\ \A q \in Port, d \in Class : q # p \/ d # c => paused'[q][d] = paused[q][d]
  <2>1. CASE paused' = paused
    BY <1>3, <2>1
  <2>2. CASE paused' = Put(paused, p, c, FALSE)
    <3>1. /\ Put(paused, p, c, FALSE) \in PerQueue(BOOLEAN)
          /\ \A q \in Port, d \in Class :
                q # p \/ d # c => Put(paused, p, c, FALSE)[q][d] = paused[q][d]
      BY <1>3, PutOne, Zenon
    <3> QED
      BY <2>2, <3>1, Zenon
  <2> QED
    BY <1>6, <2>1, <2>2
<1>8. /\ ingress'[p][c] \in Nat /\ hdrm'[p][c] \in Nat
      /\ stored'[p][c] = ingress'[p][c] + hdrm'[p][c]
  <2>1. ingress'[p][c] \in Nat /\ hdrm'[p][c] \in Nat
    BY <1>1 DEF PerQueue
  <2> QED
    BY <1>1, <1>2, <1>4, <1>5, <2>1
\* RESUME is sent only when no headroom is used ...
<1>9. PfcEnabled /\ hdrm'[p][c] > 0 => paused'[p][c]
  <2>1. SUFFICES ASSUME PfcEnabled, hdrm'[p][c] > 0 PROVE paused'[p][c]
    OBVIOUS
  <2>2. hdrm[p][c] > 0
    BY <1>1, <1>4, <1>8, <2>1
  <2>3. paused[p][c]
    BY <2>1, <2>2 DEF MmuInv, HeadroomPaused
  <2>4. ~CheckShouldResume(p, c)
    BY <1>8, <2>1 DEF CheckShouldResume
  <2> QED
    BY <1>6, <2>3, <2>4
\* ... and always when the last packet leaves.
<1>10. paused'[p][c] => stored'[p][c] > 0
  <2>1. SUFFICES ASSUME ~(stored'[p][c] > 0), paused'[p][c] PROVE FALSE
    OBVIOUS
  <2>2. hdrm'[p][c] = 0 /\ ingress'[p][c] = 0
    BY <1>8, <2>1
  <2>3. GetSharedUsed(p, c)' = 0
    BY <2>2, MmuAssumption DEF GetSharedUsed, Excess
  <2>4. CASE ~paused[p][c]
    <3>1. ~CheckShouldResume(p, c)
      BY <2>4 DEF CheckShouldResume
    <3> QED
      BY <1>6, <2>1, <2>4, <3>1
  <2>5. CASE paused[p][c]
    <3>1. CheckShouldResume(p, c)
      BY <2>2, <2>3, <2>5 DEF CheckShouldResume
    <3>2. CASE PfcEnabled
      <4>1. paused' = Put(paused, p, c, FALSE)
        BY <3>1, <3>2 DEF SwitchNotifyDequeue
      <4>2. ~Put(paused, p, c, FALSE)[p][c]
        BY <1>3, PutOne, Zenon
      <4> QED
        BY <2>1, <4>1, <4>2
    <3>3. CASE ~PfcEnabled
      BY <2>5, <3>3 DEF MmuInv, OffUnpaused
    <3> QED
      BY <3>2, <3>3
  <2> QED
    BY <2>4, <2>5
<1>11. dropped' = {}
  BY DEF SwitchNotifyDequeue
<1>12. Others(p, c)
  BY <1>1, <1>5, <1>7 DEF Others
<1>13. Typed'
  BY <1>1, <1>5, <1>7, <1>11 DEF Typed
<1>14. PfcEnabled \/ paused' = paused
  BY DEF SwitchNotifyDequeue
<1> QED
  BY <1>1, <1>8, <1>9, <1>10, <1>11, <1>12, <1>13, <1>14, OneQueue

----------------------------------------------------------------------------
LEMMA InitInv == ASSUME MmuInit PROVE MmuInv
<1>1. /\ \A p \in Port, c \in Class :
            ingress[p][c] = 0 /\ hdrm[p][c] = 0 /\ stored[p][c] = 0 /\ paused[p][c] = FALSE
      /\ shared = 0 /\ dropped = {}
  BY DEF MmuInit, Everywhere
<1>2. /\ ingress \in PerQueue(Nat) /\ hdrm \in PerQueue(Nat) /\ stored \in PerQueue(Nat)
  BY DEF MmuInit, Everywhere, PerQueue
<1>3. paused \in PerQueue(BOOLEAN)
  BY Zenon DEF MmuInit, Everywhere, PerQueue
<1>4. Typed /\ PoolBound
  BY <1>1, <1>2, <1>3, MmuAssumption DEF Typed, PoolBound
<1>5. Charged /\ HeadroomBound
  BY <1>1, MmuAssumption DEF Charged, HeadroomBound
<1>6. OffUnpaused /\ HeadroomPaused /\ PausedHolds
  BY <1>1 DEF OffUnpaused, HeadroomPaused, PausedHolds
<1>7. DropOnlyAfterPause
  BY <1>1 DEF DropOnlyAfterPause
<1>8. PoolCharged
  <2>1. IsFiniteSet(Queue)
    BY MmuAssumption, FS_Product DEF Queue
  <2>2. \A q \in Queue : Held[q] = 0
    BY <1>1, MmuAssumption DEF Queue, Held, GetSharedUsed, Excess
  <2>3. SumFunctionOnSet(Held, Queue) = Cardinality(Queue) * 0
    BY <2>1, <2>2, SumConstant
  <2> QED
    BY <1>1, <2>1, <2>3, FS_CardinalityType DEF PoolCharged
<1> QED
  BY <1>4, <1>5, <1>6, <1>7, <1>8 DEF MmuInv

LEMMA NextInv == ASSUME MmuInv, [MmuNext]_mmuVars PROVE MmuInv'
<1>1. CASE MmuNext
  <2>1. PICK p \in Port, c \in Class, psize \in Size :
            SendToDev(p, c, psize) \/ SwitchNotifyDequeue(p, c, psize)
    BY <1>1 DEF MmuNext
  <2>2. CASE Admit(p, c, psize)
    BY <2>2, AdmitKeeps
  <2>3. CASE Drop(p, c, psize)
    BY <2>3, DropKeeps
  <2>4. CASE SwitchNotifyDequeue(p, c, psize)
    BY <2>4, DequeueKeeps
  <2> QED
    BY <2>1, <2>2, <2>3, <2>4 DEF SendToDev
<1>2. CASE UNCHANGED mmuVars
  BY <1>2 DEF mmuVars, MmuInv, Typed, OffUnpaused, Charged, PoolCharged, Held, GetSharedUsed, PoolBound, HeadroomBound,
              HeadroomPaused, PausedHolds, DropOnlyAfterPause
<1> QED
  BY <1>1, <1>2

LEMMA MmuInvariant == MmuSpec => []MmuInv
BY InitInv, NextInv, PTL DEF MmuSpec

\* The pool is never overdrawn, whatever the sizes, scales and headrooms: the
\* subtraction in GetPfcThreshold never wraps.
THEOREM PoolNeverOverdrawn == MmuSpec => []PoolBound
<1>1. MmuInv => PoolBound
  BY DEF MmuInv
<1> QED
  BY <1>1, MmuInvariant, PTL

\* CheckIngressAdmission and UpdateIngressAdmission decide by different sums;
\* together they keep every queue within the headroom of its port.
THEOREM HeadroomNeverExceeded == MmuSpec => []HeadroomBound
<1>1. MmuInv => HeadroomBound
  BY DEF MmuInv
<1> QED
  BY <1>1, MmuInvariant, PTL

\* Headroom is used only while PAUSE is in force.
THEOREM HeadroomOnlyWhilePaused == MmuSpec => []HeadroomPaused
<1>1. MmuInv => HeadroomPaused
  BY DEF MmuInv
<1> QED
  BY <1>1, MmuInvariant, PTL

\* The dequeue that empties a paused queue sends RESUME.
THEOREM NoEmptyQueuePaused == MmuSpec => []PausedHolds
<1>1. MmuInv => PausedHolds
  BY DEF MmuInv
<1> QED
  BY <1>1, MmuInvariant, PTL

\* A packet that fits the headroom is refused only after PAUSE.
THEOREM NoDropBeforePause == MmuSpec => []DropOnlyAfterPause
<1>1. MmuInv => DropOnlyAfterPause
  BY DEF MmuInv
<1> QED
  BY <1>1, MmuInvariant, PTL

\* Every counter is charged with exactly what is stored, in whatever sizes and
\* whatever order packets come and go: the shares that UpdateIngressAdmission takes
\* and RemoveFromIngressAdmission gives back cancel.
THEOREM AccountsBalance == MmuSpec => []Accounting
<1>1. MmuInv => Accounting
  BY DEF MmuInv, Charged, PoolCharged, Held, Accounting
<1> QED
  BY <1>1, MmuInvariant, PTL

LEMMA QueuesFinite == IsFiniteSet(Queue) /\ Cardinality(Queue) = Cardinality(Port) * Cardinality(Class)
BY MmuAssumption, FS_Product DEF Queue

LEMMA SharedNat == ASSUME MmuInv PROVE shared \in Nat
<1>1. \A q \in Queue : Held[q] \in Nat
  BY MmuAssumption DEF MmuInv, Typed, PerQueue, Queue, Held, GetSharedUsed, Excess
<1>2. SumFunctionOnSet(Held, Queue) \in Nat
  BY <1>1, QueuesFinite, SumNat
<1> QED
  BY <1>2 DEF MmuInv, PoolCharged

\* No counter of the MMU goes below zero: no unsigned subtraction of it wraps.
THEOREM CountersNeverWrap == MmuSpec => []MmuTypeOK
<1>1. MmuInv => MmuTypeOK
  BY SharedNat DEF MmuInv, Typed, MmuTypeOK
<1> QED
  BY <1>1, MmuInvariant, PTL

\* What a queue may hold at most: its reserve, what it has of the pool, and the
\* headroom of its port
LEMMA QueueBound ==
    ASSUME MmuInv
    PROVE  SumFunctionOnSet([q \in Queue |-> stored[q[1]][q[2]]], Queue)
               <= Cardinality(Queue) * Reserve + shared + Cardinality(Class) * TotalHdrm
<1> DEFINE bytes == [q \in Queue |-> stored[q[1]][q[2]]]
           room  == [q \in Queue |-> Headroom[q[1]]]
           base  == [q \in Queue |-> Reserve]
           rest  == [q \in Queue |-> Held[q] + room[q]]
           bound == [q \in Queue |-> base[q] + rest[q]]
<1>1. ASSUME NEW q \in Queue
      PROVE  /\ bytes[q] \in Nat /\ Held[q] \in Nat /\ room[q] \in Nat /\ base[q] = Reserve
             /\ rest[q] = Held[q] + room[q] /\ bound[q] = base[q] + rest[q]
             /\ bytes[q] <= Reserve + (Held[q] + room[q])
  <2>1. q[1] \in Port /\ q[2] \in Class
    BY DEF Queue
  <2>2. /\ stored[q[1]][q[2]] \in Nat /\ ingress[q[1]][q[2]] \in Nat /\ hdrm[q[1]][q[2]] \in Nat
        /\ stored[q[1]][q[2]] = ingress[q[1]][q[2]] + hdrm[q[1]][q[2]]
        /\ hdrm[q[1]][q[2]] <= Headroom[q[1]] /\ Headroom[q[1]] \in Nat /\ Reserve \in Nat
    BY <2>1, MmuAssumption DEF MmuInv, Typed, PerQueue, Charged, HeadroomBound
  <2>3. Held[q] = Excess(ingress[q[1]][q[2]])
    BY DEF Held, GetSharedUsed
  <2>4. /\ Excess(ingress[q[1]][q[2]]) \in Nat
        /\ ingress[q[1]][q[2]] <= Reserve + Excess(ingress[q[1]][q[2]])
    BY <2>2 DEF Excess
  <2>5. bytes[q] = stored[q[1]][q[2]] /\ room[q] = Headroom[q[1]] /\ base[q] = Reserve
    OBVIOUS
  <2>6. rest[q] = Held[q] + room[q] /\ bound[q] = base[q] + rest[q]
    OBVIOUS
  <2> HIDE DEF bytes, room, base, rest, bound
  <2> QED
    BY <2>2, <2>3, <2>4, <2>5, <2>6
<1> SUFFICES SumFunctionOnSet(bytes, Queue)
                 <= Cardinality(Queue) * Reserve + shared + Cardinality(Class) * TotalHdrm
  OBVIOUS
<1>2. \A q \in Queue : room[q] = Headroom[q[1]]
  OBVIOUS
<1> HIDE DEF bytes, room, base, rest, bound
<1>3. Reserve \in Nat
  BY MmuAssumption
<1>4. SumFunctionOnSet(bytes, Queue) <= SumFunctionOnSet(bound, Queue)
  <2>1. ASSUME NEW q \in Queue PROVE bytes[q] \in Int /\ bound[q] \in Int /\ bytes[q] <= bound[q]
    BY <1>1, <1>3
  <2> QED
    BY <2>1, QueuesFinite, SumMonotone
<1>5. SumFunctionOnSet(bound, Queue) = SumFunctionOnSet(base, Queue) + SumFunctionOnSet(rest, Queue)
  <2>1. ASSUME NEW q \in Queue PROVE base[q] \in Int /\ rest[q] \in Int /\ bound[q] = base[q] + rest[q]
    BY <1>1, <1>3
  <2> QED
    BY <2>1, QueuesFinite, SumPlus
<1>6. SumFunctionOnSet(rest, Queue) = SumFunctionOnSet(Held, Queue) + SumFunctionOnSet(room, Queue)
  <2>1. ASSUME NEW q \in Queue PROVE Held[q] \in Int /\ room[q] \in Int /\ rest[q] = Held[q] + room[q]
    BY <1>1
  <2> QED
    BY <2>1, QueuesFinite, SumPlus
<1>7. SumFunctionOnSet(base, Queue) = Cardinality(Queue) * Reserve
  BY <1>1, <1>3, QueuesFinite, SumConstant
<1>8. SumFunctionOnSet(room, Queue) = Cardinality(Class) * TotalHdrm
  <2>1. \A p \in Port : Headroom[p] \in Int
    BY MmuAssumption
  <2>2. \A q \in Port \X Class : room[q] = Headroom[q[1]]
    BY <1>2 DEF Queue
  <2>3. SumFunctionOnSet(room, Port \X Class) = Cardinality(Class) * SumFunctionOnSet(Headroom, Port)
    BY <2>1, <2>2, MmuAssumption, SumRows
  <2> QED
    BY <2>3 DEF Queue, TotalHdrm
<1>9. SumFunctionOnSet(Held, Queue) = shared
  BY DEF MmuInv, PoolCharged
<1>10. SumFunctionOnSet(bound, Queue)
           = Cardinality(Queue) * Reserve + (shared + Cardinality(Class) * TotalHdrm)
  BY <1>5, <1>6, <1>7, <1>8, <1>9
<1>11. /\ Cardinality(Queue) * Reserve \in Int /\ shared \in Int
       /\ Cardinality(Class) * TotalHdrm \in Int
  <2>1. Cardinality(Queue) \in Nat /\ Cardinality(Class) \in Nat
    BY QueuesFinite, MmuAssumption, FS_CardinalityType
  <2>2. TotalHdrm \in Int
    BY MmuAssumption, SumType DEF TotalHdrm
  <2> QED
    BY <1>3, <2>1, <2>2, SharedNat
<1> QED
  BY <1>4, <1>10, <1>11

\* The switch never holds more than its buffer and, for each class beyond the first,
\* the reserves and headrooms that every class of a port is granted once more.
THEOREM BufferNeverOverflows == MmuSpec => []BufferBound
<1>1. ASSUME MmuInv PROVE BufferBound
  <2> DEFINE total == SumFunctionOnSet([q \in Queue |-> stored[q[1]][q[2]]], Queue)
             ports == Cardinality(Port)
             classes == Cardinality(Class)
  <2>1. ports \in Nat /\ classes \in Nat
    BY MmuAssumption, FS_CardinalityType
  <2>2. Reserve \in Nat /\ TotalHdrm \in Nat
    BY MmuAssumption, SumNat DEF TotalHdrm
  <2>3. TotalRsrv = ports * Reserve
    <3> DEFINE base == [p \in Port |-> Reserve]
    <3>1. \A p \in Port : base[p] = Reserve
      OBVIOUS
    <3>2. TotalRsrv = SumFunctionOnSet(base, Port)
      BY DEF TotalRsrv
    <3> HIDE DEF base
    <3>3. Reserve \in Int /\ IsFiniteSet(Port)
      BY MmuAssumption
    <3> QED
      BY <3>1, <3>2, <3>3, SumConstant
  <2>4. total <= (ports * classes) * Reserve + shared + classes * TotalHdrm
    BY <1>1, QueueBound, QueuesFinite
  <2>5. total \in Int
    <3>1. \A q \in Queue : [r \in Queue |-> stored[r[1]][r[2]]][q] \in Int
      BY <1>1 DEF MmuInv, Typed, PerQueue, Queue
    <3> QED
      BY <3>1, QueuesFinite, SumType
  <2>6. shared \in Nat /\ shared <= Buffer - TotalHdrm - TotalRsrv /\ Buffer \in Int
    BY <1>1, SharedNat, MmuAssumption DEF MmuInv, PoolBound, Pool
  <2> HIDE DEF total, ports, classes
  <2>7. (ports * classes) * Reserve = classes * TotalRsrv /\ TotalRsrv \in Nat
    BY <2>1, <2>2, <2>3
  <2>8. (classes - 1) * (TotalHdrm + TotalRsrv) = classes * TotalRsrv + classes * TotalHdrm - TotalHdrm - TotalRsrv
    BY <2>1, <2>2, <2>7
  <2>9. classes * TotalRsrv \in Int /\ classes * TotalHdrm \in Int
    BY <2>1, <2>2, <2>7
  <2>10. total <= Buffer + (classes - 1) * (TotalHdrm + TotalRsrv)
    BY <2>1, <2>2, <2>4, <2>5, <2>6, <2>7, <2>8, <2>9
  <2> QED
    BY <2>10 DEF BufferBound, total, classes
<1> QED
  BY <1>1, MmuInvariant, PTL
=============================================================================
