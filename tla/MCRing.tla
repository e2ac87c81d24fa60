------------------------------- MODULE MCRing -------------------------------
(***************************************************************************)
(* The ring all-reduce of examples/allstack/algos (allreduce_ring_8_1.xml, *)
(* allreduce_hierarchical_8_1.xml) on three GPUs with one block each: the  *)
(* same step types in the same order, with fewer repetitions.              *)
(***************************************************************************)
EXTENDS TimedThreadBlock

CONSTANTS r0, r1, r2

St(type) == [type |-> type, dep |-> NoTB, deps |-> 0, hasdep |-> FALSE]

RingGPU    == {0, 1, 2}
RingTB     == {r0, r1, r2}
RingNode   == [t \in RingTB |-> CASE t = r0 -> 0 [] t = r1 -> 1 [] t = r2 -> 2]
RingBlocks == [g \in RingGPU |-> CASE g = 0 -> <<r0>> [] g = 1 -> <<r1>> [] g = 2 -> <<r2>>]
RingSteps  == [t \in RingTB |->
                  <<St("s"), St("rrs"), St("rrcs"), St("rcs"), St("r")>>]
RingPeer   == [t \in RingTB |-> CASE t = r0 -> r1 [] t = r1 -> r2 [] t = r2 -> r0]
=============================================================================
