---------------------------- MODULE MCNicEgress ----------------------------
(***************************************************************************)
(* Two queue pairs in two classes.                                         *)
(***************************************************************************)
EXTENDS NicEgress

CONSTANTS c1, c2

SmallPg == [q \in Qp |-> IF q = 0 THEN c1 ELSE c2]
=============================================================================
