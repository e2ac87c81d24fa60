---------------------------- MODULE MCSwitchMmu ----------------------------
(***************************************************************************)
(* Small switches.  The unit of size is a small packet.                    *)
(***************************************************************************)
EXTENDS SwitchMmu

CONSTANTS p1, p2, c1, c2

\* Ports of two speeds: the faster has more headroom and a larger share of the
\* pool.
SmallHeadroom == [p \in Port |-> IF p = p1 THEN 3 ELSE 2]
SmallScale    == [p \in Port |-> IF p = p1 THEN 1 ELSE 2]
=============================================================================
