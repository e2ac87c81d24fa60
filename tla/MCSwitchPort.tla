---------------------------- MODULE MCSwitchPort ----------------------------
(***************************************************************************)
(* Two ports with two classes, traffic both ways.                          *)
(***************************************************************************)
EXTENDS SwitchPort

SmallFlow     == {<<1, 2, 1>>, <<1, 2, 2>>, <<2, 1, 1>>}
SmallHeadroom == [p \in Port |-> 1]
SmallScale    == [p \in Port |-> IF p = 1 THEN 1 ELSE 2]
=============================================================================
