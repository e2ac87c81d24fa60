-------------------------- MODULE MCRdmaTransport --------------------------
(***************************************************************************)
(* Short programs over one queue pair.  With an MTU of 2 a message of 5    *)
(* is three packets, the last of them short.                               *)
(***************************************************************************)
EXTENDS RdmaTransport

FourMessages  == <<7, 2, 5, 8>>
TwoMessages   == <<5, 8>>
AlignedMessages == <<4, 8>>
=============================================================================
