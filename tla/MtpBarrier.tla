----------------------------- MODULE MtpBarrier -----------------------------
(***************************************************************************)
(* What the rounds of the multithreaded simulator promise the logical      *)
(* processes: a round lets every system run once, then the public one      *)
(* alone, then lets every system take its messages once, then looks at all *)
(* of them; systems of one phase run in any order, several at a time, and  *)
(* no phase begins before the one before is over.  After the last round    *)
(* (phase "stopped") systems may take messages once more.                  *)
(***************************************************************************)

CONSTANT System

VARIABLES
    phase,      \* "events", "receive" or "stopped"
    pending,    \* systems that have not run in this phase
    running     \* systems that are running

vars == <<phase, pending, running>>

Init == phase = "events" /\ pending = System /\ running = {}

Start(s) ==
    /\ s \in pending
    /\ pending' = pending \ {s} /\ running' = running \cup {s}
    /\ UNCHANGED phase

Finish(s) ==
    /\ s \in running
    /\ running' = running \ {s}
    /\ UNCHANGED <<phase, pending>>

Over == pending = {} /\ running = {}

\* From here until the phase changes the public system may run; then the messages
Receive ==
    /\ phase = "events" /\ Over
    /\ phase' = "receive" /\ pending' = System
    /\ UNCHANGED running

NextRound ==
    /\ phase = "receive" /\ Over
    /\ phase' \in {"events", "stopped"} /\ pending' = System
    /\ UNCHANGED running

Next ==
    \/ \E s \in System : Start(s) \/ Finish(s)
    \/ Receive
    \/ NextRound

Spec == Init /\ [][Next]_vars

=============================================================================
