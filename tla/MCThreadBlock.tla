--------------------------- MODULE MCThreadBlock ---------------------------
(***************************************************************************)
(* Programs for ThreadBlock.                                               *)
(***************************************************************************)
EXTENDS ThreadBlock

CONSTANTS a0, a1, a2, b0, b1, b2, A, B

St(type)            == [type |-> type, dep |-> NoTB, deps |-> 0, hasdep |-> FALSE]
Announced(step)     == [step EXCEPT !.hasdep = TRUE]
After(step, t, s)   == [step EXCEPT !.dep = t, !.deps = s]

MCGPU  == {A, B}
MCTB   == {a0, a1, a2, b0, b1, b2}
MCNode == [t \in MCTB |-> IF t \in {a0, a1, a2} THEN A ELSE B]
MCBlocks == [g \in MCGPU |-> IF g = A THEN <<a0, a1, a2>> ELSE <<b0, b1, b2>>]

\* Two GPUs that exchange messages both ways.  Blocks a1 and a2 wait through
\* chains of nop steps, the compiler's way to give a step several dependencies.  The
\* receiving step of b1 waits for the first step of b0; its message is sent by a1 only
\* after b0's message, the next step of b0, has come, so never too early for it.
MCSteps == [t \in MCTB |->
    CASE t = a0 -> <<Announced(St("s")), Announced(St("r")), St("re")>>
      [] t = a1 -> <<Announced(After(St("nop"), a0, 2)), After(St("nop"), a2, 1),
                     After(St("s"), a0, 1)>>
      [] t = a2 -> <<Announced(After(St("nop"), a1, 1)), After(St("s"), a0, 1)>>
      [] t = b0 -> <<Announced(St("re")), St("s"), Announced(St("rrc"))>>
      [] t = b1 -> <<After(St("r"), b0, 1), After(Announced(St("nop")), b0, 3)>>
      [] t = b2 -> <<St("rrc"), After(St("nop"), b1, 2), After(St("re"), b0, 3)>>]
MCPeer == [t \in MCTB |->
    CASE t = a0 -> b0 [] t = a1 -> b1 [] t = a2 -> b2 [] t = b0 -> a0
      [] OTHER -> NoTB]

\* Two blocks of one GPU: the receiving step of the second waits for the first
\* step of the first, and the message comes from another GPU.
WaitTB    == {a0, a1, b0}
WaitNode  == [t \in WaitTB |-> IF t = b0 THEN B ELSE A]
WaitBlocks == [g \in MCGPU |-> IF g = A THEN <<a0, a1>> ELSE <<b0>>]
WaitSteps == [t \in WaitTB |->
    CASE t = a0 -> <<Announced(St("re"))>>
      [] t = a1 -> <<After(St("r"), a0, 1), St("re")>>
      [] t = b0 -> <<St("s")>>]
WaitPeer  == [t \in WaitTB |-> IF t = b0 THEN a1 ELSE NoTB]
============================================================================
