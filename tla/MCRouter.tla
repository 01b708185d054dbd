------------------------------ MODULE MCRouter ------------------------------
(* Model-checking instance of Router: two listener applications sharing    *)
(* one listener slot, two request applications sharing one waker slot.    *)
EXTENDS Router, TLC

CONSTANTS TA, TB, E1, L1, L2, l1, l2, r1, r2

MCTypes == {TA, TB}
MCPeers == {E1}
MCListenerApps == {l1, l2}
MCReqApps == {r1, r2}

\* Applications of one kind are interchangeable: no action names one.
MCSymmetry == Permutations(MCListenerApps) \cup Permutations(MCReqApps)
=============================================================================
