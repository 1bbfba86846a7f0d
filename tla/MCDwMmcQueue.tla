--------------------------- MODULE MCDwMmcQueue ---------------------------
(***************************************************************************)
(* Three interchangeable packets for the safety runs of DwMmcQueue.        *)
(***************************************************************************)
EXTENDS DwMmcQueue, TLC

CONSTANTS r1, r2, r3

MCReq == {r1, r2, r3}

\* Sound for invariants: the specification treats all packets alike.
Symmetry == Permutations(MCReq)
=============================================================================
