--------------------------- MODULE MCAtomicWrite ---------------------------
(***************************************************************************)
(* Who runs the writers of AtomicWrite: two processes, or two threads of   *)
(* one.                                                                    *)
(***************************************************************************)
EXTENDS AtomicWrite

CONSTANTS w1, w2, p1, p2

TwoProcesses == [w \in Writers |-> IF w = w1 THEN p1 ELSE p2]
TwoThreads == [w \in Writers |-> p1]
=============================================================================
