---------------------------- MODULE MCHotReload ----------------------------
(***************************************************************************)
(* A lamp (rests off) and a normally-closed valve (rests on), and documents *)
(* that move, swap or drop outputs, or swap them and have the lamp rest on.  *)
(* The version 1 document passes validate_io but has no bus.transport to     *)
(* build clients by.                                                        *)
(***************************************************************************)
EXTENDS HotReload

CONSTANTS lamp, valve, k1, k2, k3,
          base1, edited, moved, swapped, dropped, rewired, version1

Place(c, p) ==
    CASE c = version1               -> None
      [] c = dropped /\ p = lamp    -> None
      [] c = moved /\ p = lamp      -> k3
      [] c \in {swapped, rewired}   -> IF p = lamp THEN k2 ELSE k1
      [] OTHER                      -> IF p = lamp THEN k1 ELSE k2

Places == [c \in Configs |-> [p \in Points |-> Place(c, p)]]

SafeStates == [c \in Configs |-> [p \in Points |-> p = valve \/ c = rewired]]

CanBuild == Configs \ {version1}
=============================================================================
