---------------------------- MODULE MCEngineSwap ----------------------------
(***************************************************************************)
(* Two points on two units.  The documents renumber the units, drop a      *)
(* point together with its device, and add it again.                       *)
(***************************************************************************)
EXTENDS EngineSwap

CONSTANTS lamp, valve, h1, h2

MCPoints == {lamp, valve}
MCUnits == {1, 2}
MCHosts == {h1, h2}

Document(units, hosts, outs) == [unit |-> units, host |-> hosts, outputs |-> outs]
On(l, v) == [p \in MCPoints |-> IF p = lamp THEN l ELSE v]

Both == Document(On(1, 2), <<h1, h2>>, {lamp, valve})
Renumbered == Document(On(2, 1), <<h2, h1>>, {lamp, valve})
LampOnly == Document(On(1, None), <<h1, None>>, {lamp})

MCDocs == {Both, Renumbered, LampOnly}
MCStart == Both
=============================================================================
