---------------------------- MODULE MCOtaUpdate ----------------------------
(***************************************************************************)
(* Documents that answer, one whose module does not, one that is refused.   *)
(***************************************************************************)
EXTENDS OtaUpdate

CONSTANTS good, other, dead, bad

Responding == {good, other}
=============================================================================
