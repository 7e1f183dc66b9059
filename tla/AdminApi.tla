------------------------------ MODULE AdminApi ------------------------------
(***************************************************************************)
(* The admin tier of api/app.py: identity and system requests served by    *)
(* the same threads of one process, which may crash between any two steps. *)
(***************************************************************************)
EXTENDS IdentityStore, SystemStore

vars == <<process, pc, identityVars, systemVars>>

Init ==
    /\ process = "down" /\ pc = [h \in Handlers |-> "idle"]
    /\ IdentityInit /\ SystemInit

Crash ==
    /\ process # "down" /\ process' = "down"
    /\ pc' = [h \in Handlers |-> "idle"]
    /\ IdentityCrash /\ SystemCrash

Next ==
    \/ IdentityNext /\ UNCHANGED systemVars
    \/ SystemNext /\ UNCHANGED identityVars
    \/ Crash

Spec == Init /\ [][Next]_vars

\* Type invariant of the two stores and the threads they share.
TypeOK ==
    /\ process \in {"down", "booting", "up"}
    /\ pc \in [Handlers -> {"idle", "open identity", "write identity", "rename identity",
                            "file event", "apply", "open system", "write system",
                            "rename system"}]
    /\ process # "up" => \A h \in Handlers : pc[h] = "idle"
    /\ IdentityTypeOK /\ SystemTypeOK
=============================================================================
