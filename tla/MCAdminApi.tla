----------------------------- MODULE MCAdminApi -----------------------------
(***************************************************************************)
(* AdminApi with interchangeable threads, field values and boot_ids.       *)
(***************************************************************************)
EXTENDS AdminApi, TLC

Symmetry == Permutations(Handlers) \cup Permutations(Values) \cup Permutations(BootIds)
=============================================================================
