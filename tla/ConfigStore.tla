----------------------------- MODULE ConfigStore -----------------------------
(***************************************************************************)
(* What the engine, io_config.json and the backups promise together: a     *)
(* store that has one document in force and replaces it in one step.  A    *)
(* document comes into force only if it is valid and was sent, edited into *)
(* the file or in force before, and, unless the process was down, only     *)
(* when the one that goes is kept, both as the previous document and in    *)
(* the history under its version.  ConfigLifecycle implements it, one      *)
(* handler or cycle at a time.                                             *)
(***************************************************************************)
EXTENDS Integers

CONSTANTS
    Documents,      \* records with a version
    Valid,          \* those that may be in force
    Versions,
    None

VARIABLES
    active,         \* the document in force
    stored,         \* what a restart will find
    previous,       \* the last document that was replaced, or is about to be
    history,        \* version -> document
    chosen,         \* the document that is to come into force, or has just done so: a
                    \* set of at most one
    up

Init ==
    /\ active \in Valid /\ stored = active
    /\ previous = None /\ history = [v \in Versions |-> None]
    /\ chosen = {} /\ up = TRUE

Kept == {previous} \cup {history[v] : v \in Versions}

\* A document is sent, found in the file or fetched from the backups.
Choose(d) ==
    /\ up /\ chosen = {} /\ chosen' = {d}
    /\ \/ d \in Valid /\ d.version = active.version + 1
       \/ d = stored
       \/ d \in Kept \cap Valid
    /\ UNCHANGED <<active, stored, previous, history, up>>

KeepAsPrevious ==
    /\ chosen # {} /\ previous' = active
    /\ UNCHANGED <<active, stored, history, chosen, up>>

KeepInHistory ==
    /\ chosen # {} /\ history' = [history EXCEPT ![active.version] = active]
    /\ UNCHANGED <<active, stored, previous, chosen, up>>

Replace ==
    /\ previous = active /\ history[active.version] = active
    /\ active' \in chosen \cap Valid
    /\ UNCHANGED <<stored, previous, history, chosen, up>>

\* What was sent is in force, and is stored before the client is told so.
Publish ==
    /\ chosen = {active} /\ chosen' = {} /\ stored' = active
    /\ UNCHANGED <<active, previous, history, up>>

\* What was found in the file is in force, or old, or not valid.
LetGo ==
    /\ chosen # {} /\ chosen' = {}
    /\ UNCHANGED <<active, stored, previous, history, up>>

Edit(d) ==
    /\ d.version = stored.version + 1 /\ stored' = d
    /\ UNCHANGED <<active, previous, history, chosen, up>>

Crash ==
    /\ up /\ up' = FALSE /\ chosen' = {}
    /\ UNCHANGED <<active, stored, previous, history>>

Resume ==
    /\ ~up /\ up' = TRUE /\ stored \in Valid /\ active' = stored
    /\ UNCHANGED <<stored, previous, history, chosen>>

Next ==
    \/ \E d \in Documents : Choose(d) \/ Edit(d)
    \/ KeepAsPrevious \/ KeepInHistory \/ Replace \/ Publish \/ LetGo
    \/ Crash \/ Resume

Spec == Init /\ [][Next]_<<active, stored, previous, history, chosen, up>>
=============================================================================
