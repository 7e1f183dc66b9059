---------------------------- MODULE DebounceSpec ----------------------------
(***************************************************************************)
(* What debouncing one digital input promises, stated over the stream of   *)
(* readings alone: the output takes a new value exactly when the last      *)
(* Window readings were all that value; the first reading after a start or *)
(* a reload is taken as it is.  How that is computed is left open;         *)
(* Debounce.tla is the program's way of computing it.                      *)
(***************************************************************************)
EXTENDS Naturals

CONSTANTS
    Values,     \* what a reading may be
    NoValue,    \* "nothing read since the last start"
    Window      \* number of equal readings a change needs

VARIABLES
    out,        \* the value handed to the rules
    last,       \* the latest reading
    streak      \* how many of the latest readings equal it, up to Window

vars == <<out, last, streak>>

Init == out = NoValue /\ last = NoValue /\ streak = 0

\* Length of the run of equal readings once v is read, counted up to Window.
StreakWith(v) ==
    IF v # last THEN 1
    ELSE IF streak < Window THEN streak + 1 ELSE Window

Read(v) ==
    /\ last' = v
    /\ streak' = StreakWith(v)
    /\ out' = IF out = NoValue \/ StreakWith(v) = Window THEN v ELSE out

Restart == out' = NoValue /\ last' = NoValue /\ streak' = 0

Next == Restart \/ \E v \in Values : Read(v)

Spec == Init /\ [][Next]_vars
=============================================================================
