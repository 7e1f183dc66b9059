---------------------------- MODULE MCRuleEngine ----------------------------
(***************************************************************************)
(* Rules in the manner of the seed configuration, each with the one         *)
(* condition the validator allows: a button that pulses a lamp, a fault    *)
(* code that switches an alarm, and one that pulses a valve low.           *)
(***************************************************************************)
EXTENDS RuleEngine

CONSTANTS btn, fault, led, valve, alarm, ioModule, plc

Pulse(o, v, n) == [action |-> "pulse", point |-> o, value |-> v, ms |-> n]
Set(o, v) == [action |-> "set", point |-> o, value |-> v]
Event == [action |-> "log_event"]
Rising(i) == [point |-> i, op |-> "rising"]
Falling(i) == [point |-> i, op |-> "falling"]
Within(i, a, b) == [point |-> i, op |-> "between", low |-> a, high |-> b]
Rule(m, w, t, e) == [enabled |-> TRUE, match |-> m, when |-> w, then |-> t, else |-> e]

Levels == [i \in {btn, fault} |-> IF i = btn THEN {0, 1} ELSE {0, 7}]
AtRest == [o \in Outputs |-> o = valve]
Wiring == [o \in Outputs |-> IF o = alarm THEN plc ELSE ioModule]

ButtonPulsesLamp == Rule("all", {Rising(btn)}, <<Pulse(led, TRUE, 2), Event>>, <<>>)
FaultSwitchesAlarm ==
    Rule("all", {Within(fault, 1, 99)}, <<Set(alarm, TRUE)>>, <<Set(alarm, FALSE)>>)
FaultPurges == Rule("any", {Within(fault, 7, 7)}, <<Pulse(valve, FALSE, 2)>>, <<>>)
ReleaseIsLogged == Rule("all", {Falling(btn)}, <<Event>>, <<>>)
Disabled == [FaultPurges EXCEPT !.enabled = FALSE]

\* An action on a point that is an input: validate_io only asks that it exists.
SetsAnInput == Rule("all", {Within(fault, 7, 7)}, <<Set(fault, TRUE)>>, <<>>)

SeedRules == <<ButtonPulsesLamp, FaultSwitchesAlarm>>
PurgeRules == <<ButtonPulsesLamp, FaultPurges, ReleaseIsLogged, Disabled>>
RaisingRules == <<ButtonPulsesLamp, SetsAnInput>>
=============================================================================
