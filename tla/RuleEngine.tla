----------------------------- MODULE RuleEngine -----------------------------
(***************************************************************************)
(* engine/rule_engine.py: one evaluate_cycle per poll cycle over the       *)
(* effective readings, and the pulses it has to take back.  A cycle is one *)
(* step, as for the poll thread alone (HotReload has the second thread that *)
(* may cycle beside it).  A cycle is a sequence of calls, and an exception *)
(* ends it half way: an action on a point that is not an output, or any    *)
(* event that cannot be filed.  Pending reverts keep the time left instead *)
(* of a deadline, so no clock has to be bounded.                           *)
(***************************************************************************)
EXTENDS Integers, SequencesExt

CONSTANTS
    Inputs,         \* points the cycle reads
    Domain,         \* values of each; a digital input reads Low or High
    Low, High,
    Outputs,
    SafeState,      \* what a reload drives each output to
    Rules,          \* sequence of [enabled, match, when, then, else]
    None,           \* no value: a stale reading, or a point never read
    Elapsed,        \* how far the clock may move from one cycle to the next
    Devices,        \* Modbus devices that may stop answering writes
    WiredTo

RuleIds == 1 .. Len(Rules)
Points == Inputs \cup Outputs

\* Rules that act only on a rising edge.
RisingRules ==
    {i \in RuleIds : Rules[i].enabled /\ Rules[i].else = <<>>
                     /\ \A c \in Rules[i].when : c.op = "rising"}

Conditions ==
    [point : Inputs, op : {"rising", "falling"}]
      \cup [point : Inputs, op : {"between"}, low : Int, high : Int]

ActionRecords ==
    [action : {"log_event"}]
      \cup [action : {"set"}, point : Points, value : BOOLEAN]
      \cup [action : {"pulse"}, point : Points, value : BOOLEAN, ms : Nat \ {0}]

RuleRecords ==
    [enabled : BOOLEAN, match : {"all", "any"}, when : SUBSET Conditions,
     then : Seq(ActionRecords), else : Seq(ActionRecords)]

\* The rules are typed as the schema and ConfigIntake's Tidy have it, with the one
\* condition each that validators.py:95-102 allows.
ASSUME RuleEngineAssumption ==
    /\ Rules \in Seq(RuleRecords)
    /\ \A i \in RuleIds : \E c \in Rules[i].when : Rules[i].when = {c}
    /\ SafeState \in [Outputs -> BOOLEAN]
    /\ Elapsed \subseteq Nat
    /\ Low # High /\ None # Low /\ None # High

VARIABLES
    prevValues,     \* _prev_values
    pulses,         \* _pending_reverts: sequence of [point, left, value]
    coil,
    faulted,        \* history: outputs whose last write failed
    acted,          \* history: rules whose actions the latest step came to
    armed,          \* history: rising rules whose input was Low since they last acted
    whole,          \* history: the latest cycle ran to its end
    lost,           \* history: energized outputs whose revert went with a cut cycle
    repeats         \* history: rising rules that acted in cut cycles since a whole one

history == <<faulted, acted, armed, whole, lost, repeats>>
vars == <<prevValues, pulses, coil, history>>

Init ==
    /\ prevValues = [i \in Inputs |-> None]
    /\ pulses = <<>>
    /\ coil = SafeState
    /\ faulted = {} /\ acted = {}
    /\ armed = {}
    /\ whole = TRUE /\ lost = {} /\ repeats = {}

-----------------------------------------------------------------------------
\* Slip: an edge without a witnessed previous value.
EvaluateUnwitnessed(c, r) ==
    /\ r[c.point] # None
    /\ CASE c.op = "rising"  -> prevValues[c.point] # High /\ r[c.point] = High
         [] c.op = "falling" -> prevValues[c.point] # Low /\ r[c.point] = Low
         [] c.op = "between" -> c.low <= r[c.point] /\ r[c.point] <= c.high

\* _evaluate_condition.  A stale reading never matches, an edge needs the value
\* of the cycle before; the ordering operators are intervals.
EvaluateCondition(c, r) ==
    /\ r[c.point] # None
    /\ CASE c.op = "rising"  -> prevValues[c.point] = Low /\ r[c.point] = High
         [] c.op = "falling" -> prevValues[c.point] = High /\ r[c.point] = Low
         [] c.op = "between" -> c.low <= r[c.point] /\ r[c.point] <= c.high

\* _evaluate_when.
EvaluateWhen(rule, r) ==
    IF rule.match = "all"
      THEN \A c \in rule.when : EvaluateCondition(c, r)
      ELSE \E c \in rule.when : EvaluateCondition(c, r)

Chosen(rule, r) == IF EvaluateWhen(rule, r) THEN rule.then ELSE rule.else

-----------------------------------------------------------------------------
\* Slip: > where the program has >=, so that a revert whose time is up stays.
AgeLate(p, t) == [p EXCEPT !.left = IF p.left < t THEN 0 ELSE p.left - t + 1]

Age(p, t) == [p EXCEPT !.left = IF p.left < t THEN 0 ELSE p.left - t]

\* The listed reverts with their age, those whose time left is one of these.
Aged(t, lefts) ==
    FlattenSeq([k \in DOMAIN pulses |->
        IF Age(pulses[k], t).left \in lefts THEN <<Age(pulses[k], t)>> ELSE <<>>])

\* _apply_pending_reverts: what is due is written back, the rest stays listed.
DueReverts(t) == Aged(t, {0})

\* Slips: the list loses a revert that is nearly due, or keeps what it wrote.
LosesNearlyDue(t) == Aged(t, Nat \ {0, 1})
KeepsWritten(t) == Aged(t, Nat)

StillPending(t) == Aged(t, Nat \ {0})

-----------------------------------------------------------------------------
\* The calls of a cycle.  _apply_pending_reverts comes first: what is due is set back,
\* on behalf of no rule.
Engine == 0

RevertCalls(due) ==
    [k \in DOMAIN due |->
        [rule |-> Engine,
         act |-> [action |-> "set", point |-> due[k].point, value |-> due[k].value]]]

\* Then the actions the rules call for, in the order of the rules, each with its rule.
Called(r) ==
    FlattenSeq([i \in RuleIds |->
        LET branch == IF Rules[i].enabled THEN Chosen(Rules[i], r) ELSE <<>>
        IN  [k \in DOMAIN branch |-> [rule |-> i, act |-> branch[k]]]])

\* An action on a point that is not an output makes write_point raise.
Raises(a) == a.act.action # "log_event" /\ a.act.point \notin Outputs

\* _run_actions goes on up to the first action that raises.
UpToRaising(calls) ==
    LET bad == SelectInSeq(calls, Raises)
    IN  IF bad = 0 THEN calls ELSE SubSeq(calls, 1, bad - 1)

\* Where a cycle may end: every call files an event after its write, and log_event may
\* raise there.  Then the write of the latest call is done and its event is not filed.
Ends(calls) ==
    LET n == Len(UpToRaising(calls))
    IN  {[done |-> n, filed |-> n]} \cup {[done |-> k, filed |-> k - 1] : k \in 1 .. n}

\* The points whose reverts go with it: that of a pulse written but not listed, and those
\* of the due reverts that were not come to, which the list no longer has.
LostBy(calls, end) ==
    {calls[k].act.point : k \in {j \in DOMAIN calls :
        IF j <= end.done THEN j > end.filed /\ calls[j].act.action = "pulse"
                         ELSE calls[j].rule = Engine}}

\* The coil writes of a sequence of actions, and the reverts its pulses leave.
WritesOf(acts) ==
    FlattenSeq([k \in DOMAIN acts |->
        LET a == acts[k].act
        IN  IF a.action = "log_event" THEN <<>> ELSE <<[point |-> a.point, value |-> a.value]>>])

PulsesOf(acts) ==
    FlattenSeq([k \in DOMAIN acts |->
        LET a == acts[k].act
        IN  IF a.action # "pulse" THEN <<>>
            ELSE <<[point |-> a.point, left |-> a.ms, value |-> ~a.value]>>])

-----------------------------------------------------------------------------
Down(o, down) == WiredTo[o] \in down

\* write_point for each of a sequence of writes: the last one shows.  A device in
\* down answers with an error, and nothing but the log remembers it.
Drive(coils, writes, down) ==
    [o \in Outputs |->
       LET k == SelectLastInSeq(writes, LAMBDA w : w.point = o)
       IN  IF k = 0 \/ Down(o, down) THEN coils[o] ELSE writes[k].value]

Stranded(outputs) == {o \in outputs : coil'[o] # SafeState[o]}

Targets(writes) == {writes[k].point : k \in DOMAIN writes}

Blame(writes, down) ==
    {o \in Outputs : IF o \in Targets(writes) THEN Down(o, down) ELSE o \in faulted}

\* evaluate_cycle: pending reverts first, then the rules on the readings r.  (TLC
\* evaluates what \E binds once, and a LET at every use.)
EvaluateCycle(r, t, down) ==
    /\ \E due \in {DueReverts(t)} : \E calls \in {RevertCalls(due) \o Called(r)} : \E end \in Ends(calls) :
         /\ whole' = (end.filed = Len(calls))
         /\ prevValues' = IF whole' THEN r ELSE prevValues
         /\ \E acts \in {SubSeq(calls, 1, end.done)} :
              /\ coil' = Drive(coil, WritesOf(acts), down)
              /\ faulted' = Blame(WritesOf(acts), down)
              /\ acted' = {acts[k].rule : k \in DOMAIN acts} \ {Engine}
         /\ pulses' = StillPending(t) \o PulsesOf(SubSeq(calls, 1, end.filed))
         /\ lost' = Stranded(lost \cup LostBy(calls, end))
    /\ repeats' = IF whole' THEN {} ELSE repeats \cup (acted' \cap RisingRules)
    /\ armed' = (armed \ acted') \cup
                  {i \in RisingRules : \A c \in Rules[i].when : r[c.point] = Low}

\* PollEngine.reload with the same rules: outputs to their safe states, and a
\* new RuleEngine that has witnessed nothing and has nothing to take back.
Reload(down) ==
    /\ coil' = [o \in Outputs |-> IF Down(o, down) THEN coil[o] ELSE SafeState[o]]
    /\ faulted' = {o \in Outputs : Down(o, down)}
    /\ prevValues' = [i \in Inputs |-> None]
    /\ pulses' = <<>>
    /\ acted' = {} /\ armed' = {} /\ repeats' = {}
    /\ lost' = Stranded(lost)
    /\ UNCHANGED whole

\* The walk raises where a write is answered with an error and that cannot be filed:
\* the outputs up to it are written, and the engine stays as it is.
ReloadRaises(down) ==
    /\ \E walked \in SUBSET Outputs :
         /\ \E o \in walked : Down(o, down)
         /\ coil' = [o \in Outputs |-> IF o \in walked /\ ~Down(o, down) THEN SafeState[o]
                                                                        ELSE coil[o]]
         /\ faulted' = {o \in Outputs : IF o \in walked THEN Down(o, down) ELSE o \in faulted}
    /\ lost' = Stranded(lost)
    /\ acted' = {}
    /\ UNCHANGED <<prevValues, pulses, armed, whole, repeats>>

Readings == {r \in [Inputs -> (UNION {Domain[i] : i \in Inputs}) \cup {None}] :
               \A i \in Inputs : r[i] \in Domain[i] \cup {None}}

RunCycle == \E r \in Readings, t \in Elapsed, down \in SUBSET Devices : EvaluateCycle(r, t, down)

Next == RunCycle \/ \E down \in SUBSET Devices : Reload(down) \/ ReloadRaises(down)

Spec == Init /\ [][Next]_vars

\* The poll loop keeps calling run_cycle.
LiveSpec == Spec /\ WF_vars(RunCycle)

-----------------------------------------------------------------------------
ActionsOf(i) == ToSet(Rules[i].then) \cup ToSet(Rules[i].else)

\* Outputs that only pulses away from rest drive.
PulseOutputs ==
    {o \in Outputs : \A i \in RuleIds : \A a \in ActionsOf(i) :
        a.action # "log_event" /\ a.point = o => a.action = "pulse" /\ a.value # SafeState[o]}

\* Type invariant; after a cycle no listed revert is overdue.
TypeOK ==
    /\ prevValues \in Readings
    /\ pulses \in Seq([point : Outputs, left : Nat \ {0}, value : BOOLEAN])
    /\ coil \in [Outputs -> BOOLEAN]
    /\ acted \subseteq RuleIds /\ armed \subseteq RisingRules /\ repeats \subseteq RisingRules
    /\ faulted \subseteq Outputs /\ lost \subseteq Outputs /\ whole \in BOOLEAN

\* An output that only pulses drive is at rest, or its revert is listed, or the latest
\* write to it failed, or the cycle that should have listed or written its revert was
\* cut short: overlapping pulses, a reload in mid-pulse, a reload that raises and late
\* cycles do not strand it.
PulseCovered ==
    \A o \in PulseOutputs : coil[o] # SafeState[o] =>
      o \in faulted \cup lost \/ \E k \in DOMAIN pulses : pulses[k].point = o

\* Once no rule acts any more, the devices answer and events can be filed, the outputs
\* that pulses drive come to rest and stay there, but for those lost before.
PulsesEnd ==
    <>[](acted \subseteq {i \in RuleIds : \A a \in ActionsOf(i) : a.action # "pulse"})
      /\ <>[](faulted = {}) /\ <>[]whole
    => <>[](\A o \in PulseOutputs : coil[o] = SafeState[o] \/ o \in lost)

\* One press is acted upon once: a rising rule acts again only after its input was read
\* Low in between, or before any cycle ran to its end since, whatever went stale, raised
\* or was reloaded meanwhile.
OncePerPress == [][\A i \in RisingRules : i \in acted' => i \in armed \cup repeats]_vars

-----------------------------------------------------------------------------
\* The rest does not hold under RuleEngine.cfg, or RuleEngineStale.cfg.

\* No output stays energized without a revert to come: false where an event cannot be
\* filed, between a pulse's write and its listing or between two due reverts.
NoneLost == lost = {}

\* One press, one action: false after a cycle that an exception cut short, which has
\* not remembered the input it acted upon.
ActsOncePerPress == [][\A i \in RisingRules : i \in acted' => i \in armed]_vars

\* rule_engine.py: a dropped read must not make a rule "accidentally NOT fire".
PressNotLost ==
    [][\A i \in RisingRules :
         whole' /\ i \in armed /\ (\A c \in Rules[i].when : prevValues'[c.point] = High)
           => i \in acted']_vars

\* rule_engine.py: "never act on a reading we don't trust".
NeverActsOnStale ==
    [][whole' => \A i \in acted' : \E c \in Rules[i].when : prevValues'[c.point] # None]_vars

\* A pulse lasts its ms: an output is not taken back while the revert of a later
\* pulse on it is still listed.
PulseLastsItsTime ==
    [][\A o \in PulseOutputs :
         coil[o] # SafeState[o] /\ coil'[o] = SafeState[o]
           => \A k \in DOMAIN pulses' : pulses'[k].point # o]_vars
=============================================================================
