--------------------------- MODULE MCConfigIntake ---------------------------
(***************************************************************************)
(* Documents around one button and two lamps: every wiring with a few      *)
(* rules, every pair of rules with a few wirings, and documents of version *)
(* 1 with up to four points.                                               *)
(***************************************************************************)
EXTENDS ConfigIntake

Point(id, unit, kind, fn, addr, count) ==
    [id |-> id, unit |-> unit, kind |-> kind, fn |-> fn, addr |-> addr, count |-> count,
     debounce |-> 0]

Button == Point("btn", 1, "digital_in", "read_coils", 0, 1)
Register == Point("btn", 2, "register", "read_holding_registers", 0, 1)
Block == Point("btn", 1, "register", "read_holding_registers", 0, 2)
Level == Point("btn", 1, "analog_in", "read_input_registers", 0, 1)
Lamp(unit, addr) == Point("lamp", unit, "digital_out", "write_coil", addr, 1)
Valve(unit, addr) == Point("valve", unit, "digital_out", "write_coil", addr, 1)
ReadLamp == Point("lamp", 1, "digital_out", "read_coils", 1, 1)
Alias == Point("valve", 1, "register", "write_coil", 1, 1)

Inputs == {Button, Register, Block, Level}
Outputs == {<<Lamp(1, 1)>>, <<ReadLamp>>} \cup
    {<<Lamp(1, 1), p>> : p \in {Lamp(1, 2), Valve(1, 1), Valve(1, 2), Valve(2, 1), Alias}}
Wirings == {<<i>> \o o : i \in Inputs, o \in Outputs}

Serial(u) == [unit |-> u]
At(u, h) == [unit |-> u, host |-> h]
As(u, h, s) == [unit |-> u, host |-> h, slave_id |-> s]
DeviceLists ==
    {<<Serial(1)>>, <<Serial(1), Serial(2)>>, <<Serial(1), Serial(1)>>,
     <<At(1, "h"), At(2, "g")>>, <<At(1, "h"), At(2, "h")>>, <<At(1, "h"), At(2, "")>>,
     <<At(2, "h"), Serial(1)>>, <<As(1, "h", 2), Serial(2)>>, <<As(1, "h", 2), At(2, "h")>>}

When(op) == [point |-> "btn", op |-> op]
Above == [point |-> "btn", op |-> ">", value |-> 0]
Between == [point |-> "btn", op |-> "between", low |-> 0, high |-> 0]
OnGhost == [point |-> "ghost", op |-> "falling"]
Rule(id, on, match, when, then, else) ==
    [id |-> id, enabled |-> on, match |-> match, when |-> when, then |-> then, else |-> else]

Set(p, v) == [action |-> "set", point |-> p, value |-> v]
Pulse(p) == [action |-> "pulse", point |-> p, ms |-> 1]
Log == [action |-> "log_event", event_type |-> "pressed"]

Thens == {<<Set("lamp", TRUE), Log>>, <<Pulse("valve")>>, <<Set("btn", TRUE)>>}
Elses == {<<>>, <<[action |-> "toggle"]>>, <<[action |-> "set"]>>, <<Set("ghost", TRUE)>>,
          <<[action |-> "pulse", point |-> "lamp"]>>, <<Set("lamp", FALSE)>>}
Whens == {<<When("rising")>>, <<Above>>, <<Between>>, <<Above, OnGhost>>}

Firsts == {Rule("r1", TRUE, "all", w, t, e) : w \in Whens, t \in Thens, e \in Elses}
Seconds == {Rule(id, on, "any", <<When("falling")>>, t, <<>>) :
            id \in {"r1", "r2"}, on \in BOOLEAN, t \in Thens}

LampRule == Rule("r1", TRUE, "all", <<When("rising")>>, <<Set("lamp", TRUE)>>, <<Set("lamp", FALSE)>>)
ValveRule == Rule("r2", TRUE, "any", <<Above>>, <<Set("valve", TRUE)>>, <<>>)

Document(transport, devices, points, rules) ==
    [schema |-> 2, transport |-> transport, interval |-> 100, devices |-> devices,
     points |-> points, rules |-> rules]

Wired == {Document(t, d, p, r) : t \in {"rtu", "tcp"}, d \in DeviceLists, p \in Wirings,
          r \in {<<LampRule>>, <<LampRule, ValveRule>>}}
Ruled == {Document("rtu", <<Serial(1)>>, <<i, Lamp(1, 1), Valve(1, 2)>>, r) :
          i \in {Button, Block}, r \in {<<f>> : f \in Firsts} \cup {<<f, s>> : f \in Firsts, s \in Seconds}}

-----------------------------------------------------------------------------
Old(id, unit, kind, addr) == [id |-> id, unit |-> unit, kind |-> kind, addr |-> addr]
OldPoints ==
    <<[id |-> "btn", unit |-> 1, kind |-> "digital_in", addr |-> 0, reads |-> 3],
      Old("btn", 2, "digital_in", 0), Old("fault_fault", 1, "digital_in", 2),
      Old("led", 1, "digital_out", 1), Old("led_2", 1, "digital_out", 1),
      Old("led_2", 2, "digital_out", 1), Old("led_3", 1, "digital_out", 3),
      Old("fault", 2, "register", 100), Old("fault", 3, "register", 100)>>
Legacy == {[schema |-> 1, interval |-> i, devices |-> d, points |-> SelectSeq(OldPoints, LAMBDA x : x \in p)] :
           i \in {10, 100}, d \in {<<Serial(1), Serial(2)>>, <<Serial(1), Serial(1)>>},
           p \in {s \in SUBSET ToSet(OldPoints) : Cardinality(s) \in 1..4}}

MCSuffixed == [fault |-> "fault_fault"]

MCDocuments == Wired \cup Ruled \cup Legacy
=============================================================================
