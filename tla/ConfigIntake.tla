---------------------------- MODULE ConfigIntake ----------------------------
(***************************************************************************)
(* What becomes of a configuration document: migrate_to_latest,            *)
(* validate_io, the building of clients and plan, then cycles of the rule  *)
(* engine under it, until a reload walks its outputs to replace it.        *)
(*                                                                         *)
(* A document has passed the JSON schema, which types everything but the   *)
(* actions of an else branch.  A field that may be missing is tested with  *)
(* DOMAIN, as the code does with dict.get and `in`.                        *)
(***************************************************************************)
EXTENDS Integers, SequencesExt, FiniteSetsExt

CONSTANTS
    Documents,      \* what is handed in, of schema version 1 or 2
    Suffixed,       \* point id |-> that id with "_fault" after it, possibly another's
    Values,         \* what a point may read, 0 and 1 among them
    Nothing         \* None: a stale reading, a value not seen yet

IsSeq(s) == s \in Seq(ToSet(s))
Has(record, field) == field \in DOMAIN record

\* What the proofs need of the two schemas.
Shaped(d) ==
    /\ d.schema \in {1, 2} /\ IsSeq(d.devices) /\ IsSeq(d.points)
    /\ d.schema = 1 => /\ d.interval \in Nat \ {0}
                       /\ \A e \in ToSet(d.devices) : ~Has(e, "host") /\ ~Has(e, "slave_id")
                       /\ \A p \in ToSet(d.points) :
                            /\ p.kind \in {"digital_in", "digital_out", "register"}
                            /\ Has(p, "reads") => p.reads \in Nat
    /\ d.schema = 2 => /\ IsSeq(d.rules)
                       /\ \A r \in ToSet(d.rules) :
                            r.enabled \in BOOLEAN /\ IsSeq(r.then) /\ IsSeq(r.else)

ASSUME IntakeAssumption ==
    /\ Nothing \notin Values /\ {0, 1} \subseteq Values
    /\ \A d \in Documents : Shaped(d)

VARIABLES
    given,          \* the document as handed in
    doc,            \* the document in hand or running
    stage,          \* how far it got
    prev,           \* _prev_values of the rule engine, by point id
    outcome,        \* how the latest cycle ended
    wrote           \* history: <<coil, rule>> for each write since it runs

intakeVars == <<given, doc, stage, prev, outcome, wrote>>

\* The points of a list that are in a set, in order.
Among(points, those) ==
    FlattenSeq([k \in DOMAIN points |-> IF points[k] \in those THEN <<points[k]>> ELSE <<>>])

OfKind(d, kind) == Among(d.points, {p \in ToSet(d.points) : p.kind = kind})
Ids(d) == {p.id : p \in ToSet(d.points)}
Units(d) == {e.unit : e \in ToSet(d.devices)}

-----------------------------------------------------------------------------
(* migrate_v1_to_v2.  A rule's id is told without the "rule_" in front of  *)
(* each: a button's is the button's id, a register's has the suffix.       *)

Function == [digital_in |-> "read_coils", digital_out |-> "write_coil",
             register |-> "read_holding_registers"]

Siblings(d, button) ==
    Among(d.points, {p \in ToSet(d.points) : p.kind = "digital_out" /\ p.unit = button.unit})

\* Slip: any output of the unit will do as a lamp.
RefusesTheLampless(d) ==
    \E b \in ToSet(OfKind(d, "digital_in")) : Len(Siblings(d, b)) = 0

Refuses(d) == \E b \in ToSet(OfKind(d, "digital_in")) : Len(Siblings(d, b)) # 1

Reads(p) == IF Has(p, "reads") THEN p.reads ELSE 1

DebounceMs(p, interval) == IF p.kind = "digital_in" THEN Reads(p) * interval ELSE 0

ButtonRule(d, b) ==
    [id |-> b.id, enabled |-> TRUE, match |-> "all",
     when |-> <<[point |-> b.id, op |-> "rising"]>>,
     then |-> <<[action |-> "pulse", point |-> Siblings(d, b)[1].id, ms |-> 500],
                [action |-> "log_event", event_type |-> "maintenance_request"]>>,
     else |-> <<>>]

FaultRule(r) ==
    [id |-> Suffixed[r.id], enabled |-> TRUE, match |-> "all",
     when |-> <<[point |-> r.id, op |-> ">", value |-> 0]>>,
     then |-> <<[action |-> "log_event", event_type |-> "machine_fault"]>>,
     else |-> <<>>]

SynthesizedRules(d) ==
    LET buttons == OfKind(d, "digital_in")  registers == OfKind(d, "register")
    IN  [k \in DOMAIN buttons |-> ButtonRule(d, buttons[k])]
            \o [k \in DOMAIN registers |-> FaultRule(registers[k])]

Migrated(d) ==
    [schema |-> 2, transport |-> "rtu", interval |-> d.interval, devices |-> d.devices,
     points |-> [k \in DOMAIN d.points |->
         LET p == d.points[k] IN
         [id |-> p.id, unit |-> p.unit, kind |-> p.kind, fn |-> Function[p.kind],
          addr |-> p.addr, count |-> 1, debounce |-> DebounceMs(p, d.interval)]],
     rules |-> SynthesizedRules(d)]

-----------------------------------------------------------------------------
(* validate_io, with the v1 policy caps that are always on. *)

Actions(r) == ToSet(r.then \o r.else)
Writing(a) == Has(a, "action") /\ a.action \in {"set", "pulse"}
Enabled(d) == {r \in ToSet(d.rules) : r.enabled}

TooManyConditions(d) == \E r \in ToSet(d.rules) : Len(r.when) > 1
Reserved(d) == OfKind(d, "analog_in") # <<>>

\* Slip: the else branch is not looked at.
DanglingThen(d) ==
    \E r \in ToSet(d.rules) :
        \/ \E c \in ToSet(r.when) : c.point \notin Ids(d)
        \/ \E a \in ToSet(r.then) : Has(a, "point") /\ a.point \notin Ids(d)

Dangling(d) ==
    \E r \in ToSet(d.rules) :
        \/ \E c \in ToSet(r.when) : c.point \notin Ids(d)
        \/ \E a \in Actions(r) : Has(a, "point") /\ a.point \notin Ids(d)

\* action["point"] of a writing action without a point: a KeyError, not a problem.
CannotTell(d) == \E r \in Enabled(d) : \E a \in Actions(r) : Writing(a) /\ ~Has(a, "point")

Written(r) == {a.point : a \in {b \in Actions(r) : Writing(b)}}
WriterIds(d, id) == {r.id : r \in {s \in Enabled(d) : id \in Written(s)}}

Contended(d) == \E id \in UNION {Written(r) : r \in Enabled(d)} : Cardinality(WriterIds(d, id)) > 1

Ambiguous(d) == Cardinality(Units(d)) # Len(d.devices)

Unattached(d) == \E p \in ToSet(d.points) : p.unit \notin Units(d)

Aliased(d) ==
    LET outputs == OfKind(d, "digital_out")
    IN  \E j, k \in DOMAIN outputs :
            j # k /\ outputs[j].unit = outputs[k].unit /\ outputs[j].addr = outputs[k].addr

Hosted(e) == Has(e, "host") /\ e.host # ""
Unhosted(d) == d.transport = "tcp" /\ \E e \in ToSet(d.devices) : ~Hosted(e)

\* Slip: two names for one coil go unnoticed.
RejectsUnaliased(d) ==
    \/ TooManyConditions(d) \/ Reserved(d) \/ Dangling(d) \/ Contended(d)
    \/ Ambiguous(d) \/ Unattached(d) \/ Unhosted(d)

Rejects(d) ==
    \/ TooManyConditions(d) \/ Reserved(d) \/ Dangling(d) \/ Contended(d)
    \/ Ambiguous(d) \/ Unattached(d) \/ Aliased(d) \/ Unhosted(d)

-----------------------------------------------------------------------------
(* The engine under an accepted document. *)

\* build_clients and build_plan find every field they look up.
Builds(d) ==
    /\ d.schema = 2
    /\ d.transport = "tcp" => \A e \in ToSet(d.devices) : Has(e, "host")
    /\ \A p \in ToSet(d.points) : \E e \in ToSet(d.devices) : p.unit = e.unit

\* Points of a plan, device by device; outputs are not read.
Plan(d) == FlattenSeq([k \in DOMAIN d.devices |->
    Among(d.points, {p \in ToSet(d.points) : p.unit = d.devices[k].unit})])

Polled(d) == Among(Plan(d), {p \in ToSet(d.points) : p.fn # "write_coil"})

LastOf(points, id) == points[SelectLastInSeq(points, LAMBDA p : p.id = id)]

PolledIds(d) == {p.id : p \in ToSet(Polled(d))}

\* results: with two points of one id the one polled last stays.
Results(d, readings) == [id \in PolledIds(d) |-> readings[LastOf(Polled(d), id)]]

\* _device_id_for: a device with a tcp block answers as the slave_id of that block,
\* on any transport, and as slave 1 if it has none.
Slave(e) ==
    CASE Has(e, "slave_id") -> e.slave_id
      [] Has(e, "host") /\ ~Has(e, "slave_id") -> 1
      [] OTHER -> e.unit

DeviceOf(d, p) == CHOOSE e \in ToSet(d.devices) : e.unit = p.unit

Line(d, e) == IF d.transport = "tcp" THEN e.host ELSE "serial"

Coil(d, p) == <<Line(d, DeviceOf(d, p)), Slave(DeviceOf(d, p)), p.addr>>

-----------------------------------------------------------------------------
(* One evaluate_cycle: which conditions hold, which actions raise. *)

EdgeOps == {"rising", "falling"}

Trusted(c, now) == Has(now, c.point) /\ now[c.point] # Nothing

\* A list of values can be compared for equality only, and has no edges.
Several(d, c) == LastOf(Polled(d), c.point).count > 1

CannotCompare(d, c, now) ==
    Trusted(c, now) /\ Several(d, c) /\ c.op \notin EdgeOps \cup {"=="}

Crosses(d, c, now) ==
    /\ LastOf(Polled(d), c.point).fn = "read_coils"
    /\ \/ c.op = "rising" /\ prev[c.point] = 0 /\ now[c.point] = 1
       \/ c.op = "falling" /\ prev[c.point] = 1 /\ now[c.point] = 0

Compares(c, value) ==
    \/ c.op = ">" /\ value > c.value
    \/ c.op = "<" /\ value < c.value
    \/ c.op = ">=" /\ value >= c.value
    \/ c.op = "<=" /\ value <= c.value
    \/ c.op = "==" /\ value = c.value
    \/ c.op = "between" /\ c.low <= value /\ value <= c.high

Holds(d, c, now) ==
    /\ Trusted(c, now) /\ ~Several(d, c)
    /\ Crosses(d, c, now) \/ (c.op \notin EdgeOps /\ Compares(c, now[c.point]))

Matches(d, r, now) ==
    IF r.match = "all" THEN \A c \in ToSet(r.when) : Holds(d, c, now)
                       ELSE \E c \in ToSet(r.when) : Holds(d, c, now)

\* A condition that raises ends the cycle like an action that raises.
Branch(d, r, now) ==
    CASE ~r.enabled -> <<>>
      [] r.enabled /\ (\E c \in ToSet(r.when) : CannotCompare(d, c, now)) -> <<[raises |-> r.when]>>
      [] OTHER -> IF Matches(d, r, now) THEN r.then ELSE r.else

\* All actions of a cycle in order, each with the place of its rule.
Script(d, now) == FlattenSeq([k \in DOMAIN d.rules |->
    LET branch == Branch(d, d.rules[k], now)
    IN  [j \in DOMAIN branch |-> [by |-> k, act |-> branch[j]]]])

Writable(d, a) ==
    /\ Has(a, "point") /\ a.point \in Ids(d)
    /\ LastOf(d.points, a.point).fn = "write_coil"

Writes(d, a) == Writing(a) /\ Writable(d, a) /\ (a.action = "set" => Has(a, "value"))

\* A pulse without ms raises after its write.
Works(d, a) ==
    /\ Has(a, "action")
    /\ \/ a.action = "set" /\ Writes(d, a)
       \/ a.action = "pulse" /\ Writes(d, a) /\ Has(a, "ms")
       \/ a.action = "log_event" /\ Has(a, "event_type")

Unknown(a) == Has(a, "action") /\ a.action \notin {"set", "pulse", "log_event"}

\* The actions up to and with the first that raises.
Performed(d, script) ==
    LET bad == SelectInSeq(script, LAMBDA s : ~Works(d, s.act))
    IN  IF bad = 0 THEN script ELSE SubSeq(script, 1, bad)

Ending(d, performed) ==
    CASE performed = <<>> \/ Works(d, Last(performed).act) -> "done"
      [] performed # <<>> /\ Unknown(Last(performed).act) -> "unwhitelisted"
      [] OTHER -> "raised"

CoilWrites(d, performed) ==
    {<<Coil(d, LastOf(d.points, s.act.point)), s.by>> :
        s \in {t \in ToSet(performed) : Writes(d, t.act)}}

-----------------------------------------------------------------------------
Goes(from, to) == stage = from /\ stage' = to
Fresh == prev = <<>> /\ outcome = "none" /\ wrote = {}

IntakeInit == given \in Documents /\ doc = given /\ stage = "given" /\ Fresh

\* migrate_to_latest; a document of the latest version comes back as it is.
Migrate ==
    /\ doc.schema = 1 /\ ~Refuses(doc) /\ stage = "given"
    /\ doc' = Migrated(doc) /\ UNCHANGED <<given, stage, prev, outcome, wrote>>

Refuse ==
    /\ doc.schema = 1 /\ Refuses(doc) /\ Goes("given", "refused")
    /\ UNCHANGED <<given, doc, prev, outcome, wrote>>

\* Version 1 has its schema only.
Accept ==
    /\ doc.schema = 2 => ~CannotTell(doc) /\ ~Rejects(doc)
    /\ Goes("given", "accepted") /\ UNCHANGED <<given, doc, prev, outcome, wrote>>

Reject ==
    /\ doc.schema = 2 /\ ~CannotTell(doc) /\ Rejects(doc)
    /\ Goes("given", "rejected") /\ UNCHANGED <<given, doc, prev, outcome, wrote>>

Stumble ==
    /\ doc.schema = 2 /\ CannotTell(doc)
    /\ Goes("given", "stumbled") /\ UNCHANGED <<given, doc, prev, outcome, wrote>>

\* Slip: the rule engine keeps the previous values of no document at all.
BuildWithoutState ==
    /\ Builds(doc) /\ Goes("accepted", "running")
    /\ UNCHANGED <<given, doc, prev, outcome, wrote>>

Build ==
    /\ Builds(doc) /\ Goes("accepted", "running")
    /\ prev' = [id \in Ids(doc) |-> Nothing]
    /\ UNCHANGED <<given, doc, outcome, wrote>>

CannotBuild ==
    /\ ~Builds(doc) /\ Goes("accepted", "unbuilt")
    /\ UNCHANGED <<given, doc, prev, outcome, wrote>>

\* The previous values are updated only by a cycle that ends.
Cycle(readings) ==
    LET now == Results(doc, readings)
        performed == Performed(doc, Script(doc, now))
    IN  /\ outcome' = Ending(doc, performed)
        /\ prev' = IF outcome' = "done"
                   THEN [id \in Ids(doc) |-> IF Has(now, id) THEN now[id] ELSE prev[id]]
                   ELSE prev
        /\ wrote' = wrote \cup CoilWrites(doc, performed)
        /\ UNCHANGED <<given, doc, stage>>

\* The walk of a reload: every digital_out is written to, whatever its fn.
Walkable(d) == \A p \in ToSet(OfKind(d, "digital_out")) : LastOf(d.points, p.id).fn = "write_coil"

Replace ==
    /\ stage = "running"
    /\ stage' = IF Walkable(doc) THEN "replaced" ELSE "stuck"
    /\ UNCHANGED <<given, doc, prev, outcome, wrote>>

IntakeNext ==
    \/ Migrate \/ Refuse \/ Accept \/ Reject \/ Stumble \/ Build \/ CannotBuild
    \/ stage = "running"
       /\ \E readings \in [ToSet(Polled(doc)) -> Values \cup {Nothing}] : Cycle(readings)
    \/ Replace

IntakeSpec == IntakeInit /\ [][IntakeNext]_intakeVars

-----------------------------------------------------------------------------
\* The stages a document goes through, and the last values a running engine keeps for
\* the points of its document (rule_engine.py:57-72).
IntakeTypeOK ==
    /\ {given.schema, doc.schema} \subseteq {1, 2}
    /\ stage \in {"given", "refused", "accepted", "rejected", "stumbled", "unbuilt",
                  "running", "replaced", "stuck"}
    /\ outcome \in {"none", "done", "raised", "unwhitelisted"}
    /\ stage \in {"running", "replaced", "stuck"} => prev \in [Ids(doc) -> Values \cup {Nothing}]

DistinctIds(d) == Cardinality(Ids(d)) = Len(d.points)

Writer(r) == \E a \in Actions(r) : Writing(a)

\* What contention and aliasing take for granted: rules that write have ids of their
\* own, whatever can be written is a digital_out, a unit is a slave of its own.
Separate(d) ==
    /\ \A j, k \in DOMAIN d.rules :
        (/\ d.rules[j].id = d.rules[k].id
         /\ Writer(d.rules[j]) /\ Writer(d.rules[k])) => j = k
    /\ \A p \in ToSet(d.points) : p.fn = "write_coil" => p.kind = "digital_out"
    /\ Cardinality({<<Line(d, e), Slave(e)>> : e \in ToSet(d.devices)}) = Len(d.devices)

\* What else validate_io leaves to the author: one point to an id, outputs that can
\* be written, single values, an else branch typed like a then branch, rules that
\* write outputs only.
Tidy(d) ==
    /\ Separate(d) /\ DistinctIds(d)
    /\ \A p \in ToSet(d.points) :
        p.count = 1 /\ (p.kind = "digital_out" => p.fn = "write_coil")
    /\ \A r \in ToSet(d.rules) : \A a \in Actions(r) :
        /\ Has(a, "action") /\ a.action \in {"set", "pulse", "log_event"}
        /\ a.action = "set" => Has(a, "value")
        /\ a.action = "pulse" => Has(a, "ms")
        /\ a.action = "log_event" => Has(a, "event_type")
        /\ Writing(a) /\ a.point \in Ids(d) => LastOf(d.points, a.point).kind = "digital_out"

\* Whatever validate_io accepts in version 2 can be built (poll_engine.py:175-178),
\* so the outputs are not driven for nothing; and if it is tidy it never raises,
\* neither in a cycle nor in the walk of the reload that replaces it: what it refers
\* to exists.  The checks guard poll_engine.py:245-248 and rule_engine.py:103-127.
AcceptedRuns ==
    /\ stage = "unbuilt" => doc.schema = 1
    /\ stage \in {"running", "stuck", "replaced"} /\ Tidy(doc)
        => outcome \in {"none", "done"} /\ stage # "stuck"

\* No two rules ever write one physical coil, the hazard of validators.py:125-131
\* and 172-179, under any accepted document that keeps writers, outputs and slaves
\* separate: whatever its actions, also those that raise, its slave_ids and its
\* transport, and although two points of one id answer for each other.
OneMaster ==
    stage = "running" /\ Separate(doc)
        => \A w, x \in wrote : w[1] = x[1] => w[2] = x[2]

\* The topology of v1_to_v2.py:8-13 as far as the code asks for it, unit by unit:
\* where there is a button there is one button and one lamp; units and coils are
\* told apart and every point has its device.  "Exactly one register" it does not ask.
Topology(d) ==
    /\ \A j, k \in DOMAIN d.devices : d.devices[j].unit = d.devices[k].unit => j = k
    /\ \A p \in ToSet(d.points) : p.unit \in Units(d)
    /\ \A b \in ToSet(OfKind(d, "digital_in")), kind \in {"digital_in", "digital_out"} :
        Cardinality({p \in ToSet(OfKind(d, kind)) : p.unit = b.unit}) = 1
    /\ \A p, q \in ToSet(OfKind(d, "digital_out")) : p.unit = q.unit /\ p.addr = q.addr => p = q

\* A migrated button needs as many equal readings as before: debounce.py:30 divides
\* by the interval that the migration multiplied with.
DebounceKept ==
    \A k \in DOMAIN given.points :
        given.points[k].kind = "digital_in"
            => doc.points[k].debounce \div doc.interval = Reads(given.points[k])

\* Migration and validation together let through exactly the documents of that
\* topology; what they let through is tidy and debounces as before, also when a
\* button and a register make two rules of one id: only one of the two writes.
MigratesExactly ==
    given.schema = 1 /\ DistinctIds(given)
        => /\ doc.schema = 2 /\ stage \notin {"given", "rejected"}
                => Topology(given) /\ Tidy(doc) /\ DebounceKept
           /\ stage \in {"refused", "rejected"} => ~Topology(given)

-----------------------------------------------------------------------------
\* rule_engine.py:10-13: validators.py "is supposed to have already rejected"
\* an action that the rule engine does not know.  It does not look at else.
OnlyKnownActions == outcome # "unwhitelisted"

\* What else a document that is let through may do, under ConfigIntake.cfg: all of
\* these are violated.  Two rules of any accepted document share no coil ...
OneMasterAlways == stage = "running" => \A w, x \in wrote : w[1] = x[1] => w[2] = x[2]

\* ... no condition and no action raises (point_io.py:50, a list is not compared) ...
NothingRaises == outcome # "raised"

\* ... a running document can be replaced ...
Replaceable == stage # "stuck"

\* ... validate_io answers with problems or not at all (validators.py:15) ...
Answers == stage # "stumbled"

\* ... a valid document of version 1 migrates to a valid one of version 2
\* (migrations/__init__.py:9-11) ...
MigratedIsValid == stage = "rejected" => given.schema = 2

\* ... it has one button and one register at most (v1_to_v2.py:8-13) ...
OnlyTheReference ==
    given.schema = 1 /\ doc.schema = 2
        => Len(OfKind(given, "digital_in")) <= 1 /\ Len(OfKind(given, "register")) <= 1

\* ... and each of its rules an id of its own (v1_to_v2.py:121, 136) ...
RuleIdsApart ==
    given.schema = 1 /\ DistinctIds(given) /\ stage = "running"
        => Cardinality({r.id : r \in ToSet(doc.rules)}) = Len(doc.rules)

\* ... on a serial line a device is addressed by its unit (point_io.py:30-31).
SlaveIsUnit ==
    stage = "running" /\ doc.transport = "rtu" => \A e \in ToSet(doc.devices) : Slave(e) = e.unit
=============================================================================
