----------------------------- MODULE HotReload -----------------------------
(***************************************************************************)
(* PollEngine.reload against everything that holds on to an output: the    *)
(* reverts of test writes, the pulses of the rule engine, and the threads  *)
(* in the middle of either.  The poll thread runs run_cycle, and so does   *)
(* the handler of an update for its health check; each handler is a Flask  *)
(* thread serving PUT /api/io, a rollback, an import or a test write.  A    *)
(* step is one coil write with its events, one list operation or the swap. *)
(*                                                                         *)
(* A pending revert may come due at any pass: TestWrite and RuleEngine     *)
(* have the clock.  The files reload writes belong to another module.      *)
(***************************************************************************)
CONSTANTS
    Poll, Handlers,     \* the threads
    Cyclers,            \* those that run run_cycle: Poll, and handlers of an update
    Points,             \* point ids
    Coils,              \* physical outputs, each a (unit_id, address)
    None,               \* no coil, no document, nothing in hand
    Configs,            \* the documents that may arrive
    CoilOf,             \* document -> point -> its coil, None if not a digital_out
    SafeState,          \* document -> point -> safe_state
    Buildable,          \* documents whose clients and plan can be built
    First,              \* the document the engine starts with
    RulePoints,         \* outputs the rules act on
    Faults,             \* what the bus and the event log may do besides working
    Concurrent          \* FALSE: one handler or cycle at a time, as in the tests

Threads == {Poll} \cup Handlers

Revert == [point : Points, value : BOOLEAN]

Outputs(c) == {p \in Points : CoilOf[c][p] # None}

\* validate_io has accepted every document in Configs; the address-conflict rule
\* gives the points of a version 2 document different coils.
ASSUME HotReloadAssumption ==
    /\ Poll \notin Handlers /\ Poll \in Cyclers /\ Cyclers \subseteq Threads
    /\ None \notin Coils \cup Configs \cup Revert
    /\ CoilOf \in [Configs -> [Points -> Coils \cup {None}]]
    /\ SafeState \in [Configs -> [Points -> BOOLEAN]]
    /\ Buildable \subseteq Configs /\ First \in Buildable
    /\ Concurrent \in BOOLEAN
    /\ RulePoints \subseteq Points
    /\ Faults \subseteq {"refused", "lost", "unfiled"}
    /\ \A c \in Configs : \A p, q \in Outputs(c) : CoilOf[c][p] = CoilOf[c][q] => p = q

VARIABLES
    config,     \* io_config, and with it _point_by_id, clients, plan
    coil,       \* the physical outputs
    pc,         \* where each thread is
    doc, base,  \* reload: the new document, and the one whose outputs it walks
    driving,    \* reload: outputs still to be driven to their safe state
    tests,      \* test_write_manager._pending
    pulses,     \* _pending_reverts of the current rule engine
    due,        \* a cycle's reverts, taken off a list and not yet written
    todo,       \* a revert whose write is done and which is not yet listed
    seen,       \* the list a cycle scans, if another took its place meanwhile
    rules,      \* a cycle: the document whose rules it is evaluating
    orphaned,   \* ... and whether that rule engine has been replaced since
    held,       \* history: coils left as they are by a rule's `set`, by a swap that
                \* changed their safe state, or by a revert to another than that
    lost,       \* history: coils whose revert went with an exception, an event that
                \* could not be filed, or a list that another cycle replaced
    faulted,    \* history: coils whose last write did not go as reported
    rest        \* history: safe state of each coil under the latest document that drove it

work == <<doc, base, driving, due, todo, seen, rules, orphaned>>
lists == <<tests, pulses>>
history == <<held, lost, faulted, rest>>
vars == <<config, coil, pc, work, lists, history>>

\* The safe state of each coil under document c, if it drives the coil.
RestUnder(c, old) ==
    [k \in Coils |-> IF \E p \in Outputs(c) : CoilOf[c][p] = k
                       THEN SafeState[c][CHOOSE p \in Outputs(c) : CoilOf[c][p] = k]
                       ELSE old[k]]

Init ==
    /\ config = First
    /\ rest = RestUnder(First, [k \in Coils |-> FALSE])
    /\ coil = rest
    /\ pc = [t \in Threads |-> "idle"]
    /\ doc = [t \in Threads |-> None] /\ base = doc
    /\ driving = [t \in Threads |-> {}]
    /\ tests = {} /\ pulses = {} /\ due = driving
    /\ todo = doc /\ seen = doc /\ rules = doc
    /\ orphaned = [t \in Threads |-> FALSE]
    /\ held = {} /\ lost = {} /\ faulted = {}

At(t, label) == pc[t] = label
Goto(t, label) == pc' = [pc EXCEPT ![t] = label]

MayStart(t) == At(t, "idle") /\ (Concurrent \/ \A u \in Threads : At(u, "idle"))

-----------------------------------------------------------------------------
\* write_point finds the coil in the running document, whatever document the
\* caller got the point from; a point it does not know as an output raises.
Known(p) == p \in Outputs(config)

\* The outputs of a set of reverts.
CoilsOf(reverts) == {CoilOf[config][r.point] : r \in {x \in reverts : Known(x.point)}}

\* The write, and the coils whose revert is gone with what followed it.
CoilWrite(p, v, outcome, isSet, gone) ==
    LET k == CoilOf[config][p]
    IN  /\ outcome \in Faults \cup {"ok"}
        /\ coil' = IF outcome = "refused" THEN coil ELSE [coil EXCEPT ![k] = v]
        /\ faulted' = IF outcome = "ok" THEN faulted \ {k} ELSE faulted \cup {k}
        /\ held' = IF isSet THEN held \cup {k} ELSE held \ {k}
        /\ lost' = (lost \ {k}) \cup gone

Outcomes == {"ok", "refused", "lost"}

\* Whether the events of a write are filed; log_event raises when one is not.
Filing == IF "unfiled" \in Faults THEN BOOLEAN ELSE {TRUE}

-----------------------------------------------------------------------------
\* Where a thread goes on after its reload: a cycle still polls, a handler is done,
\* and that of an update goes on to its health check.
AfterReload(t) ==
    (IF t \in Cyclers THEN {"tests"} ELSE {}) \cup (IF t \in Handlers THEN {"idle"} ELSE {})

\* Out of reload, its local variables go.
Leave(t, label) ==
    /\ Goto(t, label)
    /\ doc' = [doc EXCEPT ![t] = None] /\ base' = [base EXCEPT ![t] = None]

\* Slip: walks the outputs of the document that is about to take over.
DrivesTheNew(t, c) == Outputs(c)

ToDrive(t, c) == Outputs(config)

\* reload(c): a document that validate_io refuses changes nothing and is no step
\* here; for an accepted one the walk over the current outputs begins.
BeginReload(t, c) ==
    /\ MayStart(t)
    /\ Goto(t, "driving")
    /\ doc' = [doc EXCEPT ![t] = c]
    /\ base' = [base EXCEPT ![t] = config]
    /\ driving' = [driving EXCEPT ![t] = ToDrive(t, c)]
    /\ UNCHANGED <<config, coil, lists, due, todo, seen, rules, orphaned, history>>

\* Slip: outputs are switched off, not to their safe state.
SwitchedOff(t, p) == FALSE

SafeOf(t, p) == SafeState[base[t]][p]

\* One write of the walk; its result is not looked at, but write_point files an event
\* for a stale one.  If it cannot, or when another reload has dropped the point
\* meanwhile, it raises and the reload, with the cycle it is part of, ends there.
DriveSafe(t, p) ==
    /\ At(t, "driving") /\ p \in driving[t]
    /\ \E outcome \in Outcomes, filed \in Filing :
         /\ IF Known(p) THEN CoilWrite(p, SafeOf(t, p), outcome, FALSE, {})
                        ELSE UNCHANGED <<coil, faulted, held, lost>>
         /\ IF Known(p) /\ (filed \/ outcome = "ok")
              THEN driving' = [driving EXCEPT ![t] = @ \ {p}] /\ UNCHANGED <<pc, doc, base>>
              ELSE driving' = [driving EXCEPT ![t] = {}] /\ Leave(t, "idle")
    /\ UNCHANGED <<config, lists, due, todo, seen, rules, orphaned, rest>>

\* The new clients and plan are built, and everything is swapped; the test-write
\* manager stays, the rule engine is a new one without pulses, and a cycle that
\* works for the old one goes on with its list.
Swap(t) ==
    /\ At(t, "driving") /\ driving[t] = {}
    /\ doc[t] \in Buildable
    /\ \E label \in AfterReload(t) : Leave(t, label)
    /\ config' = doc[t]
    /\ rest' = RestUnder(doc[t], rest)
    /\ held' = held \cup {k \in Coils : coil[k] = rest[k] /\ coil[k] # rest'[k]}
    /\ pulses' = {}
    /\ orphaned' = [u \in Threads |-> rules[u] # None]
    /\ seen' = [u \in Threads |->
                  IF At(u, "rules") /\ seen[u] = None THEN pulses ELSE seen[u]]
    /\ UNCHANGED <<coil, tests, driving, due, todo, rules, lost, faulted>>

\* ... or building them fails and the reload is rejected.
BuildFails(t) ==
    /\ At(t, "driving") /\ driving[t] = {}
    /\ doc[t] \notin Buildable
    /\ \E label \in AfterReload(t) : Leave(t, label)
    /\ UNCHANGED <<config, coil, lists, driving, due, todo, seen, rules, orphaned, history>>

-----------------------------------------------------------------------------
\* Slip: the revert goes back to what the output showed before the test.
RevertToBefore(p) == [point |-> p, value |-> coil[CoilOf[config][p]]]

RevertOf(p) == [point |-> p, value |-> SafeState[config][p]]

\* request_write on a known output: the write and its event.  A stale result, or an
\* event that cannot be filed, ends the request with nothing scheduled.
TestWrite(t, p, v) ==
    /\ t \in Handlers /\ MayStart(t) /\ Known(p)
    /\ \E outcome \in Outcomes, filed \in Filing :
         /\ CoilWrite(p, v, outcome, FALSE,
                      IF outcome = "ok" /\ ~filed THEN CoilsOf({RevertOf(p)}) ELSE {})
         /\ IF outcome = "ok" /\ filed
              THEN Goto(t, "written") /\ todo' = [todo EXCEPT ![t] = RevertOf(p)]
              ELSE UNCHANGED <<pc, todo>>
    /\ UNCHANGED <<config, lists, doc, base, driving, due, seen, rules, orphaned, rest>>

\* ... and the revert goes on the list, with the safe state read before the write.
Schedule(t) ==
    /\ At(t, "written") /\ Goto(t, "idle")
    /\ tests' = tests \cup {todo[t]}
    /\ todo' = [todo EXCEPT ![t] = None]
    /\ UNCHANGED <<config, coil, pulses, doc, base, driving, due, seen, rules, orphaned,
                   history>>

-----------------------------------------------------------------------------
\* run_cycle without a new document on disk.
StartCycle(t) ==
    /\ t \in Cyclers /\ MayStart(t) /\ Goto(t, "tests")
    /\ UNCHANGED <<config, coil, lists, work, history>>

\* Slip: an exception leaves the cycle but not the list it was working on.
AbortKeepingDue(t) ==
    /\ Goto(t, "idle") /\ UNCHANGED <<due, seen>>
    /\ rules' = [rules EXCEPT ![t] = None] /\ orphaned' = [orphaned EXCEPT ![t] = FALSE]

\* Something raised inside the cycle: what it had in hand is gone with it.
Abort(t) ==
    /\ Goto(t, "idle")
    /\ due' = [due EXCEPT ![t] = {}] /\ seen' = [seen EXCEPT ![t] = None]
    /\ rules' = [rules EXCEPT ![t] = None] /\ orphaned' = [orphaned EXCEPT ![t] = FALSE]

\* An event of the reload just made, or of the read path, cannot be filed.
CutShort(t) ==
    /\ "unfiled" \in Faults
    /\ At(t, "tests") \/ (At(t, "reverting") /\ due[t] = {})
    /\ Abort(t)
    /\ UNCHANGED <<config, coil, lists, doc, base, driving, todo, history>>

\* What a scan goes over: the list, or what its list held when a new one took its place.
Scanned(t, list) == IF seen[t] = None THEN list ELSE seen[t]

\* t puts a new list in the place of the one that the cycles in `begun` are scanning.
Replaces(t, list, begun) ==
    seen' = [[u \in Threads |-> IF u \in begun /\ seen[u] = None THEN list ELSE seen[u]]
               EXCEPT ![t] = None]

\* TestWriteManager.apply_pending_reverts: what is due goes off the list.  The rest is
\* a list of its own, which another cycle may replace by the rest of an older one.
TakeTests(t) ==
    /\ At(t, "tests") /\ Goto(t, "reverting")
    /\ \E d \in SUBSET Scanned(t, tests) :
         due' = [due EXCEPT ![t] = d] /\ tests' = Scanned(t, tests) \ d
    /\ \E begun \in SUBSET {u \in Threads : At(u, "tests")} : Replaces(t, tests, begun)
    /\ lost' = lost \cup CoilsOf(tests \ Scanned(t, tests))
    /\ UNCHANGED <<config, coil, pulses, doc, base, driving, todo, rules, orphaned,
                   held, faulted, rest>>

\* evaluate_cycle of the current rule engine.
EnterRules(t) ==
    /\ At(t, "reverting") /\ due[t] = {} /\ Goto(t, "rules")
    /\ rules' = [rules EXCEPT ![t] = config]
    /\ UNCHANGED <<config, coil, lists, doc, base, driving, due, todo, seen, orphaned, history>>

\* Its own list, in the same way; that of a replaced engine is nobody else's concern.
TakePulses(t) ==
    /\ At(t, "rules") /\ Goto(t, "pulsing")
    /\ \E d \in SUBSET Scanned(t, pulses) :
         /\ due' = [due EXCEPT ![t] = d]
         /\ pulses' = IF orphaned[t] THEN pulses ELSE Scanned(t, pulses) \ d
    /\ \E begun \in SUBSET {u \in Threads : At(u, "rules") /\ ~orphaned[t]} :
         Replaces(t, pulses, begun)
    /\ lost' = lost \cup (IF orphaned[t] THEN {} ELSE CoilsOf(pulses \ Scanned(t, pulses)))
    /\ UNCHANGED <<config, coil, tests, doc, base, driving, todo, rules, orphaned,
                   held, faulted, rest>>

\* Either list: one due revert is written back, once, and its event filed; if the point
\* is gone or the event cannot be filed, the other due reverts go with the cycle.
RevertDue(t, r) ==
    /\ At(t, "reverting") \/ At(t, "pulsing")
    /\ r \in due[t]
    /\ \E outcome \in Outcomes, filed \in Filing :
         /\ IF Known(r.point)
              THEN CoilWrite(r.point, r.value, outcome, r.value # SafeState[config][r.point],
                             IF filed THEN {} ELSE CoilsOf(due[t] \ {r}))
              ELSE lost' = lost \cup CoilsOf(due[t]) /\ UNCHANGED <<coil, faulted, held>>
         /\ IF Known(r.point) /\ filed
              THEN due' = [due EXCEPT ![t] = @ \ {r}] /\ UNCHANGED <<pc, seen, rules, orphaned>>
              ELSE Abort(t)
    /\ UNCHANGED <<config, lists, doc, base, driving, todo, rest>>

MayFire(t, p) ==
    At(t, "pulsing") /\ due[t] = {} /\ p \in RulePoints \cap Outputs(rules[t])

\* A rule sets an output ...
FireSet(t, p, v) ==
    /\ MayFire(t, p)
    /\ \E outcome \in Outcomes, filed \in Filing :
         /\ IF Known(p) THEN CoilWrite(p, v, outcome, TRUE, {})
                        ELSE UNCHANGED <<coil, faulted, held, lost>>
         /\ IF Known(p) /\ filed THEN UNCHANGED <<pc, due, seen, rules, orphaned>> ELSE Abort(t)
    /\ UNCHANGED <<config, lists, doc, base, driving, todo, rest>>

\* ... or pulses it, to the value the action gives; the revert is the opposite.
FirePulse(t, p, v) ==
    /\ MayFire(t, p)
    /\ \E outcome \in Outcomes, filed \in Filing :
         /\ IF Known(p)
              THEN CoilWrite(p, v, outcome, FALSE,
                             IF filed THEN {} ELSE CoilsOf({RevertOf(p)}))
              ELSE UNCHANGED <<coil, faulted, held, lost>>
         /\ IF Known(p) /\ filed
              THEN /\ Goto(t, "pulsed")
                   /\ todo' = [todo EXCEPT ![t] = [point |-> p, value |-> ~v]]
                   /\ UNCHANGED <<due, seen, rules, orphaned>>
              ELSE Abort(t) /\ UNCHANGED todo
    /\ UNCHANGED <<config, lists, doc, base, driving, rest>>

\* _run_actions lists the revert, in the rule engine it belongs to: if that has
\* been replaced since, nobody will ever look at the list again.
ListPulse(t) ==
    /\ At(t, "pulsed") /\ Goto(t, "pulsing")
    /\ pulses' = IF orphaned[t] THEN pulses ELSE pulses \cup {todo[t]}
    /\ todo' = [todo EXCEPT ![t] = None]
    /\ UNCHANGED <<config, coil, tests, doc, base, driving, due, seen, rules, orphaned,
                   history>>

\* The last rule is done, or an action has raised.
EndCycle(t) ==
    /\ At(t, "pulsing") /\ due[t] = {}
    /\ Abort(t)
    /\ UNCHANGED <<config, coil, lists, doc, base, driving, todo, history>>

-----------------------------------------------------------------------------
ReloadStep(t) ==
    \/ \E p \in Points : DriveSafe(t, p)
    \/ Swap(t) \/ BuildFails(t)

Cycle(t) ==
    \/ StartCycle(t) \/ CutShort(t) \/ TakeTests(t) \/ EnterRules(t) \/ TakePulses(t)
    \/ ListPulse(t) \/ EndCycle(t)
    \/ \E r \in Revert : RevertDue(t, r)
    \/ \E p \in Points, v \in BOOLEAN : FirePulse(t, p, v) \/ FireSet(t, p, v)

Next ==
    \E t \in Threads :
      \/ \E c \in Configs : BeginReload(t, c)
      \/ ReloadStep(t)
      \/ \E p \in Points, v \in BOOLEAN : TestWrite(t, p, v)
      \/ Schedule(t)
      \/ Cycle(t)

Spec == Init /\ [][Next]_vars

-----------------------------------------------------------------------------
\* Type invariant; each thread's variables are empty where it does not use them.
TypeOK ==
    /\ config \in Buildable
    /\ coil \in [Coils -> BOOLEAN] /\ rest \in [Coils -> BOOLEAN]
    /\ pc \in [Threads -> {"idle", "driving", "written", "tests", "reverting",
                            "rules", "pulsing", "pulsed"}]
    /\ doc \in [Threads -> Configs \cup {None}]
    /\ base \in [Threads -> Buildable \cup {None}]
    /\ driving \in [Threads -> SUBSET Points]
    /\ tests \subseteq Revert /\ pulses \subseteq Revert
    /\ due \in [Threads -> SUBSET Revert]
    /\ todo \in [Threads -> Revert \cup {None}]
    /\ seen \in [Threads -> (SUBSET Revert) \cup {None}]
    /\ rules \in [Threads -> Buildable \cup {None}]
    /\ orphaned \in [Threads -> BOOLEAN]
    /\ held \subseteq Coils /\ lost \subseteq Coils /\ faulted \subseteq Coils
    /\ \A t \in Threads :
         /\ driving[t] # {} => At(t, "driving")
         /\ At(t, "driving") <=> doc[t] # None /\ base[t] # None
         /\ At(t, "written") \/ At(t, "pulsed") <=> todo[t] # None
         /\ due[t] # {} => pc[t] \in {"reverting", "pulsing"}
         /\ seen[t] # None => pc[t] \in {"tests", "rules"}
         /\ pc[t] \in {"rules", "pulsing", "pulsed"} <=> rules[t] # None
         /\ At(t, "written") => t \in Handlers
         /\ t \notin Cyclers => pc[t] \in {"idle", "driving", "written"}

Driven(c) == {CoilOf[c][p] : p \in Outputs(c)}

\* io_v2.schema.json, safe_state: "a re-addressed or removed output is never left
\* energized just because nothing currently running knows about it anymore".
\* Failed writes are set apart.
DroppedOutputsSafe ==
    \A k \in Coils \ Driven(config) : coil[k] = rest[k] \/ k \in faulted

\* poll_engine.py: "every current digital_out is driven to its safe_state before
\* the swap", and still is there when the swap comes.
SwapFromSafe ==
    [][config' # config =>
         \A p \in Outputs(config) :
           LET k == CoilOf[config][p]
           IN  coil[k] = SafeState[config][p] \/ k \in faulted]_vars

\* A revert of p to the running document's safe state is listed or on its way.
RevertComing(p) ==
    \/ RevertOf(p) \in tests \cup pulses
    \/ \E t \in Threads : RevertOf(p) \in due[t] \/ RevertOf(p) = todo[t]

Covered(p) ==
    LET k == CoilOf[config][p]
    IN  coil[k] # SafeState[config][p] =>
          k \in held \/ k \in lost \/ k \in faulted \/ RevertComing(p)

\* An output that is away from its safe state is held there by a rule or a document,
\* or will be taken back, or its last write failed, or its revert went in one of the
\* ways that `lost` names: no order of reloads, test writes, pulses and reverts
\* strands another.
OutputsCovered == \A p \in Outputs(config) : Covered(p)

\* The same of the outputs that test writes alone energize, which holds for all threads
\* at once where the documents have the same outputs (HotReloadTests.cfg).
TestsCovered == \A p \in Outputs(config) \ RulePoints : Covered(p)

-----------------------------------------------------------------------------
\* The rest does not hold under HotReload.cfg, a working bus included.

\* No revert is lost.
NoneLost == lost = {}

\* A revert takes its output to the safe state of the running document.
RevertsAreSafe ==
    [][\A t \in Threads : \A r \in due[t] \ due'[t] :
         Known(r.point) => r.value = SafeState[config][r.point]]_vars

\* The schema's promise without the proviso about the bus.
DroppedNeverEnergized == \A k \in Coils \ Driven(config) : coil[k] = rest[k]

\* test_hot_reload.py: "a bad config must not glitch a relay on its way to being
\* refused": only a document that can take over has outputs driven for it.
RejectedTouchesNothing ==
    [][\A t \in Threads :
         At(t, "driving") /\ driving'[t] # driving[t] => doc[t] \in Buildable]_vars
=============================================================================
