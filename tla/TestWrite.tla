----------------------------- MODULE TestWrite -----------------------------
(***************************************************************************)
(* engine/test_write.py under one configuration: every request of POST     *)
(* /api/test/write runs in a Flask thread of its own, and the poll thread   *)
(* takes back what is due.  Both reach the coils through                    *)
(* PollEngine.write_point, whose Modbus call and snapshot update are two    *)
(* steps that other threads may come between.                               *)
(*                                                                         *)
(* Each request is followed from its arrival to its revert; _pending is     *)
(* the set of requests in stage "pending".  Taking the due ones off it is   *)
(* one step: an append while the list is scanned is seen by the scan, and   *)
(* between the end of the scan and the rebinding of _pending CPython 3.10+  *)
(* (pymodbus needs it) does not switch threads.  One thread cycles here;   *)
(* HotReload has the handler of an update cycling beside it.               *)
(***************************************************************************)
EXTENDS Integers

CONSTANTS
    Requests,       \* the test-write requests that arrive
    Outputs,        \* digital_out points of the configuration
    SafeState,      \* safe_state of each
    Timeouts,       \* timeout_ms a client may ask for, in ticks
    MaxNow,         \* bound on the clock
    Faults          \* what the bus and the event log may do besides working

ASSUME TestWriteAssumption ==
    /\ SafeState \in [Outputs -> BOOLEAN]
    /\ Timeouts \subseteq Nat /\ Timeouts # {}
    /\ MaxNow \in Nat
    /\ Faults \subseteq {"refused", "lost", "unlogged"}

VARIABLES
    coil,           \* the physical outputs
    shown,          \* their entries in the LiveSnapshot
    commissioning,  \* TestWriteManager.commissioning_mode
    now,
    stage,          \* how far each request has come
    point, value, revertAt,     \* what it asks for, and its revert_at_ms
    passing,        \* the poll thread is in apply_pending_reverts
    faulted         \* history: outputs whose last write did not go as reported, or
                    \* whose revert was given up because an event could not be filed

asked == <<point, value, revertAt>>
vars == <<coil, shown, commissioning, now, stage, asked, passing, faulted>>

\* "unfiled": taken back, but the event could not be filed; "forgotten": not even
\* written, because of that.
Stages == {"new", "checked", "onBus", "written", "pending", "due", "reverted",
           "failed", "over", "unfiled", "forgotten"}

\* The tests whose auto-revert is still to come: accepted by the bus, not yet
\* taken back.
Open(x) == stage[x] \in {"onBus", "written", "pending", "due"}

Init ==
    /\ coil = SafeState /\ shown = SafeState
    /\ commissioning = FALSE /\ now = 0
    /\ stage = [x \in Requests |-> "new"]
    /\ point \in [Requests -> Outputs]
    /\ value = [x \in Requests |-> FALSE]
    /\ revertAt = [x \in Requests |-> 0]
    /\ passing = FALSE
    /\ faulted = {}

Stage(x, from, to) ==
    /\ stage[x] = from
    /\ stage' = [stage EXCEPT ![x] = to]

-----------------------------------------------------------------------------
\* The Modbus call of write_point.  "ok": the coil takes the value and the module
\* says so; "refused": an error answer, the coil keeps its value; "lost": the coil
\* takes the value but the answer does not arrive.  The caller sees the last two
\* alike, as a stale result.
CoilWrite(o, v, outcome) ==
    /\ outcome \in Faults \cup {"ok"}
    /\ coil' = IF outcome = "refused" THEN coil ELSE [coil EXCEPT ![o] = v]
    /\ faulted' = IF outcome = "ok" THEN faulted \ {o} ELSE faulted \cup {o}

-----------------------------------------------------------------------------
\* Slip: switching the mode off forgets what is scheduled.
SetModeAndForget(enabled) ==
    /\ commissioning' = enabled
    /\ stage' = [x \in Requests |->
                   IF ~enabled /\ stage[x] = "pending" THEN "over" ELSE stage[x]]
    /\ UNCHANGED <<coil, shown, now, asked, passing, faulted>>

\* POST /api/commissioning-mode.
SetMode(enabled) ==
    /\ commissioning' = enabled
    /\ UNCHANGED <<coil, shown, now, stage, asked, passing, faulted>>

\* Slip: the revert is scheduled in the past.
CheckBackwards(x, v, t) ==
    /\ Stage(x, "new", "checked")
    /\ commissioning /\ now + t <= MaxNow
    /\ value' = [value EXCEPT ![x] = v]
    /\ revertAt' = [revertAt EXCEPT ![x] = now - t]
    /\ UNCHANGED <<coil, shown, commissioning, now, point, passing, faulted>>

\* The checks of request_write pass: mode on, confirmed, a known digital_out.
Check(x, v, t) ==
    /\ Stage(x, "new", "checked")
    /\ commissioning /\ now + t <= MaxNow
    /\ value' = [value EXCEPT ![x] = v]
    /\ revertAt' = [revertAt EXCEPT ![x] = now + t]
    /\ UNCHANGED <<coil, shown, commissioning, now, point, passing, faulted>>

\* ... or one of them fails, and nothing is touched.
Reject(x) ==
    /\ Stage(x, "new", "over")
    /\ UNCHANGED <<coil, shown, commissioning, now, asked, passing, faulted>>

\* write_point energises the output; on a stale result request_write answers
\* with an error and schedules nothing.
WriteOutput(x) ==
    \E outcome \in {"ok", "refused", "lost"} :
      /\ Stage(x, "checked", IF outcome = "ok" THEN "onBus" ELSE "over")
      /\ CoilWrite(point[x], value[x], outcome)
      /\ UNCHANGED <<shown, commissioning, now, asked, passing>>

Show(x) ==
    /\ Stage(x, "onBus", "written")
    /\ shown' = [shown EXCEPT ![point[x]] = value[x]]
    /\ UNCHANGED <<coil, commissioning, now, asked, passing, faulted>>

\* log_event comes before the append: if it raises, the request fails with the output
\* energised and no revert scheduled.
LogRaises(x) ==
    /\ "unlogged" \in Faults /\ Stage(x, "written", "over")
    /\ faulted' = faulted \cup {point[x]}
    /\ UNCHANGED <<coil, shown, commissioning, now, asked, passing>>

\* self._pending.append(...), and the client is told ok.
Schedule(x) ==
    /\ Stage(x, "written", "pending")
    /\ UNCHANGED <<coil, shown, commissioning, now, asked, passing, faulted>>

-----------------------------------------------------------------------------
\* Slip: > where the program has >=.
DueTooLate(x) == stage[x] = "pending" /\ now > revertAt[x]

IsDue(x) == stage[x] = "pending" /\ now >= revertAt[x]

\* apply_pending_reverts, called by run_cycle, takes what is due off the list...
StartPass ==
    /\ ~passing /\ passing' = TRUE
    /\ stage' = [x \in Requests |-> IF IsDue(x) THEN "due" ELSE stage[x]]
    /\ UNCHANGED <<coil, shown, commissioning, now, asked, faulted>>

Reverting(x) == stage[x] \in {"reverted", "failed"}

\* ... and writes each back, once, whatever comes of it ...
Revert(x) ==
    \E outcome \in {"ok", "refused", "lost"} :
      /\ \A y \in Requests : ~Reverting(y)
      /\ Stage(x, "due", IF outcome = "ok" THEN "reverted" ELSE "failed")
      /\ CoilWrite(point[x], SafeState[point[x]], outcome)
      /\ UNCHANGED <<shown, commissioning, now, asked, passing>>

\* A revert that arrived is shown; one that did not leaves the live view alone.
ShowReverted(x) ==
    shown' = IF stage[x] = "reverted" THEN [shown EXCEPT ![point[x]] = SafeState[point[x]]]
                                      ELSE shown

\* ... and files an event ...
ShowRevert(x) ==
    /\ Reverting(x) /\ stage' = [stage EXCEPT ![x] = "over"]
    /\ ShowReverted(x)
    /\ UNCHANGED <<coil, commissioning, now, asked, passing, faulted>>

\* ... which may raise: run_cycle ends, and what else was due is forgotten.
CutPass(x) ==
    /\ "unlogged" \in Faults /\ Reverting(x)
    /\ ShowReverted(x)
    /\ LET lost == {y \in Requests : stage[y] = "due"}
       IN  /\ stage' = [y \in Requests |-> IF y = x THEN "unfiled"
                                           ELSE IF y \in lost THEN "forgotten" ELSE stage[y]]
           /\ faulted' = faulted \cup {point[y] : y \in lost}
    /\ passing' = FALSE
    /\ UNCHANGED <<coil, commissioning, now, asked>>

EndPass ==
    /\ passing /\ passing' = FALSE
    /\ \A x \in Requests : stage[x] # "due" /\ ~Reverting(x)
    /\ UNCHANGED <<coil, shown, commissioning, now, stage, asked, faulted>>

Tick ==
    /\ now < MaxNow /\ now' = now + 1
    /\ UNCHANGED <<coil, shown, commissioning, stage, asked, passing, faulted>>

-----------------------------------------------------------------------------
Handler(x) == WriteOutput(x) \/ Show(x) \/ LogRaises(x) \/ Schedule(x)

RevertStep(x) == Revert(x) \/ ShowRevert(x) \/ CutPass(x)

Next ==
    \/ \E enabled \in BOOLEAN : SetMode(enabled)
    \/ \E x \in Requests :
         \/ \E v \in BOOLEAN, t \in Timeouts : Check(x, v, t)
         \/ Reject(x) \/ Handler(x) \/ RevertStep(x)
    \/ StartPass \/ EndPass \/ Tick

Spec == Init /\ [][Next]_vars

\* A handler that passed its checks runs to its end, the poll loop keeps calling
\* run_cycle, and time passes.  Clients owe nothing.
Fairness ==
    /\ \A x \in Requests : WF_vars(Handler(x)) /\ WF_vars(RevertStep(x))
    /\ WF_vars(StartPass) /\ WF_vars(EndPass) /\ WF_vars(Tick)

LiveSpec == Spec /\ Fairness

-----------------------------------------------------------------------------
\* Type invariant.
TypeOK ==
    /\ coil \in [Outputs -> BOOLEAN] /\ shown \in [Outputs -> BOOLEAN]
    /\ commissioning \in BOOLEAN /\ passing \in BOOLEAN
    /\ now \in 0 .. MaxNow
    /\ stage \in [Requests -> Stages]
    /\ point \in [Requests -> Outputs]
    /\ value \in [Requests -> BOOLEAN]
    /\ revertAt \in [Requests -> 0 .. MaxNow]
    /\ faulted \subseteq Outputs

Covered(o) == \E x \in Requests : Open(x) /\ point[x] = o

\* An output away from its safe state has a test on it whose revert is still to
\* come; the only ways to lose the revert are a failed bus write to that output and an
\* event that cannot be filed.  Neither overlapping tests, nor a pass running against
\* a handler, nor the mode switched off loses one.
TestCovered ==
    \A o \in Outputs : coil[o] # SafeState[o] => Covered(o) \/ o \in faulted

\* test_write.py: "a dropped connection can never leave a test output energized":
\* whatever the clients do, every output under test is back in its safe state
\* again and again, unless the latest write to it failed or an event could not be
\* filed.
BackToSafe == \A o \in Outputs : []<>(coil[o] = SafeState[o] \/ o \in faulted)

\* The revert of each accepted test is written, whatever becomes of the write and of
\* other tests on the same output; or it was due together with that of another test,
\* which was written and whose event could not be filed.
CutOff(x) == stage[x] = "forgotten" /\ \E y \in Requests \ {x} : stage[y] = "unfiled"

RevertAttempted == \A x \in Requests : stage[x] = "pending" ~> Reverting(x) \/ CutOff(x)

-----------------------------------------------------------------------------
\* The rest does not hold under TestWrite.cfg.

\* Each revert is written: not where the pass is cut short by an event.
EachWritten == \A x \in Requests : stage[x] # "forgotten"

\* The documented promise without the proviso about the bus and the event log.
NeverLeftEnergized == \A o \in Outputs : coil[o] # SafeState[o] => Covered(o)

\* Between writes the live view shows the coils as they are.
LiveViewTrue ==
    (\A x \in Requests : stage[x] \in {"new", "pending", "over", "unfiled", "forgotten"})
      => shown = coil

\* An accepted test keeps its output until its own timeout.
KeptUntilTimeout ==
    [][\A x \in Requests :
         stage[x] = "pending" /\ coil[point[x]] = value[x] /\ coil'[point[x]] # value[x]
           => \/ now >= revertAt[x]
              \/ \E y \in Requests \ {x} : stage[y] = "checked" /\ stage'[y] = "onBus"]_vars
=============================================================================
