------------------------------ MODULE Debounce ------------------------------
(***************************************************************************)
(* engine/debounce.py for one digital_in point, with the callers that      *)
(* decide which readings reach it: PollEngine._debounce passes only fresh  *)
(* readings on, and PollEngine.reload throws the Debouncer away.           *)
(***************************************************************************)
EXTENDS Integers

CONSTANTS
    Values,             \* readings: the two levels, or the bit lists of a count > 1 point
    NoValue,            \* stands for "no entry in _state" and for a stale reading
    DebounceMs,         \* the point's debounce_ms; a point without one bypasses all this
    PollIntervalMs      \* bus.poll_interval_ms

ASSUME DebounceAssumption ==
    /\ NoValue \notin Values
    /\ DebounceMs \in Nat \ {0}
    /\ PollIntervalMs \in Nat \ {0}

VARIABLES
    stable, candidate, count,   \* the point's entry in Debouncer._state
    effective,                  \* value of the ReadResult of the latest cycle, NoValue if stale
    last, streak,               \* history: latest fresh reading, length of its run
    cycles                      \* history: the same run, counted in unbroken poll cycles

state == <<stable, candidate, count>>
vars == <<stable, candidate, count, effective, last, streak, cycles>>

RequiredReads ==
    IF DebounceMs \div PollIntervalMs > 1 THEN DebounceMs \div PollIntervalMs ELSE 1

Abstract == INSTANCE DebounceSpec WITH
    out <- stable, Window <- RequiredReads

Init ==
    /\ stable = NoValue /\ candidate = NoValue /\ count = 0
    /\ effective = NoValue
    /\ last = NoValue /\ streak = 0 /\ cycles = 0

-----------------------------------------------------------------------------
ReadsFor(raw) == IF raw = candidate THEN count + 1 ELSE 1

\* Slips the properties must catch: a bounce that does not restart the count, a
\* count that is never advanced, one that is not cleared once accepted.
AgreeKeepsCount(raw) == raw = stable /\ UNCHANGED state

HoldForever(raw) ==
    /\ stable # NoValue /\ raw # stable
    /\ ReadsFor(raw) < RequiredReads
    /\ candidate' = raw
    /\ UNCHANGED <<stable, count>>

AcceptKeepsCount(raw) ==
    /\ stable # NoValue /\ raw # stable
    /\ ReadsFor(raw) >= RequiredReads
    /\ stable' = raw /\ candidate' = raw /\ count' = ReadsFor(raw)

\* Debouncer.apply, branch by branch.
Seed(raw) ==
    /\ stable = NoValue
    /\ stable' = raw /\ candidate' = raw /\ count' = 0

Agree(raw) ==
    /\ raw = stable
    /\ candidate' = stable /\ count' = 0
    /\ UNCHANGED stable

Hold(raw) ==
    /\ stable # NoValue /\ raw # stable
    /\ ReadsFor(raw) < RequiredReads
    /\ candidate' = raw /\ count' = ReadsFor(raw)
    /\ UNCHANGED stable

Accept(raw) ==
    /\ stable # NoValue /\ raw # stable
    /\ ReadsFor(raw) >= RequiredReads
    /\ stable' = raw /\ candidate' = raw /\ count' = 0

Apply(raw) == Seed(raw) \/ Agree(raw) \/ Hold(raw) \/ Accept(raw)

-----------------------------------------------------------------------------
\* PollEngine._debounce on a fresh reading.
FreshRead(raw) ==
    /\ Apply(raw)
    /\ effective' = stable'
    /\ last' = raw
    /\ streak' = Abstract!StreakWith(raw)
    /\ cycles' = IF raw = last /\ cycles < RequiredReads THEN cycles + 1
                 ELSE IF raw = last THEN RequiredReads ELSE 1

\* A cycle whose read failed returns the stale result before the Debouncer.
StaleRead ==
    /\ effective' = NoValue
    /\ cycles' = 0
    /\ UNCHANGED <<state, last, streak>>

\* A reload installs a new Debouncer; the point is seeded by its next reading.
Reload ==
    /\ stable' = NoValue /\ candidate' = NoValue /\ count' = 0
    /\ last' = NoValue /\ streak' = 0 /\ cycles' = 0
    /\ UNCHANGED effective

Next ==
    \/ \E raw \in Values : FreshRead(raw)
    \/ StaleRead
    \/ Reload

Spec == Init /\ [][Next]_vars

-----------------------------------------------------------------------------
\* Type invariant of the entry in _state and of the history.
TypeOK ==
    /\ stable \in Values \cup {NoValue}
    /\ candidate \in Values \cup {NoValue}
    /\ count \in 0 .. RequiredReads - 1
    /\ effective \in Values \cup {NoValue}
    /\ last \in Values \cup {NoValue}
    /\ streak \in 0 .. RequiredReads
    /\ cycles \in 0 .. RequiredReads

\* The candidate/count bookkeeping gives exactly the promised output: never a
\* change before RequiredReads equal readings (a bounce is not passed on), and
\* never one reading later than that, whatever values came in between.
ImplementsWindow == Abstract!Spec

\* Does not hold under ReadPath.cfg.  What debounce.py says: a change is accepted only after the value was read in
\* RequiredReads consecutive cycles (stale cycles are cycles too).
ConsecutiveCycles ==
    [][stable # NoValue /\ stable' \notin {stable, NoValue}
         => cycles' = RequiredReads]_vars

=============================================================================
