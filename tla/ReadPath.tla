------------------------------ MODULE ReadPath ------------------------------
(***************************************************************************)
(* PollEngine.run_cycle over one debounced point, step by step: read_point,*)
(* _debounce (Debounce), snapshot.update and _log_stale_transition, whose  *)
(* log_event may raise and cut the cycle off there.  A reload may come     *)
(* between any two steps; it brings a new Debouncer and keeps _stale_state.*)
(***************************************************************************)
EXTENDS Debounce

CONSTANTS
    Cyclers,        \* threads in run_cycle: the poll loop, and an OTA health check
    Nothing         \* no entry in the snapshot, no result in a thread's hand

ASSUME ReadAssumption == Nothing \notin Values \cup {NoValue}

VARIABLES
    pc,             \* where each thread is with the point
    hand,           \* its ReadResult: a value, NoValue if stale
    shown,          \* the point's entry in the LiveSnapshot, NoValue if stale
    wasStale,       \* the point's entry in _stale_state
    logged,         \* the point's latest event: "none", "error" or "recovered"
    refused         \* the latest cycle ended with log_event raising

path == <<pc, hand, shown, wasStale, logged, refused>>
readVars == <<vars, path>>

ReadInit ==
    /\ Init
    /\ pc = [c \in Cyclers |-> "idle"] /\ hand = [c \in Cyclers |-> Nothing]
    /\ shown = Nothing /\ wasStale = FALSE /\ logged = "none" /\ refused = FALSE

-----------------------------------------------------------------------------
Step(c, from, to) == pc[c] = from /\ pc' = [pc EXCEPT ![c] = to]
Stale(c) == hand[c] = NoValue

\* read_point: any transport failure is a stale result.
Read(c, result) ==
    /\ Step(c, "idle", "read") /\ hand' = [hand EXCEPT ![c] = result]
    /\ UNCHANGED <<vars, shown, wasStale, logged, refused>>

\* _debounce: a stale result goes round the Debouncer, a reading through it.
Settle(c) ==
    /\ Step(c, "read", "debounced")
    /\ \/ Stale(c) /\ StaleRead
       \/ ~Stale(c) /\ FreshRead(hand[c])
    /\ hand' = [hand EXCEPT ![c] = effective']
    /\ UNCHANGED <<shown, wasStale, logged, refused>>

Show(c) ==
    /\ Step(c, "debounced", "shown") /\ shown' = hand[c]
    /\ UNCHANGED <<vars, hand, wasStale, logged, refused>>

Transition(c) == Stale(c) # wasStale

\* _log_stale_transition files an event if the point went stale or came back ...
File(c) ==
    /\ Transition(c) /\ Step(c, "shown", "filed")
    /\ logged' = IF Stale(c) THEN "error" ELSE "recovered"
    /\ UNCHANGED <<vars, hand, shown, wasStale, refused>>

NoTransition(c) ==
    /\ ~Transition(c) /\ Step(c, "shown", "filed")
    /\ UNCHANGED <<vars, hand, shown, wasStale, logged, refused>>

\* Slips: the outage is remembered although nobody could be told of it; its end
\* is never remembered.
FileRaisesRemembered(c) ==
    /\ Transition(c) /\ Step(c, "shown", "idle") /\ hand' = [hand EXCEPT ![c] = Nothing]
    /\ wasStale' = Stale(c) /\ refused' = TRUE
    /\ UNCHANGED <<vars, shown, logged>>

RememberOutagesOnly(c) ==
    /\ Step(c, "filed", "idle") /\ hand' = [hand EXCEPT ![c] = Nothing]
    /\ wasStale' = (wasStale \/ Stale(c)) /\ refused' = FALSE
    /\ UNCHANGED <<vars, shown, logged>>

\* ... whose insert may raise: the cycle ends here, _stale_state as it was ...
FileRaises(c) ==
    /\ Transition(c) /\ Step(c, "shown", "idle") /\ hand' = [hand EXCEPT ![c] = Nothing]
    /\ refused' = TRUE
    /\ UNCHANGED <<vars, shown, wasStale, logged>>

\* ... and remembers the state.
Remember(c) ==
    /\ Step(c, "filed", "idle") /\ hand' = [hand EXCEPT ![c] = Nothing]
    /\ wasStale' = Stale(c) /\ refused' = FALSE
    /\ UNCHANGED <<vars, shown, logged>>

Cycle(c) ==
    \/ \E result \in Values \cup {NoValue} : Read(c, result)
    \/ Settle(c) \/ Show(c) \/ File(c) \/ NoTransition(c) \/ FileRaises(c) \/ Remember(c)

ReloadBetween == Reload /\ UNCHANGED path

ReadNext == (\E c \in Cyclers : Cycle(c)) \/ ReloadBetween

ReadSpec == ReadInit /\ [][ReadNext]_readVars

\* The loop goes on, and the database takes an event again and again.
ReadFairness == \A c \in Cyclers :
    /\ WF_readVars(Cycle(c))
    /\ SF_readVars(File(c))

ReadLiveSpec == ReadSpec /\ ReadFairness

-----------------------------------------------------------------------------
Labels == {"idle", "read", "debounced", "shown", "filed"}

\* Type invariant of the read path, over that of the debouncer.
ReadTypeOK ==
    /\ TypeOK
    /\ pc \in [Cyclers -> Labels]
    /\ hand \in [Cyclers -> Values \cup {NoValue, Nothing}]
    /\ \A c \in Cyclers : pc[c] = "idle" <=> hand[c] = Nothing
    /\ shown \in Values \cup {NoValue, Nothing}
    /\ wasStale \in BOOLEAN /\ refused \in BOOLEAN
    /\ logged \in {"none", "error", "recovered"}

\* What the web page shows and what the event log tells agree between cycles: the
\* point is shown stale exactly if its latest event is an error.  Only a cycle whose
\* event could not be filed may leave them apart, and the next one brings them
\* together; no reload in between makes an outage count twice or get lost.
LogMatches ==
    (\A c \in Cyclers : pc[c] = "idle") =>
        \/ shown = NoValue <=> logged = "error"
        \/ refused

\* An outage that lasts is on record in the end, however often the database refuses.
OutageIsLogged == <>[](effective = NoValue) => <>[](logged = "error")

\* A level the input has settled on is on the web page again and again, if the bus
\* answers again and again, whatever fails in between.
SettledInputIsShown == \A v \in Values :
    <>[](last = v) /\ []<>(\E c \in Cyclers : hand[c] \in Values) => []<>(shown = v)
=============================================================================
