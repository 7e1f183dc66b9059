--------------------------- MODULE DebounceProofs ---------------------------
(***************************************************************************)
(* The candidate/count bookkeeping of debounce.py implements the window of *)
(* DebounceSpec for every set of values and every debounce_ms and          *)
(* poll_interval_ms, also as the read path drives it; and the read path    *)
(* keeps the event log in step with the snapshot if one thread polls.      *)
(***************************************************************************)
EXTENDS ReadPath, TLAPS

\* How the entry in _state relates to the run of equal readings: a pending
\* candidate has been read exactly count times in a row, and without one the
\* latest reading is the stable value.
RunCounted ==
    /\ stable = NoValue <=> last = NoValue
    /\ last = NoValue => streak = 0
    /\ last # NoValue => streak \in 1 .. RequiredReads
    /\ candidate = last
    /\ last # stable => count = streak /\ streak < RequiredReads
    /\ last = stable => count = 0

IInv == TypeOK /\ RunCounted

LEMMA RequiredReadsNat == RequiredReads \in Nat \ {0}
  BY DebounceAssumption DEF RequiredReads

LEMMA InitIInv == Init => IInv
  BY RequiredReadsNat, DebounceAssumption DEF Init, IInv, TypeOK, RunCounted

\* One reading: the invariant is kept, and the entry changes as the window says.
LEMMA FreshReadStep ==
    ASSUME IInv, NEW raw \in Values, FreshRead(raw)
    PROVE  IInv' /\ Abstract!Read(raw)
<1> USE DebounceAssumption, RequiredReadsNat DEF IInv, TypeOK, RunCounted
<1>1. /\ last' = raw /\ streak' = Abstract!StreakWith(raw)
      /\ effective' = stable'
      /\ cycles' \in 0 .. RequiredReads
  BY DEF FreshRead
<1>2. Abstract!StreakWith(raw) \in 1 .. RequiredReads
  BY DEF Abstract!StreakWith
<1>3. CASE Seed(raw)
  <2>1. Abstract!StreakWith(raw) = 1
    BY <1>3 DEF Seed, Abstract!StreakWith
  <2> QED BY <1>1, <1>2, <1>3, <2>1 DEF Seed, Abstract!Read
<1>4. CASE Agree(raw)
  BY <1>1, <1>2, <1>4 DEF Agree, Abstract!Read
<1>5. ASSUME stable # NoValue, raw # stable
      PROVE  ReadsFor(raw) = Abstract!StreakWith(raw)
  BY <1>5 DEF ReadsFor, Abstract!StreakWith
<1>6. CASE Hold(raw)
  BY <1>1, <1>2, <1>5, <1>6 DEF Hold, Abstract!Read
<1>7. CASE Accept(raw)
  BY <1>1, <1>2, <1>5, <1>7 DEF Accept, Abstract!Read
<1> QED BY <1>3, <1>4, <1>6, <1>7 DEF FreshRead, Apply

LEMMA DebounceStep ==
    ASSUME IInv, [Next]_vars
    PROVE  IInv' /\ [Abstract!Next]_(Abstract!vars)
<1> USE RequiredReadsNat, DebounceAssumption
<1>1. ASSUME NEW raw \in Values, FreshRead(raw)
      PROVE  IInv' /\ Abstract!Next
  BY <1>1, FreshReadStep DEF Abstract!Next
<1>2. CASE StaleRead
  BY <1>2 DEF StaleRead, state, IInv, TypeOK, RunCounted, Abstract!vars
<1>3. CASE Reload
  BY <1>3 DEF Reload, IInv, TypeOK, RunCounted, Abstract!Next, Abstract!Restart
<1>4. CASE UNCHANGED vars
  BY <1>4 DEF vars, IInv, TypeOK, RunCounted, Abstract!vars
<1> QED BY <1>1, <1>2, <1>3, <1>4 DEF Next

LEMMA Invariance == Spec => []IInv
<1>1. IInv /\ [Next]_vars => IInv'
  BY DebounceStep
<1> QED BY InitIInv, <1>1, PTL DEF Spec

\* Type correctness of the Debouncer's entry.
THEOREM TypeCorrect == Spec => []TypeOK
<1>1. IInv => TypeOK
  BY DEF IInv
<1> QED BY Invariance, <1>1, PTL

\* Debouncer.apply gives the output of the window: never early, never late.
THEOREM Refinement == Spec => ImplementsWindow
<1>1. Init => Abstract!Init
  BY DEF Init, Abstract!Init
<1>2. IInv /\ [Next]_vars => [Abstract!Next]_(Abstract!vars)
  BY DebounceStep
<1> QED BY Invariance, <1>1, <1>2, PTL DEF Spec, ImplementsWindow, Abstract!Spec

-----------------------------------------------------------------------------
\* The read path takes only steps of Debounce, once the thread's hand is known to hold
\* a reading when it is not stale.
ReadIInv == IInv /\ ReadTypeOK

LEMMA ReadInitIInv == ReadInit => ReadIInv
  BY InitIInv, ReadAssumption DEF ReadInit, ReadIInv, ReadTypeOK, IInv, Labels

LEMMA SettleStep ==
    ASSUME ReadIInv, NEW c \in Cyclers, Settle(c)
    PROVE  /\ Next
           /\ effective' \in Values \cup {NoValue}
           /\ IInv'
<1>1. hand[c] \in Values \cup {NoValue}
  BY DEF ReadIInv, ReadTypeOK, Settle, Step
<1>2. Next
  BY <1>1 DEF Settle, Stale, Next
<1>3. IInv'
  BY <1>2, DebounceStep DEF ReadIInv
<1> QED BY <1>2, <1>3 DEF IInv, TypeOK

LEMMA ReadStep ==
    ASSUME ReadIInv, [ReadNext]_readVars
    PROVE  ReadIInv' /\ [Next]_vars
<1>1. [Next]_vars
  BY SettleStep DEF ReadNext, Cycle, ReloadBetween, Next, Read, Show, File, NoTransition,
     FileRaises, Remember, readVars
<1>2. IInv'
  BY <1>1, DebounceStep DEF ReadIInv
<1> USE ReadAssumption DEF ReadIInv, ReadTypeOK, Step, Labels
<1>3. TypeOK'
  BY <1>2 DEF IInv
<1>4. ASSUME NEW c \in Cyclers, NEW result \in Values \cup {NoValue}, Read(c, result)
      PROVE  ReadTypeOK'
  BY <1>3, <1>4 DEF Read
<1>5. ASSUME NEW c \in Cyclers, Settle(c)
      PROVE  ReadTypeOK'
  BY <1>3, <1>5, SettleStep DEF Settle
<1>6. ASSUME NEW c \in Cyclers, Show(c) \/ File(c) \/ NoTransition(c)
      PROVE  ReadTypeOK'
  BY <1>3, <1>6 DEF Show, File, NoTransition
<1>7. ASSUME NEW c \in Cyclers, FileRaises(c) \/ Remember(c)
      PROVE  ReadTypeOK'
  BY <1>3, <1>7 DEF FileRaises, Remember, Stale
<1>8. ASSUME UNCHANGED path
      PROVE  ReadTypeOK'
  BY <1>3, <1>8 DEF path
<1>9. \/ \E c \in Cyclers : Cycle(c)
      \/ UNCHANGED path
  BY DEF ReadNext, ReloadBetween, readVars
<1> HIDE DEF ReadTypeOK
<1>10. ReadTypeOK'
  BY <1>4, <1>5, <1>6, <1>7, <1>8, <1>9 DEF Cycle
<1> QED BY <1>1, <1>2, <1>10

LEMMA ReadInvariance == ReadSpec => []ReadIInv
<1>1. ReadIInv /\ [ReadNext]_readVars => ReadIInv'
  BY ReadStep
<1> QED BY ReadInitIInv, <1>1, PTL DEF ReadSpec

\* Type correctness of the read path, for any number of threads in it.
THEOREM ReadTypeCorrect == ReadSpec => []ReadTypeOK
<1>1. ReadIInv => ReadTypeOK
  BY DEF ReadIInv
<1> QED BY ReadInvariance, <1>1, PTL

\* The window is kept by the read path: whatever fails, is cut off or reloaded between
\* two readings, a change is passed on neither early nor late.
THEOREM ReadRefinement == ReadSpec => ImplementsWindow
<1>1. ReadInit => Init
  BY DEF ReadInit
<1>2. ReadIInv /\ [ReadNext]_readVars => [Next]_vars
  BY ReadStep
<1>3. ReadSpec => Spec
  BY ReadInvariance, <1>1, <1>2, PTL DEF ReadSpec, Spec
<1> QED BY <1>3, Refinement

-----------------------------------------------------------------------------
\* Where one thread is with the point says how the snapshot, _stale_state and the log
\* relate.
Told ==
    \A c \in Cyclers :
        /\ pc[c] # "filed" => (wasStale <=> logged = "error")
        /\ pc[c] = "filed" => (Stale(c) <=> logged = "error")
        /\ pc[c] \in {"shown", "filed"} => shown = hand[c]
        /\ pc[c] \in {"idle", "read", "debounced"} =>
              ((shown = NoValue <=> logged = "error") \/ refused)

LEMMA ToldStep ==
    ASSUME ReadIInv, Told, [ReadNext]_readVars, \A c, d \in Cyclers : c = d
    PROVE  Told'
<1> USE DEF Told, Step, Stale, Transition, ReadIInv, ReadTypeOK, Labels
<1>1. ASSUME NEW c \in Cyclers, NEW result \in Values \cup {NoValue}, Read(c, result)
      PROVE  Told'
  BY <1>1 DEF Read
<1>2. ASSUME NEW c \in Cyclers, Settle(c)
      PROVE  Told'
  BY <1>2 DEF Settle
<1>3. ASSUME NEW c \in Cyclers, Show(c)
      PROVE  Told'
  BY <1>3 DEF Show
<1>4. ASSUME NEW c \in Cyclers, File(c) \/ NoTransition(c)
      PROVE  Told'
  BY <1>4 DEF File, NoTransition
<1>5. ASSUME NEW c \in Cyclers, FileRaises(c)
      PROVE  Told'
  BY <1>5 DEF FileRaises
<1>6. ASSUME NEW c \in Cyclers, Remember(c)
      PROVE  Told'
  BY <1>6 DEF Remember
<1>7. CASE UNCHANGED path
  BY <1>7 DEF path
<1> QED BY <1>1, <1>2, <1>3, <1>4, <1>5, <1>6, <1>7 DEF ReadNext, Cycle, ReloadBetween, readVars

\* With one polling thread the page and the event log agree between cycles.
THEOREM LogsMatch ==
    ASSUME \A c, d \in Cyclers : c = d, Cyclers # {}
    PROVE  ReadSpec => []LogMatches
<1>1. ReadInit => Told
  BY ReadAssumption DEF ReadInit, Told
<1>2. ReadIInv /\ Told /\ [ReadNext]_readVars => Told'
  BY ToldStep
<1>3. Told => LogMatches
  BY DEF Told, LogMatches
<1> QED BY ReadInvariance, <1>1, <1>2, <1>3, PTL DEF ReadSpec
=============================================================================
