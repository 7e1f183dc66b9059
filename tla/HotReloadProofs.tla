-------------------------- MODULE HotReloadProofs --------------------------
(***************************************************************************)
(* The variables keep their types under every interleaving; and when one   *)
(* handler or cycle runs at a time, a reload swaps the configuration only  *)
(* with its outputs at rest, and an output it drops stays at rest, for any *)
(* documents whose points have coils of their own, and no order of test    *)
(* writes, pulses, reverts and reloads strands an output away from it.     *)
(* Where documents have the same outputs, no interleaving of all threads   *)
(* strands a test write either.                                            *)
(***************************************************************************)
EXTENDS HotReload, TLAPS

LEMMA CoilOfOutput ==
    ASSUME NEW c \in Configs, NEW p \in Outputs(c)
    PROVE  p \in Points /\ CoilOf[c][p] \in Coils /\ SafeState[c][p] \in BOOLEAN
  BY HotReloadAssumption DEF Outputs

LEMMA CoilsOfType ==
    ASSUME TypeOK, NEW x
    PROVE  CoilsOf(x) \subseteq Coils
<1>1. config \in Configs
  BY HotReloadAssumption DEF TypeOK
<1> QED BY <1>1, CoilOfOutput DEF CoilsOf, Known

LEMMA CoilWriteType ==
    ASSUME TypeOK, NEW p, Known(p), NEW v \in BOOLEAN, NEW outcome, NEW isSet,
           NEW gone \in SUBSET Coils, CoilWrite(p, v, outcome, isSet, gone)
    PROVE  /\ coil' \in [Coils -> BOOLEAN]
           /\ faulted' \subseteq Coils /\ held' \subseteq Coils /\ lost' \subseteq Coils
<1>1. CoilOf[config][p] \in Coils
  BY CoilOfOutput, HotReloadAssumption DEF TypeOK, Known
<1> QED BY <1>1 DEF TypeOK, CoilWrite

LEMMA RestUnderType ==
    ASSUME NEW c \in Configs, NEW old \in [Coils -> BOOLEAN]
    PROVE  RestUnder(c, old) \in [Coils -> BOOLEAN]
<1> SUFFICES ASSUME NEW k \in Coils, NEW p \in Outputs(c), CoilOf[c][p] = k
             PROVE  SafeState[c][CHOOSE q \in Outputs(c) : CoilOf[c][q] = k] \in BOOLEAN
  BY DEF RestUnder
<1> QED BY CoilOfOutput

LEMMA RevertType ==
    ASSUME NEW p \in Points, NEW v \in BOOLEAN
    PROVE  [point |-> p, value |-> v] \in Revert /\ [point |-> p, value |-> v] # None
  BY HotReloadAssumption DEF Revert

LEMMA TypeInit ==
    ASSUME Init
    PROVE  TypeOK
<1>1. RestUnder(First, [k \in Coils |-> FALSE]) \in [Coils -> BOOLEAN]
  BY RestUnderType, HotReloadAssumption
<1>2. First \in Buildable
  BY HotReloadAssumption
<1> QED BY <1>1, <1>2 DEF Init, TypeOK, At, Threads

\* What is left to show when a step writes a coil, or none, and changes the histories.
CoilsTyped ==
    /\ coil \in [Coils -> BOOLEAN]
    /\ faulted \subseteq Coils /\ held \subseteq Coils /\ lost \subseteq Coils

LEMMA UntouchedTyped ==
    ASSUME TypeOK, UNCHANGED <<coil, faulted, held>>, NEW gone,
           lost' = lost \cup CoilsOf(gone)
    PROVE  CoilsTyped'
  BY CoilsOfType DEF TypeOK, CoilsTyped

LEMMA ReloadType ==
    ASSUME TypeOK, NEW t \in Threads,
           \/ \E c \in Configs : BeginReload(t, c)
           \/ ReloadStep(t)
    PROVE  TypeOK'
<1> USE DEF TypeOK, At, Goto, lists, history
<1>1. ASSUME NEW c \in Configs, BeginReload(t, c)
      PROVE  TypeOK'
  <2>1. Outputs(config) \subseteq Points
    BY DEF Outputs
  <2>2. config # None /\ c # None
    BY HotReloadAssumption
  <2> QED BY <1>1, <2>1, <2>2, HotReloadAssumption DEF BeginReload, ToDrive, MayStart
<1>2. ASSUME NEW p \in Points, DriveSafe(t, p)
      PROVE  TypeOK'
  <2>1. base[t] \in Configs /\ SafeOf(t, p) \in BOOLEAN
    BY <1>2, HotReloadAssumption DEF DriveSafe, SafeOf
  <2>2. PICK outcome \in Outcomes, filed \in Filing :
          /\ IF Known(p) THEN CoilWrite(p, SafeOf(t, p), outcome, FALSE, {})
                         ELSE UNCHANGED <<coil, faulted, held, lost>>
          /\ IF Known(p) /\ (filed \/ outcome = "ok")
               THEN driving' = [driving EXCEPT ![t] = @ \ {p}] /\ UNCHANGED <<pc, doc, base>>
               ELSE driving' = [driving EXCEPT ![t] = {}] /\ Leave(t, "idle")
    BY <1>2 DEF DriveSafe
  <2>3. CoilsTyped'
    <3>1. CASE Known(p)
      <4>1. PICK v \in BOOLEAN : CoilWrite(p, v, outcome, FALSE, {})
        BY <2>1, <2>2, <3>1
      <4>2. {} \in SUBSET Coils
        OBVIOUS
      <4>3. TypeOK
        OBVIOUS
      <4> QED BY ONLY <3>1, <4>1, <4>2, <4>3, CoilWriteType DEF CoilsTyped
    <3> QED BY <2>2, <3>1 DEF CoilsTyped
  <2>4. UNCHANGED <<config, lists, due, todo, seen, rules, orphaned, rest>> /\ At(t, "driving")
    BY <1>2 DEF DriveSafe
  <2> QED BY <2>2, <2>3, <2>4 DEF Leave, CoilsTyped
<1>3. CASE Swap(t)
  <2>1. rest' \in [Coils -> BOOLEAN]
    BY <1>3, RestUnderType, HotReloadAssumption DEF Swap
  <2>2. pc'[t] \in {"tests", "idle"} /\ (t \notin Cyclers => pc'[t] = "idle")
    BY <1>3, HotReloadAssumption DEF Swap, Leave, AfterReload
  <2>3. /\ config' \in Buildable /\ pulses' = {} /\ held' \subseteq Coils
        /\ orphaned' \in [Threads -> BOOLEAN]
    BY <1>3 DEF Swap
  <2>4. /\ seen' \in [Threads -> (SUBSET Revert) \cup {None}]
        /\ \A u \in Threads : seen'[u] # None => seen[u] # None \/ pc[u] = "rules"
    BY <1>3 DEF Swap
  <2>5. \A u \in Threads \ {t} : pc'[u] = pc[u] /\ doc'[u] = doc[u] /\ base'[u] = base[u]
    BY <1>3 DEF Swap, Leave
  <2>6. doc'[t] = None /\ base'[t] = None /\ pc[t] = "driving"
    BY <1>3 DEF Swap, Leave
  <2>7. /\ pc' \in [Threads -> {"idle", "driving", "written", "tests", "reverting",
                                 "rules", "pulsing", "pulsed"}]
        /\ doc' \in [Threads -> Configs \cup {None}]
        /\ base' \in [Threads -> Buildable \cup {None}]
    BY <1>3, <2>2 DEF Swap, Leave, AfterReload
  <2>8. UNCHANGED <<coil, tests, driving, due, todo, rules, lost, faulted>> /\ driving[t] = {}
    BY <1>3 DEF Swap
  <2> QED BY <2>1, <2>2, <2>3, <2>4, <2>5, <2>6, <2>7, <2>8
<1>4. CASE BuildFails(t)
  <2>1. pc'[t] \in {"tests", "idle"} /\ (t \notin Cyclers => pc'[t] = "idle")
    BY <1>4, HotReloadAssumption DEF BuildFails, Leave, AfterReload
  <2> QED BY <1>4, <2>1 DEF BuildFails, Leave, AfterReload
<1> QED BY <1>1, <1>2, <1>3, <1>4 DEF ReloadStep

LEMMA HandlerType ==
    ASSUME TypeOK, NEW t \in Threads,
           Schedule(t) \/ \E p \in Points, v \in BOOLEAN : TestWrite(t, p, v)
    PROVE  TypeOK'
<1> USE DEF TypeOK, At, Goto, lists, history
<1>1. ASSUME NEW p \in Points, NEW v \in BOOLEAN, TestWrite(t, p, v)
      PROVE  TypeOK'
  <2>1. PICK outcome \in Outcomes, filed \in Filing :
          /\ CoilWrite(p, v, outcome, FALSE,
                       IF outcome = "ok" /\ ~filed THEN CoilsOf({RevertOf(p)}) ELSE {})
          /\ IF outcome = "ok" /\ filed
               THEN Goto(t, "written") /\ todo' = [todo EXCEPT ![t] = RevertOf(p)]
               ELSE UNCHANGED <<pc, todo>>
    BY <1>1 DEF TestWrite
  <2>2. CoilsTyped'
    <3> DEFINE gone == IF outcome = "ok" /\ ~filed THEN CoilsOf({RevertOf(p)}) ELSE {}
    <3>1. gone \in SUBSET Coils
      BY CoilsOfType
    <3>2. CoilWrite(p, v, outcome, FALSE, gone) /\ Known(p)
      BY <1>1, <2>1 DEF TestWrite
    <3> HIDE DEF gone
    <3> QED BY <3>1, <3>2, CoilWriteType DEF CoilsTyped
  <2>3. RevertOf(p) \in Revert /\ RevertOf(p) # None
    BY RevertType, HotReloadAssumption DEF RevertOf
  <2>4. t \in Handlers /\ pc[t] = "idle"
    BY <1>1 DEF TestWrite, MayStart
  <2>5. UNCHANGED <<config, lists, doc, base, driving, due, seen, rules, orphaned, rest>>
    BY <1>1 DEF TestWrite
  <2>6. CASE outcome = "ok" /\ filed
    <3>1. pc' = [pc EXCEPT ![t] = "written"] /\ todo' = [todo EXCEPT ![t] = RevertOf(p)]
      BY <2>1, <2>6
    <3> QED BY <2>2, <2>3, <2>4, <2>5, <3>1 DEF CoilsTyped
  <2>7. CASE ~(outcome = "ok" /\ filed)
    BY <2>1, <2>2, <2>5, <2>7 DEF CoilsTyped
  <2> QED BY <2>6, <2>7
<1>2. CASE Schedule(t)
  BY <1>2 DEF Schedule
<1> QED BY <1>1, <1>2

LEMMA AbortType ==
    ASSUME TypeOK, NEW t \in Threads, pc[t] \in {"tests", "reverting", "pulsing"}, Abort(t),
           UNCHANGED <<config, lists, doc, base, driving, todo, rest>>, CoilsTyped'
    PROVE  TypeOK'
<1>1. todo[t] = None
  BY DEF TypeOK, At
<1> QED BY <1>1 DEF TypeOK, At, Goto, Abort, lists, CoilsTyped

\* A cycle's write that leaves the cycle where it is.
LEMMA GoesOnType ==
    ASSUME TypeOK, NEW t \in Threads, pc[t] \in {"reverting", "pulsing"}, CoilsTyped',
           due' = due \/ \E r \in Revert : due' = [due EXCEPT ![t] = @ \ {r}],
           UNCHANGED <<config, lists, pc, doc, base, driving, todo, seen, rules, orphaned, rest>>
    PROVE  TypeOK'
  BY DEF TypeOK, At, lists, CoilsTyped

LEMMA ReplacesType ==
    ASSUME TypeOK, NEW t \in Threads, NEW list \in SUBSET Revert, NEW label,
           NEW begun \in SUBSET {u \in Threads : At(u, label)}, Replaces(t, list, begun)
    PROVE  /\ seen' \in [Threads -> (SUBSET Revert) \cup {None}] /\ seen'[t] = None
           /\ \A u \in Threads : seen'[u] # None => seen[u] # None \/ pc[u] = label
<1> DEFINE S == [u \in Threads |-> IF u \in begun /\ seen[u] = None THEN list ELSE seen[u]]
<1>1. \A u \in Threads : seen[u] \in (SUBSET Revert) \cup {None}
  BY DEF TypeOK
<1>2. /\ S \in [Threads -> (SUBSET Revert) \cup {None}]
      /\ \A u \in Threads : S[u] # None => seen[u] # None \/ pc[u] = label
  BY <1>1 DEF At
<1>3. seen' = [S EXCEPT ![t] = None]
  BY DEF Replaces
<1> HIDE DEF S
<1> QED BY <1>2, <1>3

LEMMA ScannedType ==
    ASSUME TypeOK, NEW t \in Threads
    PROVE  Scanned(t, tests) \subseteq Revert /\ Scanned(t, pulses) \subseteq Revert
  BY DEF TypeOK, Scanned

LEMMA TakeType ==
    ASSUME TypeOK, NEW t \in Threads, TakeTests(t) \/ TakePulses(t)
    PROVE  TypeOK'
<1>1. tests \in SUBSET Revert /\ pulses \in SUBSET Revert /\ t \in Cyclers
  BY DEF TypeOK, TakeTests, TakePulses, At
<1>2. CoilsOf(tests \ Scanned(t, tests)) \subseteq Coils
      /\ CoilsOf(pulses \ Scanned(t, pulses)) \subseteq Coils
  BY CoilsOfType
<1>3. CASE TakeTests(t)
  <2>1. PICK begun \in SUBSET {u \in Threads : At(u, "tests")} : Replaces(t, tests, begun)
    BY <1>3 DEF TakeTests
  <2>2. /\ seen' \in [Threads -> (SUBSET Revert) \cup {None}] /\ seen'[t] = None
        /\ \A u \in Threads : seen'[u] # None => seen[u] # None \/ pc[u] = "tests"
    BY <1>1, <2>1, ReplacesType
  <2>3. tests' \subseteq Revert /\ due' \in [Threads -> SUBSET Revert]
        /\ \A u \in Threads \ {t} : due'[u] = due[u]
    BY <1>3, ScannedType DEF TakeTests, TypeOK
  <2>4. lost' \subseteq Coils
    BY <1>2, <1>3 DEF TakeTests, TypeOK
  <2>5. UNCHANGED <<config, coil, pulses, doc, base, driving, todo, rules, orphaned,
                    held, faulted, rest>>
        /\ pc[t] = "tests" /\ pc' = [pc EXCEPT ![t] = "reverting"]
    BY <1>3 DEF TakeTests, At, Goto
  <2> QED BY <1>1, <2>2, <2>3, <2>4, <2>5 DEF TypeOK, At
<1>4. CASE TakePulses(t)
  <2>1. PICK begun \in SUBSET {u \in Threads : At(u, "rules")} : Replaces(t, pulses, begun)
    <3>1. PICK begun \in SUBSET {u \in Threads : At(u, "rules") /\ ~orphaned[t]} :
            Replaces(t, pulses, begun)
      BY <1>4 DEF TakePulses
    <3> QED BY <3>1
  <2>2. /\ seen' \in [Threads -> (SUBSET Revert) \cup {None}] /\ seen'[t] = None
        /\ \A u \in Threads : seen'[u] # None => seen[u] # None \/ pc[u] = "rules"
    BY <1>1, <2>1, ReplacesType
  <2>3. pulses' \subseteq Revert /\ due' \in [Threads -> SUBSET Revert]
        /\ \A u \in Threads \ {t} : due'[u] = due[u]
    BY <1>4, ScannedType DEF TakePulses, TypeOK
  <2>4. lost' \subseteq Coils
    BY <1>2, <1>4 DEF TakePulses, TypeOK
  <2>5. UNCHANGED <<config, coil, tests, doc, base, driving, todo, rules, orphaned,
                    held, faulted, rest>>
        /\ pc[t] = "rules" /\ pc' = [pc EXCEPT ![t] = "pulsing"]
    BY <1>4 DEF TakePulses, At, Goto
  <2> QED BY <1>1, <2>2, <2>3, <2>4, <2>5 DEF TypeOK, At
<1> QED BY <1>3, <1>4

\* What the two kinds of write of a cycle do to coils and histories.
LEMMA CycleWriteTyped ==
    ASSUME TypeOK, NEW t \in Threads, NEW p \in Points,
           \/ \E r \in Revert : RevertDue(t, r)
           \/ \E v \in BOOLEAN : FireSet(t, p, v) \/ FirePulse(t, p, v)
    PROVE  CoilsTyped'
<1>1. ASSUME NEW r \in Revert, RevertDue(t, r)
      PROVE  CoilsTyped'
  <2>1. CASE Known(r.point)
    <3>1. PICK outcome \in Outcomes, filed \in Filing :
            CoilWrite(r.point, r.value, outcome, r.value # SafeState[config][r.point],
                      IF filed THEN {} ELSE CoilsOf(due[t] \ {r}))
      BY <1>1, <2>1 DEF RevertDue
    <3>2. (IF filed THEN {} ELSE CoilsOf(due[t] \ {r})) \in SUBSET Coils /\ r.value \in BOOLEAN
      BY CoilsOfType DEF Revert
    <3> QED BY <2>1, <3>1, <3>2, CoilWriteType DEF CoilsTyped
  <2>2. CASE ~Known(r.point)
    BY <1>1, <2>2, UntouchedTyped DEF RevertDue
  <2> QED BY <2>1, <2>2
<1>2. ASSUME NEW v \in BOOLEAN, FireSet(t, p, v)
      PROVE  CoilsTyped'
  <2>1. CASE Known(p)
    <3>1. PICK outcome \in Outcomes : CoilWrite(p, v, outcome, TRUE, {})
      BY <1>2, <2>1 DEF FireSet
    <3>2. {} \in SUBSET Coils
      OBVIOUS
    <3> QED BY <2>1, <3>1, <3>2, CoilWriteType DEF CoilsTyped
  <2>2. CASE ~Known(p)
    BY <1>2, <2>2 DEF FireSet, CoilsTyped, TypeOK
  <2> QED BY <2>1, <2>2
<1>3. ASSUME NEW v \in BOOLEAN, FirePulse(t, p, v)
      PROVE  CoilsTyped'
  <2>1. CASE Known(p)
    <3>1. PICK outcome \in Outcomes, filed \in Filing :
            CoilWrite(p, v, outcome, FALSE, IF filed THEN {} ELSE CoilsOf({RevertOf(p)}))
      BY <1>3, <2>1 DEF FirePulse
    <3>2. (IF filed THEN {} ELSE CoilsOf({RevertOf(p)})) \in SUBSET Coils
      BY CoilsOfType
    <3> QED BY <2>1, <3>1, <3>2, CoilWriteType DEF CoilsTyped
  <2>2. CASE ~Known(p)
    BY <1>3, <2>2 DEF FirePulse, CoilsTyped, TypeOK
  <2> QED BY <2>1, <2>2
<1> QED BY <1>1, <1>2, <1>3

LEMMA CycleType ==
    ASSUME TypeOK, NEW t \in Threads, Cycle(t)
    PROVE  TypeOK'
<1>1. config # None
  BY HotReloadAssumption DEF TypeOK
<1>2. CASE StartCycle(t)
  BY <1>2 DEF StartCycle, MayStart, TypeOK, At, Goto, lists, work, history
<1>3. CASE CutShort(t) \/ EndCycle(t)
  <2>1. CoilsTyped'
    BY <1>3 DEF CutShort, EndCycle, history, CoilsTyped, TypeOK
  <2> QED BY <1>3, <2>1, AbortType DEF CutShort, EndCycle, At, history
<1>4. CASE EnterRules(t)
  BY <1>1, <1>4 DEF EnterRules, TypeOK, At, Goto, lists, history
<1>5. CASE ListPulse(t)
  BY <1>5 DEF ListPulse, TypeOK, At, Goto, history
<1>6. ASSUME NEW r \in Revert, RevertDue(t, r)
      PROVE  TypeOK'
  <2>1. CoilsTyped' /\ pc[t] \in {"reverting", "pulsing"}
    <3>1. r.point \in Points
      BY DEF Revert
    <3> QED BY <1>6, <3>1, CycleWriteTyped DEF RevertDue, At
  <2>2. UNCHANGED <<config, lists, doc, base, driving, todo, rest>>
    BY <1>6 DEF RevertDue
  <2>3. Abort(t) \/ (due' = [due EXCEPT ![t] = @ \ {r}] /\ UNCHANGED <<pc, seen, rules, orphaned>>)
    BY <1>6 DEF RevertDue
  <2> QED BY <2>1, <2>2, <2>3, AbortType, GoesOnType
<1>7. ASSUME NEW p \in Points, NEW v \in BOOLEAN, FireSet(t, p, v)
      PROVE  TypeOK'
  <2>1. CoilsTyped'
    BY <1>7, CycleWriteTyped
  <2>2. UNCHANGED <<config, lists, doc, base, driving, todo, rest>> /\ pc[t] = "pulsing"
    BY <1>7 DEF FireSet, MayFire, At
  <2>3. Abort(t) \/ UNCHANGED <<pc, due, seen, rules, orphaned>>
    BY <1>7 DEF FireSet
  <2> QED BY <2>1, <2>2, <2>3, AbortType, GoesOnType
<1>8. ASSUME NEW p \in Points, NEW v \in BOOLEAN, FirePulse(t, p, v)
      PROVE  TypeOK'
  <2>1. CoilsTyped'
    BY <1>8, CycleWriteTyped
  <2>2. UNCHANGED <<config, lists, doc, base, driving, rest>> /\ pc[t] = "pulsing"
    BY <1>8 DEF FirePulse, MayFire, At
  <2>3. \/ Abort(t) /\ UNCHANGED todo
        \/ /\ Goto(t, "pulsed") /\ todo' = [todo EXCEPT ![t] = [point |-> p, value |-> ~v]]
           /\ UNCHANGED <<due, seen, rules, orphaned>>
    BY <1>8 DEF FirePulse
  <2>4. CASE Abort(t) /\ UNCHANGED todo
    BY <2>1, <2>2, <2>4, AbortType
  <2>5. CASE /\ Goto(t, "pulsed") /\ todo' = [todo EXCEPT ![t] = [point |-> p, value |-> ~v]]
             /\ UNCHANGED <<due, seen, rules, orphaned>>
    <3>1. [point |-> p, value |-> ~v] \in Revert /\ [point |-> p, value |-> ~v] # None
      BY RevertType
    <3>2. due[t] = {} /\ t \in Cyclers
      BY <1>8, <2>2 DEF FirePulse, MayFire, TypeOK
    <3> QED BY <2>1, <2>2, <2>5, <3>1, <3>2 DEF TypeOK, CoilsTyped, At, Goto, lists
  <2> QED BY <2>3, <2>4, <2>5
<1> QED BY <1>2, <1>3, <1>4, <1>5, <1>6, <1>7, <1>8, TakeType DEF Cycle

LEMMA TypeInductive ==
    ASSUME TypeOK, [Next]_vars
    PROVE  TypeOK'
<1>1. CASE UNCHANGED vars
  BY <1>1 DEF vars, work, lists, history, TypeOK, At
<1> QED BY <1>1, ReloadType, HandlerType, CycleType DEF Next

\* Type correctness under every interleaving of the threads that cycle and the
\* handlers: no thread leaves anything in hand behind when it aborts or finishes.
THEOREM TypeCorrect == Spec => []TypeOK
<1>1. Init => TypeOK
  BY TypeInit
<1>2. TypeOK /\ [Next]_vars => TypeOK'
  BY TypeInductive
<1> QED BY <1>1, <1>2, PTL DEF Spec

-----------------------------------------------------------------------------
(***************************************************************************)
(* One handler or cycle at a time.  The invariant says that only the       *)
(* reload itself can be at work during its walk (Sole), that what it has   *)
(* walked over is at rest under the document that is still running (Walk), *)
(* and that rest is what that document prescribes (RestMatches).           *)
(***************************************************************************)
Rested(p) ==
    \/ coil[CoilOf[config][p]] = SafeState[config][p]
    \/ CoilOf[config][p] \in faulted

Alone(t) == \A u \in Threads : u # t => At(u, "idle")

Sole == \A t \in Threads : At(t, "idle") \/ Alone(t)

Walk ==
    \A t \in Threads : At(t, "driving") =>
      /\ base[t] = config
      /\ \A p \in Outputs(config) : p \in driving[t] \/ Rested(p)

RestMatches == \A p \in Outputs(config) : rest[CoilOf[config][p]] = SafeState[config][p]

IInv == TypeOK /\ Sole /\ Walk /\ RestMatches /\ DroppedOutputsSafe

\* A document's own coils rest as it says, the others as before.
LEMMA RestUnderOwn ==
    ASSUME NEW c \in Configs, NEW old, NEW p \in Outputs(c)
    PROVE  RestUnder(c, old)[CoilOf[c][p]] = SafeState[c][p]
<1> DEFINE k == CoilOf[c][p]
           q == CHOOSE x \in Outputs(c) : CoilOf[c][x] = k
<1>1. k \in Coils
  BY CoilOfOutput
<1>2. q \in Outputs(c) /\ CoilOf[c][q] = k
  OBVIOUS
<1>3. q = p
  BY <1>2, HotReloadAssumption
<1> QED BY <1>1, <1>3 DEF RestUnder

LEMMA RestUnderOther ==
    ASSUME NEW c \in Configs, NEW old, NEW k \in Coils \ Driven(c)
    PROVE  RestUnder(c, old)[k] = old[k]
  BY DEF RestUnder, Driven

\* A write reaches a coil of the running document only.
LEMMA WriteKeepsRest ==
    ASSUME TypeOK, RestMatches, DroppedOutputsSafe, NEW p, Known(p), NEW v, NEW isSet, NEW gone,
           \E outcome \in Outcomes : CoilWrite(p, v, outcome, isSet, gone),
           UNCHANGED <<config, rest>>
    PROVE  RestMatches' /\ DroppedOutputsSafe'
<1>1. CoilOf[config][p] \in Driven(config)
  BY DEF Known, Driven
<1>2. PICK outcome \in Outcomes : CoilWrite(p, v, outcome, isSet, gone)
  OBVIOUS
<1>3. ASSUME NEW k \in Coils \ Driven(config)
      PROVE  coil'[k] = coil[k] /\ (k \in faulted <=> k \in faulted')
  BY <1>1, <1>2, <1>3 DEF CoilWrite, TypeOK
<1> QED BY <1>3 DEF RestMatches, DroppedOutputsSafe, Driven, Outputs

LEMMA QuietKeepsRest ==
    ASSUME RestMatches, DroppedOutputsSafe, UNCHANGED <<config, coil, faulted, rest>>
    PROVE  RestMatches' /\ DroppedOutputsSafe'
  BY DEF RestMatches, DroppedOutputsSafe, Driven, Outputs

\* Whoever takes a step is alone, and stays so.
LEMMA ActorAlone ==
    ASSUME ~Concurrent, Sole, NEW t \in Threads, MayStart(t) \/ ~At(t, "idle")
    PROVE  Alone(t)
  BY DEF Sole, MayStart, Alone

LEMMA StaysAlone ==
    ASSUME TypeOK, NEW t \in Threads, Alone(t), NEW label,
           Goto(t, label) \/ UNCHANGED pc
    PROVE  Alone(t)' /\ Sole'
<1>1. Alone(t)'
  BY DEF TypeOK, Alone, At, Goto
<1> QED BY <1>1 DEF Sole, Alone, At

\* A step of a thread that is not in reload afterwards.
LEMMA OutsideReload ==
    ASSUME TypeOK, NEW t \in Threads, Alone(t), NEW label,
           Goto(t, label) \/ UNCHANGED pc, ~At(t, "driving")'
    PROVE  Sole' /\ Walk'
<1>1. Alone(t)' /\ Sole'
  BY StaysAlone
<1> QED BY <1>1 DEF Walk, Alone, At

-----------------------------------------------------------------------------
LEMMA InitInv ==
    ASSUME Init
    PROVE  IInv
<1>1. First \in Configs /\ config = First
  BY HotReloadAssumption DEF Init
<1>2. RestMatches
  BY <1>1, RestUnderOwn DEF Init, RestMatches
<1>3. Sole /\ Walk /\ DroppedOutputsSafe
  BY DEF Init, Sole, Walk, DroppedOutputsSafe, At
<1> QED BY <1>2, <1>3, TypeInit DEF IInv

LEMMA BeginReloadInv ==
    ASSUME ~Concurrent, IInv, NEW t \in Threads, NEW c \in Configs, BeginReload(t, c)
    PROVE  Sole' /\ Walk' /\ RestMatches' /\ DroppedOutputsSafe'
<1>1. Alone(t)
  BY ActorAlone DEF IInv, BeginReload
<1>2. Alone(t)' /\ Sole'
  BY <1>1, StaysAlone DEF IInv, BeginReload
<1>3. base'[t] = config /\ driving'[t] = Outputs(config) /\ config' = config
  BY DEF IInv, TypeOK, BeginReload, ToDrive
<1>4. Walk'
  BY <1>2, <1>3 DEF Walk, Alone, At, Outputs
<1> QED BY <1>2, <1>4, QuietKeepsRest DEF IInv, BeginReload, history

\* Reload ends without a swap, its last write made or not.
LEMMA LeaveInv ==
    ASSUME ~Concurrent, IInv, NEW t \in Threads, At(t, "driving"), NEW label \in {"idle", "tests"},
           Leave(t, label), UNCHANGED <<config, rest>>,
           \/ UNCHANGED <<coil, faulted>>
           \/ \E p, v, isSet, gone : Known(p) /\ \E outcome \in Outcomes :
                 CoilWrite(p, v, outcome, isSet, gone)
    PROVE  Sole' /\ Walk' /\ RestMatches' /\ DroppedOutputsSafe'
<1>1. Alone(t)
  BY ActorAlone DEF IInv, At
<1>2. Goto(t, label) /\ ~At(t, "driving")'
  BY DEF Leave, Goto, At, IInv, TypeOK
<1>3. Sole' /\ Walk'
  BY <1>1, <1>2, OutsideReload DEF IInv
<1>4. RestMatches' /\ DroppedOutputsSafe'
  BY QuietKeepsRest, WriteKeepsRest DEF IInv
<1> QED BY <1>3, <1>4

LEMMA DriveSafeInv ==
    ASSUME ~Concurrent, IInv, NEW t \in Threads, NEW p \in Points, DriveSafe(t, p)
    PROVE  Sole' /\ Walk' /\ RestMatches' /\ DroppedOutputsSafe'
<1>1. At(t, "driving") /\ UNCHANGED <<config, rest>> /\ config \in Configs
  BY HotReloadAssumption DEF DriveSafe, IInv, TypeOK
<1>2. base[t] = config /\ \A q \in Outputs(config) : q \in driving[t] \/ Rested(q)
  BY <1>1 DEF IInv, Walk
<1>3. PICK outcome \in Outcomes, filed \in Filing :
        /\ IF Known(p) THEN CoilWrite(p, SafeState[config][p], outcome, FALSE, {})
                       ELSE UNCHANGED <<coil, faulted, held, lost>>
        /\ IF Known(p) /\ (filed \/ outcome = "ok")
             THEN driving' = [driving EXCEPT ![t] = @ \ {p}] /\ UNCHANGED <<pc, doc, base>>
             ELSE driving' = [driving EXCEPT ![t] = {}] /\ Leave(t, "idle")
  BY <1>2 DEF DriveSafe, SafeOf
<1>4. CASE ~(Known(p) /\ (filed \/ outcome = "ok"))
  BY <1>1, <1>3, <1>4, LeaveInv
<1>5. CASE Known(p) /\ (filed \/ outcome = "ok")
  <2>1. UNCHANGED <<pc, base>> /\ CoilWrite(p, SafeState[config][p], outcome, FALSE, {})
    BY <1>3, <1>5
  <2>2. Alone(t)' /\ Sole'
    BY <1>1, <2>1, ActorAlone, StaysAlone DEF IInv, At
  <2>3. RestMatches' /\ DroppedOutputsSafe'
    BY <1>1, <1>5, <2>1, WriteKeepsRest DEF IInv
  <2>4. Rested(p)'
    <3>1. CoilOf[config][p] \in Coils
      BY <1>1, <1>5, CoilOfOutput DEF Known
    <3> QED BY <1>1, <2>1, <3>1 DEF CoilWrite, Rested, Outcomes, IInv, TypeOK
  <2>5. ASSUME NEW q \in Outputs(config), q # p, Rested(q)
        PROVE  Rested(q)'
    <3>1. CoilOf[config][q] # CoilOf[config][p]
      BY <1>1, <1>5, <2>5, HotReloadAssumption DEF Known
    <3>2. CoilOf[config][q] \in Coils
      BY <1>1, CoilOfOutput
    <3> QED BY <1>1, <2>1, <2>5, <3>1, <3>2 DEF CoilWrite, Rested, IInv, TypeOK
  <2>6. driving'[t] = driving[t] \ {p}
    BY <1>3, <1>5 DEF IInv, TypeOK
  <2>7. \A q \in Outputs(config) : q \in driving'[t] \/ Rested(q)'
    BY <1>2, <2>4, <2>5, <2>6
  <2>8. Walk'
    BY <1>1, <1>2, <2>1, <2>2, <2>7 DEF Walk, Alone, At, Outputs
  <2> QED BY <2>2, <2>3, <2>8
<1> QED BY <1>4, <1>5

\* At the swap the walk is over, so that every output of the old document rests.
LEMMA AtSwap ==
    ASSUME IInv, NEW t \in Threads, Swap(t)
    PROVE  \A p \in Outputs(config) : Rested(p)
  BY DEF IInv, Walk, Swap

LEMMA SwapInv ==
    ASSUME ~Concurrent, IInv, NEW t \in Threads, Swap(t)
    PROVE  Sole' /\ Walk' /\ RestMatches' /\ DroppedOutputsSafe'
<1>1. PICK label \in AfterReload(t) : At(t, "driving") /\ Leave(t, label)
  BY DEF Swap
<1>2. Sole' /\ Walk'
  <2>1. ~At(t, "driving")'
    BY <1>1 DEF Leave, Goto, AfterReload, At, IInv, TypeOK
  <2>2. Alone(t)
    BY <1>1, ActorAlone DEF IInv, At
  <2> QED BY <1>1, <2>1, <2>2, OutsideReload DEF Leave, IInv
<1>3. doc[t] \in Configs /\ config' = doc[t] /\ rest' = RestUnder(doc[t], rest)
      /\ UNCHANGED <<coil, faulted>> /\ config \in Configs
  BY HotReloadAssumption DEF Swap, IInv, TypeOK
<1>4. RestMatches'
  <2>1. \A p \in Outputs(doc[t]) : RestUnder(doc[t], rest)[CoilOf[doc[t]][p]] = SafeState[doc[t]][p]
    BY <1>3, RestUnderOwn
  <2> QED BY <1>3, <2>1 DEF RestMatches, Outputs
<1>5. ASSUME NEW k \in Coils \ Driven(doc[t])
      PROVE  coil[k] = rest'[k] \/ k \in faulted
  <2>1. rest'[k] = rest[k]
    BY <1>3, RestUnderOther
  <2>2. CASE k \in Driven(config)
    <3>1. PICK p \in Outputs(config) : CoilOf[config][p] = k
      BY <2>2 DEF Driven
    <3>2. rest[k] = SafeState[config][p]
      BY <3>1 DEF IInv, RestMatches
    <3> QED BY <2>1, <3>1, <3>2, AtSwap DEF Rested
  <2>3. CASE k \notin Driven(config)
    BY <2>1, <2>3 DEF IInv, DroppedOutputsSafe
  <2> QED BY <2>2, <2>3
<1>6. DroppedOutputsSafe'
  BY <1>3, <1>5 DEF DroppedOutputsSafe, Driven, Outputs
<1> QED BY <1>2, <1>4, <1>6

LEMMA HandlerInv ==
    ASSUME ~Concurrent, IInv, NEW t \in Threads,
           Schedule(t) \/ \E p \in Points, v \in BOOLEAN : TestWrite(t, p, v)
    PROVE  Sole' /\ Walk' /\ RestMatches' /\ DroppedOutputsSafe'
<1>1. CASE Schedule(t)
  <2>1. Alone(t)
    BY <1>1, ActorAlone DEF IInv, At, Schedule
  <2>2. Goto(t, "idle") /\ ~At(t, "driving")'
    BY <1>1 DEF Schedule, Goto, At, IInv, TypeOK
  <2>3. Sole' /\ Walk'
    BY <2>1, <2>2, OutsideReload DEF IInv
  <2> QED BY <1>1, <2>3, QuietKeepsRest DEF IInv, Schedule, history
<1>2. ASSUME NEW p \in Points, NEW v \in BOOLEAN, TestWrite(t, p, v)
      PROVE  Sole' /\ Walk' /\ RestMatches' /\ DroppedOutputsSafe'
  <2>1. Alone(t)
    BY <1>2, ActorAlone DEF IInv, TestWrite
  <2>2. (Goto(t, "written") \/ UNCHANGED pc) /\ ~At(t, "driving")'
    BY <1>2 DEF TestWrite, MayStart, Goto, At, IInv, TypeOK
  <2>3. Sole' /\ Walk'
    BY <2>1, <2>2, OutsideReload DEF IInv
  <2>4. RestMatches' /\ DroppedOutputsSafe'
    BY <1>2, WriteKeepsRest DEF IInv, TestWrite
  <2> QED BY <2>3, <2>4
<1> QED BY <1>1, <1>2

\* What a step of a cycle may do: nothing to the coils, or one write.
OneWrite(p) ==
    \E v, gone : \E isSet \in BOOLEAN, outcome \in Outcomes :
      CoilWrite(p, v, outcome, isSet, gone)

LEMMA CycleStep ==
    ASSUME NEW t, Cycle(t)
    PROVE  /\ MayStart(t) \/ ~At(t, "idle")
           /\ ~At(t, "driving")
           /\ \/ UNCHANGED pc
              \/ \E label \in {"idle", "tests", "reverting", "rules", "pulsing", "pulsed"} :
                   Goto(t, label)
           /\ UNCHANGED <<config, rest>>
           /\ UNCHANGED <<coil, faulted>> \/ \E p : Known(p) /\ OneWrite(p)
<1>1. CASE StartCycle(t)
  BY <1>1 DEF StartCycle, MayStart, At, history
<1>2. CASE TakeTests(t) \/ TakePulses(t)
  BY <1>2 DEF TakeTests, TakePulses, At
<1>3. CASE CutShort(t) \/ EndCycle(t)
  BY <1>3 DEF CutShort, EndCycle, Abort, At, history
<1>4. CASE EnterRules(t) \/ ListPulse(t)
  BY <1>4 DEF EnterRules, ListPulse, At, history
<1>5. ASSUME NEW r \in Revert, RevertDue(t, r)
      PROVE  /\ ~At(t, "idle") /\ ~At(t, "driving") /\ UNCHANGED <<config, rest>>
             /\ UNCHANGED pc \/ Goto(t, "idle")
             /\ UNCHANGED <<coil, faulted>> \/ \E p : Known(p) /\ OneWrite(p)
  <2>1. ~At(t, "idle") /\ ~At(t, "driving") /\ UNCHANGED <<config, rest>>
        /\ (UNCHANGED pc \/ Goto(t, "idle"))
    BY <1>5 DEF RevertDue, Abort, At
  <2>2. (r.value # SafeState[config][r.point]) \in BOOLEAN
    OBVIOUS
  <2>3. UNCHANGED <<coil, faulted>> \/ (Known(r.point) /\ OneWrite(r.point))
    BY <1>5, <2>2 DEF RevertDue, OneWrite
  <2> QED BY <2>1, <2>3
<1>6. ASSUME NEW p \in Points, NEW v \in BOOLEAN, FireSet(t, p, v) \/ FirePulse(t, p, v)
      PROVE  /\ ~At(t, "idle") /\ ~At(t, "driving") /\ UNCHANGED <<config, rest>>
             /\ UNCHANGED pc \/ Goto(t, "idle") \/ Goto(t, "pulsed")
             /\ UNCHANGED <<coil, faulted>> \/ (Known(p) /\ OneWrite(p))
  BY <1>6 DEF FireSet, FirePulse, MayFire, Abort, At, OneWrite
<1> QED BY <1>1, <1>2, <1>3, <1>4, <1>5, <1>6 DEF Cycle

LEMMA CycleInv ==
    ASSUME ~Concurrent, IInv, NEW t \in Threads, Cycle(t)
    PROVE  Sole' /\ Walk' /\ RestMatches' /\ DroppedOutputsSafe'
<1>1. Alone(t)
  BY CycleStep, ActorAlone DEF IInv
<1>2. ~At(t, "driving")'
  BY CycleStep DEF At, Goto, IInv, TypeOK
<1>3. Sole' /\ Walk'
  BY <1>1, <1>2, CycleStep, OutsideReload DEF IInv
<1>4. UNCHANGED <<config, rest>>
  BY CycleStep
<1>5. RestMatches' /\ DroppedOutputsSafe'
  <2>1. CASE UNCHANGED <<coil, faulted>>
    BY <1>4, <2>1, QuietKeepsRest DEF IInv
  <2>2. ASSUME NEW p, Known(p), OneWrite(p)
        PROVE  RestMatches' /\ DroppedOutputsSafe'
    BY <1>4, <2>2, WriteKeepsRest DEF IInv, OneWrite
  <2> QED BY <2>1, <2>2, CycleStep
<1> QED BY <1>3, <1>5

LEMMA StepInv ==
    ASSUME ~Concurrent, IInv, [Next]_vars
    PROVE  IInv'
<1>1. TypeOK'
  BY TypeInductive DEF IInv
<1>2. CASE UNCHANGED vars
  BY <1>1, <1>2 DEF vars, work, history, IInv, Sole, Walk, Alone, At, Rested, RestMatches,
                    DroppedOutputsSafe, Driven, Outputs
<1>3. ASSUME NEW t \in Threads, BuildFails(t)
      PROVE  Sole' /\ Walk' /\ RestMatches' /\ DroppedOutputsSafe'
  <2>1. PICK label \in {"idle", "tests"} : Leave(t, label)
    BY <1>3 DEF BuildFails, AfterReload
  <2> QED BY <1>3, <2>1, LeaveInv DEF BuildFails, history
<1> QED BY <1>1, <1>2, <1>3, BeginReloadInv, DriveSafeInv, SwapInv, HandlerInv, CycleInv
        DEF IInv, Next, ReloadStep

\* poll_engine.py and the schema: an output that a reload drops or moves stays at
\* the safe state it had, until a document drives it again -- one handler or cycle
\* at a time, for any documents, any number of points, and any bus faults but one
\* on that output.
THEOREM DroppedSafe ==
    ASSUME ~Concurrent
    PROVE  Spec => []DroppedOutputsSafe
<1>1. Init => IInv
  BY InitInv
<1>2. IInv /\ [Next]_vars => IInv'
  BY StepInv
<1>3. IInv => DroppedOutputsSafe
  BY DEF IInv
<1> QED BY <1>1, <1>2, <1>3, PTL DEF Spec

\* The documented order of a reload: outputs first, then the swap.
THEOREM SwapsFromSafe ==
    ASSUME ~Concurrent
    PROVE  Spec => SwapFromSafe
<1> DEFINE Rest ==
      config' # config =>
        \A p \in Outputs(config) :
          LET k == CoilOf[config][p]
          IN  coil[k] = SafeState[config][p] \/ k \in faulted
<1>1. Init => IInv
  BY InitInv
<1>2. IInv /\ [Next]_vars => IInv'
  BY StepInv
<1>3. ASSUME IInv, [Next]_vars
      PROVE  [Rest]_vars
  <2>1. CASE config' = config
    BY <2>1
  <2>2. ASSUME NEW t \in Threads, Swap(t)
        PROVE  Rest
    BY <1>3, <2>2, AtSwap DEF Rested
  <2>3. ASSUME config' # config
        PROVE  \E t \in Threads : Swap(t)
    <3>1. (\A t \in Threads : ~Cycle(t)) /\ ~UNCHANGED vars
      BY <2>3, CycleStep DEF vars
    <3> QED BY <1>3, <2>3, <3>1 DEF Next, ReloadStep, BeginReload, DriveSafe, BuildFails,
                                     TestWrite, Schedule
  <2> QED BY <2>1, <2>2, <2>3
<1> QED BY <1>1, <1>2, <1>3, PTL DEF Spec, SwapFromSafe

-----------------------------------------------------------------------------
(***************************************************************************)
(* Nothing is stranded.  What each step does to the cover of one output:   *)
(* only a swap, and a pulse listed with a rule engine that a swap has      *)
(* replaced, need to know more than the types.                             *)
(***************************************************************************)

\* Coils of different outputs are different coils.
LEMMA OtherCoil ==
    ASSUME NEW c \in Configs, NEW p \in Outputs(c), NEW q \in Outputs(c), p # q
    PROVE  CoilOf[c][p] # CoilOf[c][q] /\ CoilOf[c][p] \in Coils /\ CoilOf[c][q] \in Coils
  BY CoilOfOutput, HotReloadAssumption

LEMMA OwnCoil ==
    ASSUME NEW q \in Outputs(config), NEW x, RevertOf(q) \in x
    PROVE  CoilOf[config][q] \in CoilsOf(x)
  BY DEF CoilsOf, Known, RevertOf

LEMMA RevertOfType ==
    ASSUME TypeOK, NEW q \in Outputs(config)
    PROVE  RevertOf(q) \in Revert /\ RevertOf(q) # None /\ q \in Points
  BY RevertType, HotReloadAssumption DEF RevertOf, TypeOK, Outputs

\* A write covers the other outputs as before ...
LEMMA WriteCoversOther ==
    ASSUME TypeOK, NEW p, Known(p), NEW v, NEW isSet \in BOOLEAN, NEW outcome, NEW gone,
           CoilWrite(p, v, outcome, isSet, gone), config' = config,
           NEW q \in Outputs(config), q # p, Covered(q),
           RevertComing(q) => RevertComing(q)' \/ CoilOf[config][q] \in gone
    PROVE  Covered(q)'
<1>1. CoilOf[config][q] # CoilOf[config][p] /\ CoilOf[config][q] \in Coils
  BY OtherCoil, HotReloadAssumption DEF TypeOK, Known
<1>2. /\ coil'[CoilOf[config][q]] = coil[CoilOf[config][q]]
      /\ CoilOf[config][q] \in held => CoilOf[config][q] \in held'
      /\ CoilOf[config][q] \in lost \cup gone => CoilOf[config][q] \in lost'
      /\ CoilOf[config][q] \in faulted => CoilOf[config][q] \in faulted'
  BY <1>1 DEF CoilWrite, TypeOK
<1> QED BY <1>2 DEF Covered

\* ... and its own if it was refused or lost, or wrote the safe state, or counts as a
\* set, or is followed by a revert or its loss.
LEMMA WriteCoversOwn ==
    ASSUME TypeOK, NEW p, Known(p), NEW v, NEW isSet \in BOOLEAN, NEW outcome \in Outcomes,
           NEW gone, CoilWrite(p, v, outcome, isSet, gone), config' = config,
           outcome = "ok" => \/ v = SafeState[config][p] \/ isSet
                             \/ RevertComing(p)' \/ CoilOf[config][p] \in gone
    PROVE  Covered(p)'
<1>1. CoilOf[config][p] \in Coils
  BY CoilOfOutput, HotReloadAssumption DEF TypeOK, Known
<1> QED BY <1>1 DEF CoilWrite, Covered, Outcomes, TypeOK

\* A step that writes nothing keeps what is coming, or loses it by name.
LEMMA QuietCovers ==
    ASSUME UNCHANGED <<config, coil, faulted>>, held \subseteq held', lost \subseteq lost',
           NEW p, Covered(p), RevertComing(p) => RevertComing(p)' \/ CoilOf[config][p] \in lost'
    PROVE  Covered(p)'
  BY DEF Covered

LEMMA SameComing ==
    ASSUME UNCHANGED <<config, tests, pulses, due, todo>>, NEW q
    PROVE  RevertComing(q) => RevertComing(q)'
  BY DEF RevertComing, RevertOf

\* What a cycle loses of a list it leaves behind, or of its reverts when it is cut.
LEMMA DueComing ==
    ASSUME TypeOK, NEW t \in Threads, NEW q \in Outputs(config), NEW x,
           UNCHANGED <<config, tests, pulses, todo>>,
           \A u \in Threads \ {t} : due'[u] = due[u],
           \A r \in due[t] : r = RevertOf(q) => r \in due'[t] \/ r \in x
    PROVE  RevertComing(q) => RevertComing(q)' \/ CoilOf[config][q] \in CoilsOf(x)
<1>1. RevertOf(q)' = RevertOf(q)
  BY DEF RevertOf
<1>2. ASSUME NEW u \in Threads, RevertOf(q) \in due[u]
      PROVE  RevertOf(q) \in due'[u] \/ CoilOf[config][q] \in CoilsOf(x)
  BY <1>2, OwnCoil
<1> QED BY <1>1, <1>2 DEF RevertComing

LEMMA TestWriteCovers ==
    ASSUME TypeOK, NEW t \in Threads, NEW q \in Outputs(config), Covered(q),
           NEW p \in Points, NEW v \in BOOLEAN, TestWrite(t, p, v)
    PROVE  Covered(q)'
<1>1. /\ UNCHANGED <<config, tests, pulses, due>> /\ Known(p) /\ todo[t] = None
      /\ RevertOf(p)' = RevertOf(p) /\ RevertOf(q)' = RevertOf(q)
  BY DEF TestWrite, MayStart, TypeOK, At, lists, RevertOf
<1>2. PICK outcome \in Outcomes, filed \in Filing :
        /\ CoilWrite(p, v, outcome, FALSE,
                     IF outcome = "ok" /\ ~filed THEN CoilsOf({RevertOf(p)}) ELSE {})
        /\ todo' = IF outcome = "ok" /\ filed THEN [todo EXCEPT ![t] = RevertOf(p)] ELSE todo
  BY DEF TestWrite
<1> DEFINE gone == IF outcome = "ok" /\ ~filed THEN CoilsOf({RevertOf(p)}) ELSE {}
<1>3. RevertComing(q) => RevertComing(q)'
  <2>1. RevertOf(q) # None
    BY RevertOfType
  <2>2. \A u \in Threads : todo[u] # None => todo'[u] = todo[u]
    BY <1>1, <1>2 DEF TypeOK
  <2> QED BY <1>1, <2>1, <2>2 DEF RevertComing
<1>4. outcome = "ok" => RevertComing(p)' \/ CoilOf[config][p] \in gone
  <2>1. CASE outcome = "ok" /\ filed
    <3>1. todo'[t] = RevertOf(p)
      BY <1>2, <2>1 DEF TypeOK
    <3> QED BY <1>1, <3>1 DEF RevertComing
  <2>2. CASE outcome = "ok" /\ ~filed
    BY <1>1, <2>2, OwnCoil DEF Known
  <2> QED BY <2>1, <2>2
<1>5. CoilWrite(p, v, outcome, FALSE, gone)
  BY <1>2
<1> HIDE DEF gone
<1> QED BY <1>1, <1>3, <1>4, <1>5, WriteCoversOwn, WriteCoversOther

LEMMA HandlerCovers ==
    ASSUME TypeOK, NEW t \in Threads, NEW q \in Outputs(config), Covered(q),
           Schedule(t) \/ \E p \in Points, v \in BOOLEAN : TestWrite(t, p, v)
    PROVE  Covered(q)'
<1>1. CASE Schedule(t)
  <2>1. /\ UNCHANGED <<config, coil, pulses, due, held, lost, faulted>>
        /\ tests' = tests \cup {todo[t]} /\ todo' = [todo EXCEPT ![t] = None]
        /\ RevertOf(q)' = RevertOf(q)
    BY <1>1 DEF Schedule, history, RevertOf
  <2>2. \A u \in Threads \ {t} : todo'[u] = todo[u]
    BY <2>1 DEF TypeOK
  <2>3. RevertComing(q) => RevertComing(q)'
    BY <2>1, <2>2 DEF RevertComing
  <2> QED BY <2>1, <2>3, QuietCovers
<1> QED BY <1>1, TestWriteCovers

LEMMA TakeCovers ==
    ASSUME TypeOK, NEW t \in Threads, NEW q \in Outputs(config), Covered(q),
           TakeTests(t) \/ TakePulses(t)
    PROVE  Covered(q)'
<1>1. /\ due[t] = {} /\ UNCHANGED <<config, coil, todo, held, faulted>>
      /\ lost \subseteq lost' /\ RevertOf(q)' = RevertOf(q)
  BY DEF TakeTests, TakePulses, TypeOK, At, RevertOf
<1>2. \A u \in Threads \ {t} : due'[u] = due[u]
  BY DEF TakeTests, TakePulses, TypeOK
<1>3. CASE TakeTests(t)
  <2>1. PICK d \in SUBSET Scanned(t, tests) :
           due' = [due EXCEPT ![t] = d] /\ tests' = Scanned(t, tests) \ d
    BY <1>3 DEF TakeTests
  <2>2. due'[t] = d /\ pulses' = pulses
    BY <1>3, <2>1 DEF TakeTests, TypeOK
  <2>3. ASSUME RevertOf(q) \in tests
        PROVE  RevertOf(q) \in tests' \cup due'[t] \/ CoilOf[config][q] \in lost'
    <3>1. CASE RevertOf(q) \in Scanned(t, tests)
      BY <2>1, <2>2, <3>1
    <3>2. CASE RevertOf(q) \in tests \ Scanned(t, tests)
      BY <1>3, <3>2, OwnCoil DEF TakeTests
    <3> QED BY <2>3, <3>1, <3>2
  <2>4. RevertComing(q) => RevertComing(q)' \/ CoilOf[config][q] \in lost'
    BY <1>1, <1>2, <2>2, <2>3 DEF RevertComing
  <2> QED BY <1>1, <2>4, QuietCovers
<1>4. CASE TakePulses(t)
  <2>1. PICK d \in SUBSET Scanned(t, pulses) :
           /\ due' = [due EXCEPT ![t] = d]
           /\ pulses' = IF orphaned[t] THEN pulses ELSE Scanned(t, pulses) \ d
    BY <1>4 DEF TakePulses
  <2>2. due'[t] = d /\ tests' = tests
    BY <1>4, <2>1 DEF TakePulses, TypeOK
  <2>3. ASSUME RevertOf(q) \in pulses
        PROVE  RevertOf(q) \in pulses' \cup due'[t] \/ CoilOf[config][q] \in lost'
    <3>1. CASE orphaned[t] \/ RevertOf(q) \in Scanned(t, pulses)
      BY <2>1, <2>2, <2>3, <3>1
    <3>2. CASE ~orphaned[t] /\ RevertOf(q) \in pulses \ Scanned(t, pulses)
      BY <1>4, <3>2, OwnCoil DEF TakePulses
    <3> QED BY <2>3, <3>1, <3>2
  <2>4. RevertComing(q) => RevertComing(q)' \/ CoilOf[config][q] \in lost'
    BY <1>1, <1>2, <2>2, <2>3 DEF RevertComing
  <2> QED BY <1>1, <2>4, QuietCovers
<1> QED BY <1>3, <1>4

LEMMA RevertDueCovers ==
    ASSUME TypeOK, NEW t \in Threads, NEW q \in Outputs(config), Covered(q),
           NEW r \in Revert, RevertDue(t, r)
    PROVE  Covered(q)'
<1>1. UNCHANGED <<config, tests, pulses, todo>>
  BY DEF RevertDue, lists
<1>2. PICK outcome \in Outcomes, filed \in Filing :
        /\ IF Known(r.point)
             THEN CoilWrite(r.point, r.value, outcome, r.value # SafeState[config][r.point],
                            IF filed THEN {} ELSE CoilsOf(due[t] \ {r}))
             ELSE lost' = lost \cup CoilsOf(due[t]) /\ UNCHANGED <<coil, faulted, held>>
        /\ IF Known(r.point) /\ filed THEN due' = [due EXCEPT ![t] = @ \ {r}]
                                      ELSE due' = [due EXCEPT ![t] = {}]
  BY DEF RevertDue, Abort
<1>3. \A u \in Threads \ {t} : due'[u] = due[u]
  BY <1>2 DEF TypeOK
<1>4. CASE ~Known(r.point)
  <2>1. RevertComing(q) => RevertComing(q)' \/ CoilOf[config][q] \in CoilsOf(due[t])
    BY <1>1, <1>3, DueComing
  <2> QED BY <1>1, <1>2, <1>4, <2>1, QuietCovers
<1>5. CASE Known(r.point)
  <2> DEFINE gone == IF filed THEN {} ELSE CoilsOf(due[t] \ {r})
             isSet == r.value # SafeState[config][r.point]
  <2>1. CoilWrite(r.point, r.value, outcome, isSet, gone) /\ isSet \in BOOLEAN
    BY <1>2, <1>5
  <2>2. CASE q = r.point
    <3>1. r.value = SafeState[config][r.point] \/ isSet
      OBVIOUS
    <3> HIDE DEF gone, isSet
    <3> QED BY <1>1, <1>5, <2>1, <2>2, <3>1, WriteCoversOwn
  <2>3. CASE q # r.point
    <3>1. RevertOf(q) # r
      BY <2>3 DEF RevertOf
    <3>2. CASE filed
      <4>1. due'[t] = due[t] \ {r}
        BY <1>2, <1>5, <3>2 DEF TypeOK
      <4>2. RevertComing(q) => RevertComing(q)' \/ CoilOf[config][q] \in CoilsOf({})
        BY <1>1, <1>3, <3>1, <4>1, DueComing
      <4>3. RevertComing(q) => RevertComing(q)'
        BY <4>2 DEF CoilsOf
      <4> HIDE DEF gone, isSet
      <4> QED BY <1>1, <1>5, <2>1, <2>3, <4>3, WriteCoversOther
    <3>3. CASE ~filed
      <4>1. RevertComing(q) => RevertComing(q)' \/ CoilOf[config][q] \in gone
        BY <1>1, <1>3, <3>1, <3>3, DueComing
      <4> HIDE DEF gone, isSet
      <4> QED BY <1>1, <1>5, <2>1, <2>3, <4>1, WriteCoversOther
    <3> QED BY <3>2, <3>3
  <2> QED BY <2>2, <2>3
<1> QED BY <1>4, <1>5

LEMMA FireCovers ==
    ASSUME TypeOK, NEW t \in Threads, NEW q \in Outputs(config), Covered(q),
           NEW p \in Points, NEW v \in BOOLEAN, FireSet(t, p, v) \/ FirePulse(t, p, v)
    PROVE  Covered(q)'
<1>1. /\ UNCHANGED <<config, tests, pulses>> /\ due[t] = {} /\ todo[t] = None
      /\ RevertOf(p)' = RevertOf(p) /\ RevertOf(q)' = RevertOf(q)
  BY DEF FireSet, FirePulse, MayFire, TypeOK, At, lists, RevertOf
<1>2. \A u \in Threads : due'[u] = due[u] /\ (todo[u] # None => todo'[u] = todo[u])
  BY <1>1 DEF FireSet, FirePulse, Abort, TypeOK
<1>3. RevertComing(q) => RevertComing(q)'
  <2>1. RevertOf(q) # None
    BY RevertOfType
  <2> QED BY <1>1, <1>2, <2>1 DEF RevertComing
<1>4. CASE ~Known(p)
  <2>1. UNCHANGED <<coil, faulted, held, lost>>
    BY <1>4 DEF FireSet, FirePulse
  <2> QED BY <1>1, <1>3, <2>1, QuietCovers
<1>5. CASE Known(p) /\ FireSet(t, p, v)
  <2>1. PICK outcome \in Outcomes : CoilWrite(p, v, outcome, TRUE, {})
    BY <1>5 DEF FireSet
  <2> QED BY <1>1, <1>3, <1>5, <2>1, WriteCoversOwn, WriteCoversOther
<1>6. CASE Known(p) /\ FirePulse(t, p, v)
  <2>1. PICK outcome \in Outcomes, filed \in Filing :
          /\ CoilWrite(p, v, outcome, FALSE, IF filed THEN {} ELSE CoilsOf({RevertOf(p)}))
          /\ filed => todo' = [todo EXCEPT ![t] = [point |-> p, value |-> ~v]]
    BY <1>6 DEF FirePulse
  <2> DEFINE gone == IF filed THEN {} ELSE CoilsOf({RevertOf(p)})
  <2>2. v = SafeState[config][p] \/ RevertComing(p)' \/ CoilOf[config][p] \in gone
    <3>1. CASE filed /\ v # SafeState[config][p]
      <4>1. todo'[t] = [point |-> p, value |-> ~v]
        BY <2>1, <3>1 DEF TypeOK
      <4>2. SafeState[config][p] \in BOOLEAN
        BY <1>6, CoilOfOutput, HotReloadAssumption DEF Known, TypeOK
      <4>3. RevertOf(p) = [point |-> p, value |-> ~v]
        BY <3>1, <4>2 DEF RevertOf
      <4> QED BY <1>1, <4>1, <4>3 DEF RevertComing
    <3>2. CASE ~filed
      BY <1>6, <3>2, OwnCoil DEF Known
    <3> QED BY <3>1, <3>2
  <2>3. CoilWrite(p, v, outcome, FALSE, gone)
    BY <2>1
  <2> HIDE DEF gone
  <2> QED BY <1>1, <1>3, <1>6, <2>2, <2>3, WriteCoversOwn, WriteCoversOther
<1> QED BY <1>4, <1>5, <1>6

\* The rules' reverts are of outputs the rules act on.
OfRules(reverts) == \A r \in reverts : r.point \in RulePoints

RulesPulse ==
    /\ OfRules(pulses)
    /\ \A t \in Threads : /\ At(t, "pulsed") => todo[t].point \in RulePoints
                          /\ At(t, "rules") /\ seen[t] # None => OfRules(seen[t])

LEMMA CycleCovers ==
    ASSUME TypeOK, NEW t \in Threads, NEW q \in Outputs(config), Covered(q), Cycle(t),
           orphaned[t] => RulesPulse /\ q \notin RulePoints
    PROVE  Covered(q)'
<1>1. CASE StartCycle(t) \/ EnterRules(t)
  BY <1>1, SameComing, QuietCovers DEF StartCycle, EnterRules, lists, work, history
<1>2. CASE CutShort(t) \/ EndCycle(t)
  <2>1. UNCHANGED <<config, coil, tests, pulses, todo, held, lost, faulted>>
    BY <1>2 DEF CutShort, EndCycle, lists, history
  <2>2. due[t] = {} /\ \A u \in Threads : due'[u] = due[u]
    BY <1>2 DEF CutShort, EndCycle, Abort, TypeOK, At
  <2>3. RevertComing(q) => RevertComing(q)'
    BY <2>1, <2>2 DEF RevertComing, RevertOf
  <2> QED BY <2>1, <2>3, QuietCovers
<1>3. CASE ListPulse(t)
  <2>1. /\ pulses \subseteq pulses' /\ todo' = [todo EXCEPT ![t] = None]
        /\ UNCHANGED <<config, coil, tests, due, held, lost, faulted>>
        /\ RevertOf(q)' = RevertOf(q)
    BY <1>3 DEF ListPulse, history, RevertOf
  <2>2. \A u \in Threads \ {t} : todo'[u] = todo[u]
    BY <2>1 DEF TypeOK
  <2>3. RevertOf(q) = todo[t] => RevertOf(q) \in pulses'
    <3>1. CASE orphaned[t]
      <4>1. todo[t].point # q
        BY <1>3, <3>1 DEF ListPulse, RulesPulse
      <4> QED BY <4>1 DEF RevertOf
    <3>2. CASE ~orphaned[t]
      BY <1>3, <3>2 DEF ListPulse
    <3> QED BY <3>1, <3>2
  <2>4. RevertComing(q) => RevertComing(q)'
    BY <2>1, <2>2, <2>3 DEF RevertComing
  <2> QED BY <2>1, <2>4, QuietCovers
<1> QED BY <1>1, <1>2, <1>3, TakeCovers, RevertDueCovers, FireCovers DEF Cycle

\* A reload up to the swap, if what it drives an output to is its safe state.
LEMMA ReloadCovers ==
    ASSUME TypeOK, NEW t \in Threads, NEW q \in Outputs(config), Covered(q),
           \A p : At(t, "driving") /\ Known(p) => SafeOf(t, p) = SafeState[config][p],
           \/ \E c \in Configs : BeginReload(t, c)
           \/ \E p \in Points : DriveSafe(t, p)
           \/ BuildFails(t)
    PROVE  Covered(q)'
<1>1. CASE (\E c \in Configs : BeginReload(t, c)) \/ BuildFails(t)
  BY <1>1, SameComing, QuietCovers DEF BeginReload, BuildFails, lists, history
<1>2. ASSUME NEW p \in Points, DriveSafe(t, p)
      PROVE  Covered(q)'
  <2>1. UNCHANGED <<config, tests, pulses, due, todo>> /\ At(t, "driving")
    BY <1>2 DEF DriveSafe, lists
  <2>2. RevertComing(q) => RevertComing(q)'
    BY <2>1, SameComing
  <2>3. CASE Known(p)
    <3>1. PICK outcome \in Outcomes : CoilWrite(p, SafeState[config][p], outcome, FALSE, {})
      BY <1>2, <2>1, <2>3 DEF DriveSafe
    <3> QED BY <2>1, <2>2, <2>3, <3>1, WriteCoversOwn, WriteCoversOther
  <2>4. CASE ~Known(p)
    BY <1>2, <2>1, <2>2, <2>4, QuietCovers DEF DriveSafe
  <2> QED BY <2>3, <2>4
<1> QED BY <1>1, <1>2

-----------------------------------------------------------------------------
(***************************************************************************)
(* One handler or cycle at a time: no rule engine is replaced under a      *)
(* cycle, and a swap finds every output at rest.                           *)
(***************************************************************************)
NoneOrphaned == \A t \in Threads : ~orphaned[t]

CoverInv == IInv /\ NoneOrphaned /\ OutputsCovered

LEMMA StaysUnreplaced ==
    ASSUME ~Concurrent, IInv, NoneOrphaned, [Next]_vars
    PROVE  NoneOrphaned'
<1> USE DEF NoneOrphaned, IInv, TypeOK
<1>1. ASSUME NEW t \in Threads, Swap(t)
      PROVE  NoneOrphaned'
  <2>1. Alone(t) /\ At(t, "driving")
    BY <1>1, ActorAlone DEF At, Swap
  <2>2. \A u \in Threads : rules[u] = None
    BY <2>1 DEF Alone, At
  <2> QED BY <1>1, <2>2 DEF Swap
<1>2. ASSUME NEW t \in Threads, Cycle(t)
      PROVE  NoneOrphaned'
  <2>1. UNCHANGED orphaned \/ orphaned' = [orphaned EXCEPT ![t] = FALSE]
    BY <1>2 DEF Cycle, StartCycle, CutShort, TakeTests, EnterRules, TakePulses, ListPulse,
                EndCycle, RevertDue, FireSet, FirePulse, Abort, work
  <2> QED BY <2>1
<1>3. ASSUME NEW t \in Threads,
             \/ \E c \in Configs : BeginReload(t, c)
             \/ \E p \in Points : DriveSafe(t, p)
             \/ BuildFails(t) \/ Schedule(t)
             \/ \E p \in Points, v \in BOOLEAN : TestWrite(t, p, v)
      PROVE  NoneOrphaned'
  BY <1>3 DEF BeginReload, DriveSafe, BuildFails, Schedule, TestWrite
<1>4. CASE UNCHANGED vars
  BY <1>4 DEF vars, work
<1> QED BY <1>1, <1>2, <1>3, <1>4 DEF Next, ReloadStep

LEMMA SwapCovers ==
    ASSUME ~Concurrent, CoverInv, NEW t \in Threads, Swap(t)
    PROVE  OutputsCovered'
<1>1. doc[t] \in Configs /\ config' = doc[t] /\ rest' = RestUnder(doc[t], rest)
      /\ UNCHANGED <<coil, faulted>>
      /\ held' = held \cup {k \in Coils : coil[k] = rest[k] /\ coil[k] # rest'[k]}
  BY HotReloadAssumption DEF Swap, CoverInv, IInv, TypeOK
<1>2. ASSUME NEW k \in Coils
      PROVE  coil[k] = rest[k] \/ k \in faulted
  <2>1. CASE k \in Driven(config)
    <3>1. PICK p \in Outputs(config) : CoilOf[config][p] = k
      BY <2>1 DEF Driven
    <3> QED BY <3>1, AtSwap DEF CoverInv, IInv, RestMatches, Rested
  <2>2. CASE k \notin Driven(config)
    BY <2>2 DEF CoverInv, IInv, DroppedOutputsSafe
  <2> QED BY <2>1, <2>2
<1>3. ASSUME NEW p \in Outputs(doc[t])
      PROVE  LET k == CoilOf[doc[t]][p]
             IN  k \in Coils /\ rest'[k] = SafeState[doc[t]][p]
  BY <1>1, RestUnderOwn, CoilOfOutput
<1>4. ASSUME NEW p \in Outputs(doc[t]), coil[CoilOf[doc[t]][p]] # SafeState[doc[t]][p]
      PROVE  CoilOf[doc[t]][p] \in held' \cup faulted
  BY <1>1, <1>2, <1>3, <1>4
<1> QED BY <1>1, <1>4 DEF OutputsCovered, Outputs, Covered

LEMMA CoverStep ==
    ASSUME ~Concurrent, CoverInv, [Next]_vars
    PROVE  CoverInv'
<1>1. IInv' /\ NoneOrphaned'
  BY StepInv, StaysUnreplaced DEF CoverInv
<1>2. TypeOK /\ \A q \in Outputs(config) : Covered(q)
  BY DEF CoverInv, IInv, OutputsCovered
<1>3. ASSUME NEW t \in Threads, ~Swap(t),
             \/ \E c \in Configs : BeginReload(t, c)
             \/ ReloadStep(t) \/ Schedule(t) \/ Cycle(t)
             \/ \E p \in Points, v \in BOOLEAN : TestWrite(t, p, v)
      PROVE  OutputsCovered'
  <2>1. config' = config
    BY <1>3, CycleStep DEF ReloadStep, BeginReload, DriveSafe, BuildFails, TestWrite, Schedule,
                           history
  <2>2. \A p : At(t, "driving") /\ Known(p) => SafeOf(t, p) = SafeState[config][p]
    BY DEF CoverInv, IInv, Walk, SafeOf
  <2>3. ASSUME NEW q \in Outputs(config)
        PROVE  Covered(q)'
    BY <1>2, <1>3, <2>2, ReloadCovers, HandlerCovers, CycleCovers
       DEF ReloadStep, CoverInv, NoneOrphaned
  <2> QED BY <2>1, <2>3 DEF OutputsCovered, Outputs
<1>4. ASSUME UNCHANGED vars
      PROVE  OutputsCovered'
  <2>1. ASSUME NEW q \in Outputs(config)
        PROVE  Covered(q)'
    <3>1. UNCHANGED <<config, coil, tests, pulses, due, todo, held, lost, faulted>>
      BY <1>4 DEF vars, work, lists, history
    <3> QED BY <1>2, <3>1, SameComing, QuietCovers
  <2> QED BY <1>4, <2>1 DEF vars, OutputsCovered, Outputs
<1>5. OutputsCovered'
  <2>1. CASE Next
    <3>1. PICK t \in Threads :
            \/ \E c \in Configs : BeginReload(t, c)
            \/ ReloadStep(t) \/ Schedule(t) \/ Cycle(t)
            \/ \E p \in Points, v \in BOOLEAN : TestWrite(t, p, v)
      BY <2>1 DEF Next
    <3> QED BY <1>3, <3>1, SwapCovers
  <2>2. Next \/ UNCHANGED vars
    OBVIOUS
  <2> QED BY <1>4, <2>1, <2>2
<1> QED BY <1>1, <1>5 DEF CoverInv

\* An output away from its safe state is held by a rule or a document, or has a revert
\* on its way, or lost it in one of the ways that `lost` names -- one handler or cycle at
\* a time, for any documents, and whatever the bus and the event log do.
THEOREM NothingStranded ==
    ASSUME ~Concurrent
    PROVE  Spec => []OutputsCovered
<1>1. Init => CoverInv
  <2> SUFFICES ASSUME Init PROVE CoverInv
    OBVIOUS
  <2>1. IInv
    BY InitInv
  <2>2. \A p \in Outputs(config) : coil[CoilOf[config][p]] = SafeState[config][p]
    BY <2>1 DEF IInv, RestMatches, Init
  <2> QED BY <2>1, <2>2 DEF CoverInv, NoneOrphaned, OutputsCovered, Covered, Init
<1>2. CoverInv /\ [Next]_vars => CoverInv'
  BY CoverStep
<1>3. CoverInv => OutputsCovered
  BY DEF CoverInv
<1> QED BY <1>1, <1>2, <1>3, PTL DEF Spec

-----------------------------------------------------------------------------
(***************************************************************************)
(* All threads at once.  A document that moves, drops or inverts an output *)
(* can strand it then, and so can a new rule engine the pulses of the old  *)
(* one.  Where the documents agree on the outputs, what a thread has read  *)
(* of one document holds of every other, the pulses that go with a rule    *)
(* engine are of outputs that rules act on (RulesPulse), and the others    *)
(* lose a revert in the ways that `lost` names alone.                      *)
(***************************************************************************)
SameOutputs ==
    \A c, d \in Buildable : \A p \in Points :
      CoilOf[c][p] = CoilOf[d][p] /\ (p \in Outputs(c) => SafeState[c][p] = SafeState[d][p])

TestsInv == TypeOK /\ RulesPulse /\ TestsCovered

LEMMA PulseOfRules ==
    ASSUME TypeOK, RulesPulse, [Next]_vars
    PROVE  RulesPulse'
<1> USE DEF TypeOK, RulesPulse, OfRules, At, Goto, lists
<1>1. ASSUME NEW t \in Threads,
             \/ \E c \in Configs : BeginReload(t, c)
             \/ \E p \in Points : DriveSafe(t, p)
             \/ BuildFails(t) \/ Schedule(t)
             \/ \E p \in Points, v \in BOOLEAN : TestWrite(t, p, v)
      PROVE  RulesPulse'
  <2>1. UNCHANGED <<pulses, seen>>
    BY <1>1 DEF BeginReload, DriveSafe, BuildFails, Schedule, TestWrite
  <2>2. /\ \A u \in Threads \ {t} : pc'[u] = pc[u] /\ todo'[u] = todo[u]
        /\ pc'[t] \notin {"pulsed", "rules"}
    <3> HIDE DEF RulesPulse, OfRules
    <3>1. CASE \E p \in Points : DriveSafe(t, p)
      BY <3>1 DEF DriveSafe, Leave
    <3>b. CASE BuildFails(t)
      BY <3>b DEF BuildFails, Leave, AfterReload
    <3>2. CASE Schedule(t)
      BY <3>2 DEF Schedule
    <3>a. CASE \E c \in Configs : BeginReload(t, c)
      BY <3>a DEF BeginReload
    <3>3. CASE \E p \in Points, v \in BOOLEAN : TestWrite(t, p, v)
      BY <3>3 DEF TestWrite, MayStart
    <3> QED BY <1>1, <3>1, <3>2, <3>a, <3>b, <3>3
  <2> QED BY <2>1, <2>2
<1>2. ASSUME NEW t \in Threads, Swap(t)
      PROVE  RulesPulse'
  <2>1. pulses' = {} /\ todo' = todo
        /\ \A u \in Threads : pc'[u] \in {"pulsed", "rules"} => pc'[u] = pc[u]
    BY <1>2 DEF Swap, Leave, AfterReload
  <2>2. \A u \in Threads : pc[u] = "rules" => OfRules(seen'[u])
    BY <1>2 DEF Swap
  <2> QED BY <2>1, <2>2
<1>3. ASSUME NEW t \in Threads, \/ StartCycle(t) \/ CutShort(t) \/ EndCycle(t) \/ EnterRules(t)
                               \/ \E r \in Revert : RevertDue(t, r)
      PROVE  RulesPulse'
  <2>1. UNCHANGED <<pulses, todo>> /\ \A u \in Threads : seen'[u] = seen[u] \/ seen'[u] = None
    BY <1>3 DEF StartCycle, CutShort, EndCycle, EnterRules, RevertDue, Abort, work
  <2>2. \A u \in Threads : pc'[u] = "pulsed" => pc[u] = "pulsed"
    BY <1>3 DEF StartCycle, CutShort, EndCycle, EnterRules, RevertDue, Abort
  <2>3. \A u \in Threads : pc'[u] = "rules" => pc[u] = "rules" \/ seen'[u] = None
    BY <1>3 DEF StartCycle, CutShort, EndCycle, EnterRules, RevertDue, Abort
  <2> QED BY <2>1, <2>2, <2>3
<1>9. ASSUME NEW t \in Threads, NEW p \in Points, NEW v \in BOOLEAN, FireSet(t, p, v)
      PROVE  RulesPulse'
  <2>1. UNCHANGED <<pulses, todo>> /\ \A u \in Threads : seen'[u] = seen[u] \/ seen'[u] = None
    BY <1>9 DEF FireSet, Abort
  <2>2. \A u \in Threads : pc'[u] = pc[u] \/ pc'[u] = "idle"
    BY <1>9 DEF FireSet, Abort
  <2> QED BY <2>1, <2>2
<1>4. ASSUME NEW t \in Threads, ListPulse(t)
      PROVE  RulesPulse'
  <2>1. UNCHANGED seen /\ pc' = [pc EXCEPT ![t] = "pulsing"] /\ todo' = [todo EXCEPT ![t] = None]
        /\ (pulses' = pulses \/ pulses' = pulses \cup {todo[t]}) /\ todo[t].point \in RulePoints
    BY <1>4 DEF ListPulse
  <2> QED BY <2>1
<1>5. ASSUME NEW t \in Threads, TakeTests(t)
      PROVE  RulesPulse'
  <2>1. PICK begun \in SUBSET {u \in Threads : pc[u] = "tests"} : Replaces(t, tests, begun)
    BY <1>5 DEF TakeTests
  <2>2. \A u \in Threads : pc[u] = "rules" => seen'[u] = seen[u] \/ seen'[u] = None
    BY <2>1 DEF Replaces
  <2>3. UNCHANGED <<pulses, todo>> /\ pc' = [pc EXCEPT ![t] = "reverting"]
    BY <1>5 DEF TakeTests
  <2> QED BY <2>2, <2>3
<1>6. ASSUME NEW t \in Threads, TakePulses(t)
      PROVE  RulesPulse'
  <2>1. PICK begun \in SUBSET {u \in Threads : At(u, "rules") /\ ~orphaned[t]} :
           Replaces(t, pulses, begun)
    BY <1>6 DEF TakePulses
  <2>2. \A u \in Threads : seen'[u] = seen[u] \/ seen'[u] = None \/ seen'[u] = pulses
    BY <2>1 DEF Replaces
  <2>3. OfRules(Scanned(t, pulses))
    BY <1>6 DEF TakePulses, Scanned
  <2>4. OfRules(pulses')
    BY <1>6, <2>3 DEF TakePulses
  <2>5. UNCHANGED todo /\ pc' = [pc EXCEPT ![t] = "pulsing"]
    BY <1>6 DEF TakePulses
  <2> QED BY <2>2, <2>4, <2>5
<1>7. ASSUME NEW t \in Threads, NEW p \in Points, NEW v \in BOOLEAN, FirePulse(t, p, v)
      PROVE  RulesPulse'
  <2>1. UNCHANGED pulses /\ p \in RulePoints
    BY <1>7 DEF FirePulse, MayFire
  <2>2. CASE Abort(t) /\ UNCHANGED todo
    BY <2>1, <2>2 DEF Abort
  <2>3. CASE /\ Goto(t, "pulsed") /\ todo' = [todo EXCEPT ![t] = [point |-> p, value |-> ~v]]
             /\ UNCHANGED seen
    <3>1. todo'[t].point = p /\ \A u \in Threads \ {t} : todo'[u] = todo[u]
      BY <2>3
    <3> QED BY <2>1, <2>3, <3>1
  <2> QED BY <1>7, <2>2, <2>3 DEF FirePulse
<1>8. CASE UNCHANGED vars
  BY <1>8 DEF vars, work
<1> QED
  <2> HIDE DEF TypeOK, RulesPulse
  <2>1. CASE Next
    <3>1. PICK t \in Threads :
            \/ \E c \in Configs : BeginReload(t, c)
            \/ ReloadStep(t) \/ Schedule(t) \/ Cycle(t)
            \/ \E p \in Points, v \in BOOLEAN : TestWrite(t, p, v)
      BY <2>1 DEF Next
    <3>2. CASE ReloadStep(t)
      BY <1>1, <1>2, <3>2 DEF ReloadStep
    <3>3. CASE Cycle(t)
      <4>1. CASE \E p \in Points, v \in BOOLEAN : FirePulse(t, p, v)
        BY <1>7, <4>1
      <4>2. CASE \E p \in Points, v \in BOOLEAN : FireSet(t, p, v)
        BY <1>9, <4>2
      <4>3. CASE \E r \in Revert : RevertDue(t, r)
        BY <1>3, <4>3
      <4>4. CASE \/ StartCycle(t) \/ CutShort(t) \/ TakeTests(t) \/ EnterRules(t)
                 \/ TakePulses(t) \/ ListPulse(t) \/ EndCycle(t)
        BY <1>3, <1>4, <1>5, <1>6, <4>4
      <4> QED BY <3>3, <4>1, <4>2, <4>3, <4>4 DEF Cycle
    <3> QED BY <1>1, <3>1, <3>2, <3>3
  <2>2. Next \/ UNCHANGED vars
    OBVIOUS
  <2> QED BY <1>8, <2>1, <2>2

LEMMA SwapCoversTests ==
    ASSUME SameOutputs, TestsInv, NEW q \in Outputs(config) \ RulePoints, NEW t \in Threads,
           Swap(t)
    PROVE  Covered(q)'
<1>1. TypeOK /\ Covered(q) /\ q \in Points
  BY DEF TestsInv, TestsCovered, Outputs
<1>2. /\ UNCHANGED <<coil, lost, faulted, tests, due, todo>> /\ held \subseteq held'
      /\ config' \in Buildable
  BY DEF Swap
<1>3. CoilOf[config'][q] = CoilOf[config][q] /\ SafeState[config'][q] = SafeState[config][q]
  BY <1>1, <1>2 DEF SameOutputs, TypeOK
<1>4. RevertOf(q)' = RevertOf(q)
  BY <1>3 DEF RevertOf
<1>5. RevertOf(q) \notin pulses
  BY DEF TestsInv, RulesPulse, OfRules, RevertOf
<1>6. RevertComing(q) => RevertComing(q)'
  BY <1>2, <1>4, <1>5 DEF RevertComing
<1> QED BY <1>1, <1>2, <1>3, <1>6 DEF Covered

LEMMA TestsStep ==
    ASSUME SameOutputs, TestsInv, [Next]_vars
    PROVE  TestsInv'
<1>1. TypeOK' /\ RulesPulse'
  BY TypeInductive, PulseOfRules DEF TestsInv
<1>2. Outputs(config') = Outputs(config)
  BY <1>1 DEF TestsInv, TypeOK, Outputs, SameOutputs
<1>3. ASSUME NEW q \in Outputs(config) \ RulePoints
      PROVE  Covered(q)'
  <2>1. TypeOK /\ RulesPulse /\ Covered(q)
    BY DEF TestsInv, TestsCovered
  <2>2. CASE UNCHANGED vars
    BY <2>1, <2>2, SameComing, QuietCovers DEF vars, work, lists, history
  <2>3. ASSUME NEW t \in Threads, NEW p, At(t, "driving"), Known(p)
        PROVE  SafeOf(t, p) = SafeState[config][p]
    <3>1. base[t] \in Buildable /\ config \in Buildable /\ p \in Points
      BY <2>1, <2>3 DEF TypeOK, At, Known, Outputs
    <3> QED BY <2>3, <3>1 DEF SafeOf, SameOutputs, Known
  <2> QED BY <2>1, <2>2, <2>3, ReloadCovers, SwapCoversTests, HandlerCovers, CycleCovers
          DEF Next, ReloadStep
<1> QED BY <1>1, <1>2, <1>3 DEF TestsInv, TestsCovered, Outputs

LEMMA TestsInitially ==
    ASSUME Init
    PROVE  TestsInv
<1>1. IInv
  BY InitInv
<1>2. \A p \in Outputs(config) : coil[CoilOf[config][p]] = SafeState[config][p]
  BY <1>1 DEF IInv, RestMatches, Init
<1>3. RulesPulse
  BY DEF Init, RulesPulse, OfRules, At
<1>4. TestsCovered
  BY <1>2 DEF TestsCovered, Covered
<1> QED BY <1>1, <1>3, <1>4 DEF IInv, TestsInv

\* Where the documents have the same outputs, an output that test writes alone energize
\* loses its revert in no other way than those that `lost` names, whatever the threads do
\* in between: any number of handlers and of cycles, and whatever the bus and the event
\* log do.
THEOREM TestsNeverStranded ==
    ASSUME SameOutputs
    PROVE  Spec => []TestsCovered
<1>1. TestsInv /\ [Next]_vars => TestsInv'
  BY TestsStep
<1>2. TestsInv => TestsCovered
  BY DEF TestsInv
<1> QED BY TestsInitially, <1>1, <1>2, PTL DEF Spec

-----------------------------------------------------------------------------
(***************************************************************************)
(* And those ways are not met while every event is filed, nobody but the   *)
(* poll thread cycles, and the documents agree on the outputs: whatever is *)
(* listed is then of a known output, and the list is the one scanned.      *)
(***************************************************************************)
Driveable(reverts) == \A r \in reverts : Known(r.point)

AllKnown ==
    /\ Driveable(tests) /\ Driveable(pulses)
    /\ \A t \in Threads : /\ Driveable(due[t])
                          /\ (todo[t] # None => Known(todo[t].point))
                          /\ (seen[t] # None => Driveable(seen[t]))

InPlace ==
    \A t \in Threads : seen[t] # None => At(t, "rules") /\ orphaned[t]

LossInv == TypeOK /\ AllKnown /\ InPlace /\ NoneLost

LEMMA SameKnown ==
    ASSUME SameOutputs, TypeOK, TypeOK', NEW p
    PROVE  Known(p) <=> Known(p)'
  BY DEF SameOutputs, TypeOK, Known, Outputs

\* Every set of reverts after the step is made of what was known before.
LEMMA KeepsKnown ==
    ASSUME SameOutputs, TypeOK, TypeOK', Driveable(tests'), Driveable(pulses'),
           \A t \in Threads : /\ Driveable(due'[t])
                             /\ (todo'[t] # None => Known(todo'[t].point))
                             /\ (seen'[t] # None => Driveable(seen'[t]))
    PROVE  AllKnown'
<1>1. \A p : Known(p) => Known(p)'
  BY SameKnown
<1> QED BY <1>1 DEF AllKnown, Driveable

LEMMA LossReload ==
    ASSUME SameOutputs, "unfiled" \notin Faults, LossInv, TypeOK', NEW t \in Threads,
           (\E c \in Configs : BeginReload(t, c)) \/ ReloadStep(t)
    PROVE  AllKnown' /\ InPlace' /\ NoneLost'
<1> USE DEF LossInv
<1>1. CASE (\E c \in Configs : BeginReload(t, c)) \/ BuildFails(t) \/ \E p \in Points : DriveSafe(t, p)
  <2>1. UNCHANGED <<tests, pulses, due, todo, seen, orphaned>>
    BY <1>1 DEF BeginReload, BuildFails, DriveSafe, lists
  <2>2. AllKnown'
    <3>1. \A p : Known(p) => Known(p)'
      BY SameKnown
    <3> QED BY <2>1, <3>1 DEF AllKnown, Driveable
  <2>3. pc[t] \in {"idle", "driving"} /\ \A u \in Threads \ {t} : pc'[u] = pc[u]
    <3> USE DEF Goto, At, TypeOK
    <3>1. CASE \E c \in Configs : BeginReload(t, c)
      BY <3>1 DEF BeginReload, MayStart
    <3>2. CASE BuildFails(t)
      BY <3>2 DEF BuildFails, Leave
    <3>3. CASE \E p \in Points : DriveSafe(t, p)
      BY <3>3 DEF DriveSafe, Leave
    <3> QED BY <1>1, <3>1, <3>2, <3>3
  <2>4. InPlace'
    BY <2>1, <2>3 DEF InPlace, At
  <2>5. NoneLost'
    BY <1>1 DEF BeginReload, BuildFails, DriveSafe, CoilWrite, history, NoneLost
  <2> QED BY <2>2, <2>4, <2>5
<1>2. CASE Swap(t)
  <2>1. UNCHANGED <<tests, due, todo, lost>> /\ pulses' = {}
    BY <1>2 DEF Swap
  <2>2. /\ orphaned' = [u \in Threads |-> rules[u] # None]
        /\ seen' = [u \in Threads |->
                     IF At(u, "rules") /\ seen[u] = None THEN pulses ELSE seen[u]]
    BY <1>2 DEF Swap
  <2>3. \A u \in Threads : seen'[u] # None => Driveable(seen'[u])
    BY <2>2 DEF AllKnown
  <2>4. AllKnown'
    BY <2>1, <2>3, KeepsKnown DEF AllKnown, Driveable
  <2>5. pc[t] = "driving" /\ \A u \in Threads \ {t} : pc'[u] = pc[u]
    BY <1>2 DEF Swap, Leave, Goto, At, TypeOK
  <2>6. ASSUME NEW u \in Threads, seen'[u] # None
        PROVE  pc[u] = "rules" /\ orphaned'[u]
    <3>1. pc[u] = "rules"
      BY <2>2, <2>6 DEF InPlace, At
    <3> QED BY <2>2, <3>1 DEF TypeOK
  <2>7. InPlace'
    BY <2>5, <2>6 DEF InPlace, At
  <2> QED BY <2>1, <2>4, <2>7 DEF NoneLost
<1> QED BY <1>1, <1>2 DEF ReloadStep

LEMMA LossHandler ==
    ASSUME SameOutputs, "unfiled" \notin Faults, LossInv, TypeOK', NEW t \in Threads,
           Schedule(t) \/ \E p \in Points, v \in BOOLEAN : TestWrite(t, p, v)
    PROVE  AllKnown' /\ InPlace' /\ NoneLost'
<1> USE DEF LossInv
<1>1. UNCHANGED <<pulses, due, seen, orphaned>>
  BY DEF Schedule, TestWrite, lists
<1>2. pc[t] \in {"idle", "written"} /\ \A u \in Threads \ {t} : pc'[u] = pc[u]
  <2>1. CASE Schedule(t)
    BY <2>1 DEF Schedule, Goto, At, TypeOK
  <2>2. CASE \E p \in Points, v \in BOOLEAN : TestWrite(t, p, v)
    <3>1. pc[t] = "idle" /\ (UNCHANGED pc \/ Goto(t, "written"))
      BY <2>2 DEF TestWrite, MayStart, At
    <3> QED BY <3>1 DEF Goto, TypeOK
  <2> QED BY <2>1, <2>2
<1>3. InPlace'
  BY <1>1, <1>2 DEF InPlace, At
<1>4. CASE Schedule(t)
  <2>1. tests' = tests \cup {todo[t]} /\ todo[t] # None /\ lost' = lost
        /\ \A u \in Threads : todo'[u] = todo[u] \/ todo'[u] = None
    BY <1>4 DEF Schedule, history, At, TypeOK
  <2>2. AllKnown'
    BY <1>1, <2>1, KeepsKnown DEF AllKnown, Driveable
  <2> QED BY <1>3, <2>1, <2>2 DEF NoneLost
<1>5. ASSUME NEW p \in Points, NEW v \in BOOLEAN, TestWrite(t, p, v)
      PROVE  AllKnown' /\ NoneLost'
  <2>1. /\ tests' = tests /\ Known(p) /\ RevertOf(p).point = p
        /\ \A u \in Threads : todo'[u] = todo[u] \/ todo'[u] = RevertOf(p)
    BY <1>5 DEF TestWrite, lists, RevertOf, TypeOK
  <2>2. AllKnown'
    BY <1>1, <2>1, KeepsKnown DEF AllKnown
  <2>3. NoneLost'
    BY <1>5 DEF TestWrite, Filing, CoilWrite, NoneLost
  <2> QED BY <2>2, <2>3
<1> QED BY <1>3, <1>4, <1>5

\* The only scan under way is the one that t is about to end.
LEMMA ScansInPlace ==
    ASSUME Cyclers = {Poll}, LossInv, NEW t \in Threads, NEW list, NEW label \in {"tests", "rules"},
           NEW begun \in SUBSET {u \in Threads : At(u, label)}, At(t, label),
           Replaces(t, list, begun)
    PROVE  \A u \in Threads : seen'[u] = None
<1>1. \A u \in Threads : pc[u] \in {"tests", "rules"} => u = Poll
  BY DEF LossInv, TypeOK
<1>2. t = Poll
  BY <1>1 DEF At
<1>3. \A u \in Threads \ {t} : seen[u] = None /\ u \notin begun
  BY <1>1, <1>2 DEF LossInv, InPlace, At
<1>4. ASSUME NEW u \in Threads \ {t}
      PROVE  seen'[u] = None
  BY <1>3 DEF Replaces
<1>5. seen'[t] = None
  BY DEF Replaces
<1> QED BY <1>4, <1>5

LEMMA LossTakes ==
    ASSUME SameOutputs, Cyclers = {Poll}, LossInv, TypeOK', NEW t \in Threads,
           TakeTests(t) \/ TakePulses(t)
    PROVE  AllKnown' /\ InPlace' /\ NoneLost'
<1> USE DEF LossInv
<1>1. \A u \in Threads : seen'[u] = None
  <2>1. CASE TakeTests(t)
    BY <2>1, ScansInPlace DEF TakeTests
  <2>2. CASE TakePulses(t)
    <3>1. PICK begun \in SUBSET {u \in Threads : At(u, "rules") /\ ~orphaned[t]} :
             Replaces(t, pulses, begun)
      BY <2>2 DEF TakePulses
    <3>2. begun \in SUBSET {u \in Threads : At(u, "rules")} /\ At(t, "rules")
      BY <2>2 DEF TakePulses
    <3> QED BY <3>1, <3>2, ScansInPlace
  <2> QED BY <2>1, <2>2
<1>2. InPlace'
  BY <1>1 DEF InPlace
<1>3. CASE TakeTests(t)
  <2>1. Scanned(t, tests) = tests
    BY <1>3 DEF TakeTests, InPlace, Scanned, At
  <2>2. PICK d \in SUBSET tests : due' = [due EXCEPT ![t] = d] /\ tests' = tests \ d
    BY <1>3, <2>1 DEF TakeTests
  <2>3. Driveable(tests') /\ Driveable(pulses') /\ \A u \in Threads : Driveable(due'[u])
    BY <1>3, <2>2 DEF TakeTests, AllKnown, Driveable, TypeOK
  <2>4. lost' = lost \cup CoilsOf({}) /\ todo' = todo
    BY <1>3, <2>1 DEF TakeTests
  <2>5. AllKnown'
    BY <1>1, <2>3, <2>4, KeepsKnown DEF AllKnown
  <2> QED BY <1>2, <2>4, <2>5 DEF NoneLost, CoilsOf
<1>4. CASE TakePulses(t)
  <2>1. Driveable(Scanned(t, pulses)) /\ (orphaned[t] \/ Scanned(t, pulses) = pulses)
    BY <1>4 DEF TakePulses, InPlace, Scanned, At, AllKnown
  <2>2. PICK d \in SUBSET Scanned(t, pulses) :
           /\ due' = [due EXCEPT ![t] = d]
           /\ pulses' = IF orphaned[t] THEN pulses ELSE Scanned(t, pulses) \ d
    BY <1>4 DEF TakePulses
  <2>3. Driveable(tests') /\ Driveable(pulses') /\ \A u \in Threads : Driveable(due'[u])
    BY <1>4, <2>1, <2>2 DEF TakePulses, AllKnown, Driveable, TypeOK
  <2>4. lost' = lost \cup CoilsOf({}) \/ lost' = lost
    BY <1>4, <2>1 DEF TakePulses
  <2>5. todo' = todo
    BY <1>4 DEF TakePulses
  <2>6. AllKnown'
    BY <1>1, <2>3, <2>5, KeepsKnown DEF AllKnown
  <2> QED BY <1>2, <2>4, <2>6 DEF NoneLost, CoilsOf
<1> QED BY <1>3, <1>4

LEMMA LossCycle ==
    ASSUME SameOutputs, Cyclers = {Poll}, "unfiled" \notin Faults, LossInv, TypeOK',
           NEW t \in Threads, Cycle(t)
    PROVE  AllKnown' /\ InPlace' /\ NoneLost'
<1> USE DEF LossInv
<1> DEFINE Tame ==
      /\ UNCHANGED <<tests, lost>>
      /\ Driveable(pulses')
      /\ \A u \in Threads : /\ Driveable(due'[u])
                            /\ todo'[u] # None => Known(todo'[u].point)
                            /\ seen'[u] = seen[u] \/ seen'[u] = None
                            /\ u # t => UNCHANGED <<pc[u], orphaned[u]>>
      /\ pc[t] # "rules"
<1>1. ASSUME Tame
      PROVE  AllKnown' /\ InPlace' /\ NoneLost'
  <2>1. AllKnown'
    BY <1>1, KeepsKnown DEF AllKnown
  <2>2. \A u \in Threads : seen'[u] # None => pc'[u] = "rules" /\ orphaned'[u]
    BY <1>1 DEF InPlace, At
  <2> QED BY <1>1, <2>1, <2>2 DEF InPlace, At, NoneLost
<1>2. CASE StartCycle(t) \/ CutShort(t) \/ EndCycle(t) \/ EnterRules(t)
  <2>1. Tame
    BY <1>2 DEF StartCycle, MayStart, CutShort, EndCycle, EnterRules, Abort, At, Goto, lists,
                work, history, AllKnown, Driveable, TypeOK
  <2> QED BY <1>1, <2>1
<1>3. CASE ListPulse(t)
  <2>1. Tame
    BY <1>3 DEF ListPulse, At, Goto, history, AllKnown, Driveable, TypeOK
  <2> QED BY <1>1, <2>1
<1>4. ASSUME NEW r \in Revert, RevertDue(t, r)
      PROVE  Tame
  <2>1. Known(r.point) /\ pc[t] \in {"reverting", "pulsing"}
    BY <1>4 DEF RevertDue, AllKnown, Driveable, At
  <2>2. /\ UNCHANGED <<lists, todo, pc, seen, orphaned>>
        /\ due' = [due EXCEPT ![t] = @ \ {r}]
        /\ lost' = lost \ {CoilOf[config][r.point]}
    BY <1>4, <2>1 DEF RevertDue, Filing, CoilWrite
  <2> QED BY <2>1, <2>2 DEF lists, AllKnown, Driveable, TypeOK, NoneLost
<1>5. ASSUME NEW p \in Points, NEW v \in BOOLEAN, FireSet(t, p, v) \/ FirePulse(t, p, v)
      PROVE  Tame
  <2>1. Known(p) /\ pc[t] = "pulsing"
    <3>1. p \in Outputs(rules[t]) /\ pc[t] = "pulsing"
      BY <1>5 DEF FireSet, FirePulse, MayFire, At
    <3>2. rules[t] \in Buildable
      BY <3>1 DEF TypeOK, At
    <3> QED BY <3>1, <3>2 DEF Known, Outputs, SameOutputs, TypeOK
  <2>2. UNCHANGED <<lists, due, seen, orphaned>>
    BY <1>5, <2>1 DEF FireSet, FirePulse, Filing
  <2>3. lost' = lost \ {CoilOf[config][p]}
    BY <1>5, <2>1 DEF FireSet, FirePulse, Filing, CoilWrite
  <2>4. UNCHANGED pc \/ Goto(t, "pulsed")
    BY <1>5, <2>1 DEF FireSet, FirePulse, Filing
  <2>5. UNCHANGED todo \/ todo' = [todo EXCEPT ![t] = [point |-> p, value |-> ~v]]
    BY <1>5, <2>1 DEF FireSet, FirePulse, Filing
  <2>6. \A u \in Threads : todo'[u] # None => Known(todo'[u].point)
    BY <2>1, <2>5 DEF AllKnown, TypeOK
  <2>7. \A u \in Threads : u # t => UNCHANGED <<pc[u], orphaned[u]>>
    BY <2>2, <2>4 DEF Goto, TypeOK
  <2> QED BY <2>1, <2>2, <2>3, <2>6, <2>7 DEF lists, AllKnown, NoneLost
<1> HIDE DEF Tame
<1>6. CASE \E r \in Revert : RevertDue(t, r)
  BY <1>1, <1>4, <1>6
<1>7. CASE \E p \in Points, v \in BOOLEAN : FireSet(t, p, v) \/ FirePulse(t, p, v)
  BY <1>1, <1>5, <1>7
<1> QED BY <1>2, <1>3, <1>6, <1>7, LossTakes DEF Cycle

LEMMA LossStep ==
    ASSUME SameOutputs, Cyclers = {Poll}, "unfiled" \notin Faults, LossInv, [Next]_vars
    PROVE  LossInv'
<1>1. TypeOK'
  BY TypeInductive DEF LossInv
<1>2. ASSUME UNCHANGED vars
      PROVE  AllKnown' /\ InPlace' /\ NoneLost'
  BY <1>2 DEF vars, lists, work, history, LossInv, AllKnown, Driveable, Known, Outputs,
              InPlace, At, NoneLost
<1>3. CASE Next
  <2>1. PICK t \in Threads :
          \/ (\E c \in Configs : BeginReload(t, c)) \/ ReloadStep(t)
          \/ Schedule(t) \/ \E p \in Points, v \in BOOLEAN : TestWrite(t, p, v)
          \/ Cycle(t)
    BY <1>3 DEF Next
  <2>2. AllKnown' /\ InPlace' /\ NoneLost'
    BY <1>1, <2>1, LossReload, LossHandler, LossCycle
  <2> QED BY <1>1, <2>2 DEF LossInv
<1> QED BY <1>1, <1>2, <1>3 DEF LossInv

\* The missing lock alone loses no revert in the ways `lost` names: one cycling thread, any
\* number of handlers at once, a bus that may fail, rules and reloads in between.  (A pulse
\* that its engine's replacement takes along is not among them.)
THEOREM NoRevertLost ==
    ASSUME SameOutputs, Cyclers = {Poll}, "unfiled" \notin Faults
    PROVE  Spec => []NoneLost
<1>1. Init => LossInv
  BY TypeInit DEF Init, LossInv, AllKnown, Driveable, InPlace, NoneLost
<1>2. LossInv /\ [Next]_vars => LossInv'
  BY LossStep
<1>3. LossInv => NoneLost
  BY DEF LossInv
<1> QED BY <1>1, <1>2, <1>3, PTL DEF Spec
=============================================================================
