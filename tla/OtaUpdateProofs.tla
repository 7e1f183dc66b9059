-------------------------- MODULE OtaUpdateProofs --------------------------
(***************************************************************************)
(* What a rollback that ends has restored, for any documents and any editor  *)
(* of the file, as long as the poll thread does not run beside the update.  *)
(***************************************************************************)
EXTENDS OtaUpdate, TLAPS

\* What the update has in hand: until the check the target runs and .lkg holds what
\* ran before; afterwards .lkg holds something else than what failed.
InHand ==
    /\ pc \in {"swapped", "persisted"} =>
         running = target /\ lkg = before /\ lastSeen = target.version
    /\ pc = "unhealthy" =>
         /\ failed = target => lkg = before
         /\ target # before => lkg # failed
    /\ pc = "rolledBack" =>
         /\ failed = target => running = before
         /\ target # before => running # failed

IInv == TypeOK /\ InHand

LEMMA FirstDoc == [version |-> 1, content |-> Initial] \in Doc /\ 1 \in Versions
  BY OtaUpdateAssumption DEF Doc, Versions

LEMMA InitIInv == Init => IInv
  BY FirstDoc, OtaUpdateAssumption DEF Init, IInv, TypeOK, InHand

\* A document swapped in keeps the engine's types, and .lkg is then in use.
LEMMA ReloadType ==
  ASSUME TypeOK, NEW d \in Doc, Reload(d)
  PROVE  running' \in Doc /\ lkg' \in Doc /\ lastSeen' \in Versions
  BY DEF TypeOK, Reload, BackedUp, Doc

LEMMA WatchType ==
  ASSUME TypeOK, Watch
  PROVE  /\ running' \in Doc /\ lastSeen' \in Versions
         /\ lkg' \in Doc \cup {None} /\ (lkg # None => lkg' # None)
<1>1. CASE UNCHANGED engine
  BY <1>1 DEF TypeOK, engine
<1>2. CASE Reload(file)
  BY <1>2, ReloadType, OtaUpdateAssumption DEF TypeOK
<1>3. CASE lastSeen' = file.version /\ UNCHANGED <<running, lkg>>
  BY <1>3 DEF TypeOK, Doc
<1> QED BY <1>1, <1>2, <1>3 DEF Watch

Statuses == {None} \cup [ok : BOOLEAN, rolledBack : BOOLEAN, version : Versions \cup {0}]

LEMMA ReportTyped ==
  ASSUME NEW ok \in BOOLEAN, NEW rolledBack \in BOOLEAN, NEW v \in Versions \cup {0}
  PROVE  Report(ok, rolledBack, v) \in Statuses
  BY DEF Report, Statuses

LEMMA TypeInductive ==
  ASSUME TypeOK, [Next]_vars
  PROVE  TypeOK'
<1>1. ASSUME NEW d \in Doc, Apply(d) PROVE TypeOK'
  <2>1. CASE Reload(d) /\ pc' = "swapped" /\ target' = d /\ before' = running /\ UNCHANGED status
    <3>1. running' \in Doc /\ lkg' \in Doc /\ lastSeen' \in Versions
      BY <2>1, ReloadType
    <3> QED BY <1>1, <2>1, <3>1, OtaUpdateAssumption DEF Apply, At, TypeOK
  <2>2. CASE status' = Report(FALSE, FALSE, 0) /\ UNCHANGED <<engine, pc, target, before>>
    <3>1. UNCHANGED <<running, lkg, lastSeen, pc, target, before, file, failed, up>>
      BY <1>1, <2>2 DEF Apply, engine
    <3>2. status' \in [ok : BOOLEAN, rolledBack : BOOLEAN, version : Versions \cup {0}]
      BY <2>2 DEF Report
    <3> QED BY <3>1, <3>2 DEF TypeOK
  <2> QED BY <1>1, <2>1, <2>2 DEF Apply
<1>2. CASE Persist
  BY <1>2, OtaUpdateAssumption DEF Persist, EventRaises, Over, At, TypeOK, engine
<1>3. CASE HealthCheck
  <2>1. /\ running' \in Doc /\ lastSeen' \in Versions
        /\ lkg' \in Doc \cup {None} /\ (lkg # None => lkg' # None)
    BY <1>3, WatchType DEF HealthCheck
  <2>2. CASE EventRaises
    BY <1>3, <2>1, <2>2 DEF HealthCheck, EventRaises, Over, At, TypeOK
  <2>3. CASE ~EventRaises
    BY <1>3, <2>1, <2>3, OtaUpdateAssumption DEF HealthCheck, At, TypeOK
  <2> QED BY <2>2, <2>3
<1>4. CASE ReportHealthy \/ RollBackFails
  <2>1. status' \in {None} \cup [ok : BOOLEAN, rolledBack : BOOLEAN, version : Versions \cup {0}]
    <3>1. running.version \in Versions /\ status \in Statuses
      BY DEF TypeOK, Doc, Statuses
    <3>2. Report(TRUE, FALSE, running.version) \in Statuses /\ Report(FALSE, FALSE, 0) \in Statuses
      BY <3>1, ReportTyped
    <3> QED BY <1>4, <3>1, <3>2 DEF ReportHealthy, RollBackFails, Statuses
  <2> QED BY <1>4, <2>1 DEF ReportHealthy, RollBackFails, Over, At, TypeOK, engine
<1>5. CASE RollBack
  <2>1. running' \in Doc /\ lkg' \in Doc /\ lastSeen' \in Versions
    BY <1>5, ReloadType DEF RollBack, At, TypeOK
  <2> QED BY <1>5, <2>1, OtaUpdateAssumption DEF RollBack, At, TypeOK
<1>6. CASE ReportRolledBack
  <2>1. status' \in {None} \cup [ok : BOOLEAN, rolledBack : BOOLEAN, version : Versions \cup {0}]
    <3>1. running.version \in Versions /\ status \in Statuses
      BY DEF TypeOK, Doc, Statuses
    <3>2. Report(FALSE, TRUE, running.version) \in Statuses
      BY <3>1, ReportTyped
    <3> QED BY <1>6, <3>1, <3>2 DEF ReportRolledBack, Statuses
  <2> QED BY <1>6, <2>1 DEF ReportRolledBack, Restored, Over, At, TypeOK, engine
<1>7. CASE PollCycle
  <2>1. /\ running' \in Doc /\ lastSeen' \in Versions
        /\ lkg' \in Doc \cup {None} /\ (lkg # None => lkg' # None)
    BY <1>7, WatchType DEF PollCycle
  <2> QED BY <1>7, <2>1 DEF PollCycle, TypeOK, update
<1>8. ASSUME NEW c \in Contents, Edit(c) PROVE TypeOK'
  <2>1. file' \in Doc
    BY <1>8, OtaUpdateAssumption DEF Edit, TypeOK, Doc, Versions
  <2> QED BY <1>8, <2>1 DEF Edit, TypeOK, engine, update
<1>9. CASE Crash
  BY <1>9 DEF Crash, Over, TypeOK, engine
<1>10. CASE Restart
  BY <1>10 DEF Restart, TypeOK, update, Doc
<1>11. CASE UNCHANGED vars
  BY <1>11 DEF vars, engine, update, TypeOK
<1> QED BY <1>1, <1>2, <1>3, <1>4, <1>5, <1>6, <1>7, <1>8, <1>9, <1>10, <1>11 DEF Next, Step

\* Type invariant of apply_and_reload, its watcher and its files.
THEOREM TypeCorrect == Spec => []TypeOK
<1>1. Init => TypeOK
  BY InitIInv DEF IInv
<1> QED BY <1>1, TypeInductive, PTL DEF Spec

\* The check's own watcher may swap in what it finds in the file: its version is
\* then another than the target's, and .lkg holds the target.
LEMMA HealthCheckKeepsHold ==
  ASSUME IInv, HealthCheck
  PROVE  InHand'
<1>1. running = target /\ lkg = before /\ lastSeen = target.version
  BY DEF HealthCheck, At, IInv, InHand
<1>2. CASE pc' = "healthy" \/ EventRaises
  BY <1>2 DEF InHand, EventRaises, Over
<1>3. CASE pc' = "unhealthy"
  <2>1. failed' = running' /\ target' = target /\ before' = before
    BY <1>3 DEF HealthCheck, EventRaises, Over
  <2>2. CASE running' = running /\ lkg' = lkg
    BY <1>1, <1>3, <2>1, <2>2 DEF InHand
  <2>3. CASE running' = file /\ lkg' = running /\ file.version # lastSeen
    BY <1>1, <1>3, <2>1, <2>3 DEF InHand
  <2> QED BY <2>2, <2>3 DEF HealthCheck, Watch, Reload, BackedUp, engine
<1> QED BY <1>2, <1>3 DEF HealthCheck

LEMMA StepKeepsHold ==
  ASSUME ~Polling, IInv, [Next]_vars
  PROVE  InHand'
<1>1. ASSUME NEW d \in Doc, Apply(d) PROVE InHand'
  BY <1>1 DEF Apply, At, Reload, BackedUp, InHand
<1>2. CASE Persist
  BY <1>2 DEF Persist, EventRaises, Over, At, IInv, InHand, engine
<1>3. CASE HealthCheck
  BY <1>3, HealthCheckKeepsHold
<1>4. CASE RollBack
  BY <1>4 DEF RollBack, At, Reload, IInv, InHand
<1>5. CASE ReportHealthy \/ RollBackFails \/ ReportRolledBack \/ Crash
  BY <1>5 DEF ReportHealthy, RollBackFails, ReportRolledBack, Crash, Over, InHand
<1>6. CASE PollCycle
  BY <1>6 DEF PollCycle, update, InHand
<1>7. ASSUME NEW c \in Contents, Edit(c) PROVE InHand'
  BY <1>7 DEF Edit, engine, update, IInv, InHand
<1>8. CASE Restart
  BY <1>8 DEF Restart, update, IInv, TypeOK, InHand
<1>9. CASE UNCHANGED vars
  BY <1>9 DEF vars, engine, update, IInv, InHand
<1> QED BY <1>1, <1>2, <1>3, <1>4, <1>5, <1>6, <1>7, <1>8, <1>9 DEF Next, Step

LEMMA Invariance ==
  ASSUME ~Polling
  PROVE  Spec => []IInv
<1>1. IInv /\ [Next]_vars => IInv'
  BY TypeInductive, StepKeepsHold DEF IInv
<1> QED BY <1>1, InitIInv, PTL DEF Spec

\* Only the report of a rollback ends one, and it writes what runs.
LEMMA Reported ==
  ASSUME Next, RollbackEnds
  PROVE  running' = running /\ file' = running
<1>1. ReportRolledBack
  BY DEF Next, Step, RollbackEnds, At, Apply, Persist, HealthCheck, ReportHealthy,
         RollBack, RollBackFails, PollCycle, Edit, Crash, Restart, update
<1> QED BY <1>1 DEF ReportRolledBack, Restored, engine

\* ota.py's promise: a document that failed is replaced by what ran before it.
THEOREM RollsBack ==
  ASSUME ~Polling
  PROVE  Spec => RestoresExactly
<1>1. IInv /\ [Next]_vars
        => [RollbackEnds /\ failed = target => running' = before /\ file' = before]_vars
  <2> SUFFICES ASSUME IInv, Next, RollbackEnds, failed = target
               PROVE  running' = before /\ file' = before
    OBVIOUS
  <2>1. running = before
    BY DEF IInv, InHand, RollbackEnds, At
  <2> QED BY <2>1, Reported
<1> QED BY <1>1, Invariance, PTL DEF Spec, RestoresExactly

\* And what failed is gone, wherever it came from.
THEOREM FailedRemoved ==
  ASSUME ~Polling
  PROVE  Spec => FailedIsGone
<1>1. IInv /\ [Next]_vars
        => [RollbackEnds /\ target # before => running' # failed /\ file' # failed]_vars
  <2> SUFFICES ASSUME IInv, Next, RollbackEnds, target # before
               PROVE  running' # failed /\ file' # failed
    OBVIOUS
  <2>1. running # failed
    BY DEF IInv, InHand, RollbackEnds, At
  <2> QED BY <2>1, Reported
<1> QED BY <1>1, Invariance, PTL DEF Spec, FailedIsGone
=============================================================================
