----------------------------- MODULE OtaUpdate -----------------------------
(***************************************************************************)
(* engine/ota.py: a signed update brings a document, which is swapped in,  *)
(* written to io_config.json and checked by a whole poll cycle run in the  *)
(* handler's own thread; a document whose points do not answer is rolled   *)
(* back to .lkg.  Between the steps the file may be edited, the poll       *)
(* thread may run a cycle and the process may die; an event that cannot be *)
(* filed raises out of the handler and ends the update there.  One call of *)
(* reload is one step here: ConfigLifecycle and HotReload take it apart.   *)
(***************************************************************************)
EXTENDS Naturals

CONSTANTS
    Contents,           \* a document up to its config_version
    Answering,          \* contents whose every point answers on the bus
    Invalid,            \* contents validate_io refuses
    Initial,
    MaxVersion,         \* bound on config_version
    None,
    Editing,            \* whether anybody edits the file by hand
    Polling,            \* whether the poll thread runs beside the update
    Crashing            \* whether the process may die

Versions == 1 .. MaxVersion
Doc == [version : Versions, content : Contents]

ASSUME OtaUpdateAssumption ==
    /\ Answering \subseteq Contents /\ Invalid \subseteq Contents
    /\ Initial \in Contents \ Invalid
    /\ MaxVersion \in Nat \ {0}
    /\ None \notin Doc
    /\ Editing \in BOOLEAN /\ Polling \in BOOLEAN /\ Crashing \in BOOLEAN

VARIABLES
    running, lkg, lastSeen,     \* io_config, io_config.json.lkg, the watcher's version
    file,                       \* io_config.json
    status,                     \* ota_status.json: [ok, rolledBack, version], or None
    pc,                         \* how far apply_and_reload has come
    target,                     \* migrated_config
    up,                         \* the process runs
    before,                     \* history: what ran when the update began
    failed                      \* history: what ran when the health check failed

engine == <<running, lkg, lastSeen>>
update == <<pc, target, before, failed>>
vars == <<engine, file, status, update, up>>

Init ==
    /\ running = [version |-> 1, content |-> Initial] /\ lastSeen = 1
    /\ file = running /\ lkg = None /\ status = None
    /\ pc = "idle" /\ target = None /\ up = TRUE
    /\ before = None /\ failed = None

Report(ok, rolledBack, v) == [ok |-> ok, rolledBack |-> rolledBack, version |-> v]

At(label) == up /\ pc = label

-----------------------------------------------------------------------------
Accepted(d) == d.content \notin Invalid

\* Slip: the backup holds the document that takes over.
BacksUpTheNew(d) == d

BackedUp(d) == running

\* PollEngine.reload of a document that validate_io accepts.
Reload(d) ==
    /\ running' = d /\ lkg' = BackedUp(d) /\ lastSeen' = d.version

\* run_cycle's watcher: a document with another version is swapped in, or is only
\* seen: refused, not to be built, or the walk of the old outputs raised.
Watch ==
    \/ file.version = lastSeen /\ UNCHANGED engine
    \/ file.version # lastSeen /\ Accepted(file) /\ Reload(file)
    \/ file.version # lastSeen /\ lastSeen' = file.version /\ UNCHANGED <<running, lkg>>

-----------------------------------------------------------------------------
\* What verify_and_migrate hands on: the running document itself when the schema
\* is the latest already, else a migrated one with a version of its own.
Migrated ==
    {running} \cup {[version |-> v, content |-> c] : v \in Versions \ {running.version},
                                                     c \in Contents}

\* Slip: the verdict on this update is kept for the next.
OverKeepsFailed == pc' = "idle" /\ target' = None /\ before' = None /\ UNCHANGED failed

Over == pc' = "idle" /\ target' = None /\ before' = None /\ failed' = None

\* An event cannot be filed: nothing is reported.
EventRaises == Over /\ UNCHANGED status

\* apply_and_reload begins: reload swaps the document in, or it is refused or cannot
\* be built.  A walk of the outputs that raises leaves all as it was.
Apply(d) ==
    /\ At("idle") /\ d \in Migrated
    /\ \/ /\ Accepted(d) /\ Reload(d)
          /\ pc' = "swapped" /\ target' = d /\ before' = running
          /\ UNCHANGED status
       \/ /\ status' = Report(FALSE, FALSE, 0)
          /\ UNCHANGED <<engine, pc, target, before>>
    /\ UNCHANGED <<file, failed, up>>

\* The file gets the migrated document, whatever runs by now; after an event that
\* is not filed it stays there unchecked.
Persist ==
    /\ At("swapped") /\ file' = target
    /\ \/ pc' = "persisted" /\ UNCHANGED <<status, target, before, failed>>
       \/ EventRaises
    /\ UNCHANGED <<engine, up>>

\* default_health_check: run_cycle, watcher included, then every point must have
\* answered; a bus that fails for a moment fails the check as well.  A reload, a
\* revert or a read that cannot file its event raises out of the cycle.
HealthCheck ==
    /\ At("persisted") /\ Watch
    /\ \/ /\ running'.content \in Answering
          /\ pc' = "healthy" /\ UNCHANGED <<status, target, before, failed>>
       \/ /\ pc' = "unhealthy" /\ failed' = running'
          /\ UNCHANGED <<status, target, before>>
       \/ EventRaises
    /\ UNCHANGED <<file, up>>

ReportHealthy ==
    /\ At("healthy") /\ Over
    /\ status' \in {Report(TRUE, FALSE, running.version), status}
    /\ UNCHANGED <<engine, file, up>>

\* rollback_to_lkg, after the event that the check has failed.
RollBack ==
    /\ At("unhealthy") /\ pc' = "rolledBack"
    /\ Reload(lkg)
    /\ UNCHANGED <<file, status, target, before, failed, up>>

\* No rollback: .lkg cannot be read or built, or the event or the walk raises.
RollBackFails ==
    /\ At("unhealthy") /\ Over
    /\ status' \in {Report(FALSE, FALSE, 0), status}
    /\ UNCHANGED <<engine, file, up>>

\* Slip: the file keeps the document that failed.
KeepsFile == file

Restored == running

ReportRolledBack ==
    /\ At("rolledBack") /\ Over
    /\ file' = Restored
    /\ status' \in {Report(FALSE, TRUE, running.version), status}
    /\ UNCHANGED <<engine, up>>

-----------------------------------------------------------------------------
\* A cycle of the poll thread, between updates or beside one.
PollCycle ==
    /\ up /\ (Polling \/ pc = "idle")
    /\ Watch
    /\ UNCHANGED <<file, status, update, up>>

Edit(c) ==
    /\ Editing /\ file.version < MaxVersion
    /\ file' = [version |-> file.version + 1, content |-> c]
    /\ UNCHANGED <<engine, status, update, up>>

Crash ==
    /\ Crashing /\ up /\ up' = FALSE /\ Over
    /\ UNCHANGED <<engine, file, status>>

\* Started again from the file, which an update never fills with a refused document.
Restart ==
    /\ ~up /\ up' = TRUE
    /\ Accepted(file)
    /\ running' = file /\ lastSeen' = file.version
    /\ UNCHANGED <<lkg, file, status, update>>

Step ==
    \/ Persist \/ HealthCheck \/ ReportHealthy
    \/ RollBack \/ RollBackFails \/ ReportRolledBack

Next ==
    \/ \E d \in Doc : Apply(d)
    \/ Step \/ PollCycle
    \/ \E c \in Contents : Edit(c)
    \/ Crash \/ Restart

Spec == Init /\ [][Next]_vars

-----------------------------------------------------------------------------
\* Type invariant; an update under way knows what it brings and what it replaced.
TypeOK ==
    /\ running \in Doc /\ lkg \in Doc \cup {None} /\ file \in Doc
    /\ lastSeen \in Versions /\ up \in BOOLEAN
    /\ status \in {None} \cup [ok : BOOLEAN, rolledBack : BOOLEAN, version : Versions \cup {0}]
    /\ pc \in {"idle", "swapped", "persisted", "healthy", "unhealthy", "rolledBack"}
    /\ target \in Doc \cup {None} /\ before \in Doc \cup {None}
    /\ failed \in Doc \cup {None}
    /\ pc = "idle" <=> target = None
    /\ target = None <=> before = None
    /\ pc \in {"unhealthy", "rolledBack"} <=> failed # None
    /\ ~up => pc = "idle"
    /\ pc # "idle" => lkg # None

RollbackEnds == At("rolledBack") /\ pc' = "idle" /\ up'

\* When the rollback of a document that failed its health check ends, what
\* ran before the update runs again and is in the file, although the poll cycle of
\* the check has a watcher of its own, reload has written .lkg twice by then, and
\* others replace the file.
RestoresExactly ==
    [][RollbackEnds /\ failed = target => running' = before /\ file' = before]_vars

\* What failed its health check, be it what the update brought or what its cycle
\* found in the file, is neither left running nor in the file when the rollback
\* ends, unless the update brought what was running already.
FailedIsGone ==
    [][RollbackEnds /\ target # before => running' # failed /\ file' # failed]_vars

\* Does not hold under OtaUpdate.cfg.  ota.py: "auto-rollback to the exact pre-swap
\* config on failure", whatever it is that failed.
ExactRollback == [][RollbackEnds => running' = before /\ file' = before]_vars

\* Nor do these: an event that is not filed leaves an update unchecked (ota.py:180), or
\* known to have failed and running nevertheless (187-193), until the next update.
EveryUpdateIsChecked == [][(pc \in {"swapped", "persisted"}) /\ pc' = "idle" => up' = FALSE]_vars
FailedNeverStays ==
    [][failed # None /\ failed' = None /\ up' /\ target # before => running' # failed]_vars
=============================================================================
