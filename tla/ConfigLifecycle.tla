-------------------------- MODULE ConfigLifecycle --------------------------
(***************************************************************************)
(* Where a configuration lives: in the running engine, in io_config.json,  *)
(* in the .lkg file and in the version history, and the steps between      *)
(* which the process may crash or another thread may run.  The poll thread *)
(* watches the file; handlers serve PUT /api/io, POST /api/io/import and   *)
(* POST /api/config/rollback; an editor outside the process replaces the   *)
(* file.  A file write succeeds and is one step: AtomicWrite shows why for *)
(* writers in different processes, and where two threads of this one write *)
(* the same file at once, under one temporary name, it is not so here      *)
(* either.  What reload does to the outputs is in HotReload; here its walk *)
(* over them only matters where it raises, an event that cannot be filed.  *)
(***************************************************************************)
EXTENDS Integers

CONSTANTS
    Poll, Handlers,     \* the threads
    Contents,           \* a document up to its config_version
    Valid,              \* contents that validate_io and the build accept
    Initial,            \* content of the first document
    MaxVersion,         \* bound on config_version
    None,
    Torn,               \* what a file holds that two threads have written into
    Concurrent,         \* FALSE: one handler or cycle at a time, as in the tests
    Rollbacks,          \* whether anybody rolls back
    Editing             \* whether anybody edits the file by hand

Threads == {Poll} \cup Handlers
Versions == 1 .. MaxVersion
Doc == [version : Versions, content : Contents]
Accepted == [version : Versions, content : Valid]

ASSUME ConfigLifecycleAssumption ==
    /\ Poll \notin Handlers
    /\ Valid \subseteq Contents /\ Initial \in Valid
    /\ MaxVersion \in Nat \ {0}
    /\ None \notin Doc /\ Torn \notin Doc \cup {None}
    /\ Concurrent \in BOOLEAN /\ Rollbacks \in BOOLEAN /\ Editing \in BOOLEAN

VARIABLES
    running,    \* io_config of the engine
    lastSeen,   \* _last_seen_version of the watcher
    file,       \* io_config.json
    lkg,        \* io_config.json.lkg
    saved,      \* io_config.json_versions: version -> document
    up,         \* the process runs
    pc,
    doc,        \* the document a thread has in hand
    fetched,    \* handler: the document it is about to write to the file
    overlapped, \* threads into whose file write another's has come
    dropped,    \* history: the document whose reload last raised in the poll loop
    acked       \* history: documents a client was told are saved

files == <<file, lkg, saved>>
watch == <<lastSeen, dropped>>
vars == <<running, watch, files, up, pc, doc, fetched, overlapped, acked>>

Init ==
    /\ file = [version |-> 1, content |-> Initial]
    /\ running = file /\ lastSeen = 1
    /\ lkg = None /\ saved = [v \in Versions |-> None]
    /\ up = TRUE
    /\ pc = [t \in Threads |-> "idle"]
    /\ doc = [t \in Threads |-> None] /\ fetched = [t \in Threads |-> None]
    /\ overlapped = {} /\ dropped = None /\ acked = {}

At(t, label) == up /\ pc[t] = label
Goto(t, label) == pc' = [pc EXCEPT ![t] = label]
MayStart(t) == At(t, "idle") /\ (Concurrent \/ \A u \in Threads : pc[u] = "idle")

Take(t, label, d) ==
    /\ Goto(t, label) /\ doc' = [doc EXCEPT ![t] = d]

\* Slip: a request keeps the document it wrote.
FinishKeepsFetched(t) == Take(t, "idle", None) /\ UNCHANGED fetched

Finish(t) ==
    /\ Take(t, "idle", None) /\ fetched' = [fetched EXCEPT ![t] = None]

-----------------------------------------------------------------------------
\* Slip: what is read is trusted.
GoodUnseen(d) == TRUE

Good(d) == d # Torn /\ d.content \in Valid

\* PUT /api/io and POST /api/io/import: the document gets the next version after
\* the running one, and reload validates it; one that is rejected, or whose walk over
\* the outputs raises, changes nothing.
Put(t, c) ==
    /\ t \in Handlers /\ MayStart(t)
    /\ c \in Valid /\ running.version < MaxVersion
    /\ Take(t, "backup", [version |-> running.version + 1, content |-> c])
    /\ UNCHANGED <<running, watch, files, up, fetched, overlapped, acked>>

\* POST /api/config/rollback to the last-known-good document or to a saved version; a
\* torn one is refused or raises.
Rollback(t, d) ==
    /\ Rollbacks /\ t \in Handlers /\ MayStart(t)
    /\ d # None /\ Good(d)
    /\ Take(t, "backup", d)
    /\ UNCHANGED <<running, watch, files, up, fetched, overlapped, acked>>

-----------------------------------------------------------------------------
\* ConfigWatcher.poll: the file is read, if it can be...
Look ==
    /\ MayStart(Poll) /\ file # Torn
    /\ Take(Poll, "looked", file)
    /\ UNCHANGED <<running, watch, files, up, fetched, overlapped, acked>>

IsNew(d) == d.version # lastSeen

\* ... and its version compared, and counted as seen.  reload then validates the
\* document, and its walk over the outputs may raise.
Compare ==
    /\ At(Poll, "looked")
    /\ LET d == doc[Poll]
       IN  \/ ~IsNew(d) /\ Finish(Poll) /\ UNCHANGED watch
           \/ IsNew(d) /\ ~Good(d) /\ Finish(Poll) /\ lastSeen' = d.version /\ UNCHANGED dropped
           \/ /\ IsNew(d) /\ Good(d) /\ Goto(Poll, "backup") /\ lastSeen' = d.version
              /\ UNCHANGED <<doc, fetched, dropped>>
           \/ IsNew(d) /\ Good(d) /\ Finish(Poll) /\ lastSeen' = d.version /\ dropped' = d
    /\ UNCHANGED <<running, files, up, overlapped, acked>>

-----------------------------------------------------------------------------
\* atomic_write_json by a thread.  Other threads that are about to write the same file
\* share its temporary file; whichever renames it publishes what is in it by then.
Rivals(t) == {u \in Threads \ {t} : pc[u] = pc[t]}

\* What the file may hold after t's write: alone, the document t writes; with rivals
\* also theirs, or neither; and if one of them was first, also what that one left.
Written(t, own, theirs, current) ==
    {own} \cup (IF Rivals(t) # {} THEN theirs \cup {Torn} ELSE {})
          \cup (IF t \in overlapped THEN {current, Torn} ELSE {})

Overlaps(t) == overlapped' = (overlapped \ {t}) \cup Rivals(t)

\* ... who has renamed the temporary file away, so that t's own rename raises.
RenameRaises(t) ==
    /\ t \in overlapped /\ Finish(t)
    /\ dropped' = IF t = Poll THEN doc[t] ELSE dropped

\* Slip: the backup is made from the file, which may already hold the new document.
OldFromFile(t) == file

Old(t) == running

\* reload: the document that is still running goes to .lkg ...
Backup(t) ==
    /\ At(t, "backup") /\ Overlaps(t)
    /\ lkg' \in Written(t, Old(t), {Old(t)}, lkg)
    /\ \/ Goto(t, "save") /\ UNCHANGED <<doc, fetched, dropped>>
       \/ RenameRaises(t)
    /\ UNCHANGED <<running, lastSeen, file, saved, up, acked>>

\* ... and into the version history, under its own version ...
SaveVersion(t) ==
    /\ At(t, "save") /\ Overlaps(t)
    /\ \E d \in Written(t, running, {running}, saved[running.version]) :
         saved' = [saved EXCEPT ![running.version] = d]
    /\ \/ Goto(t, "swap") /\ UNCHANGED <<doc, fetched, dropped>>
       \/ RenameRaises(t)
    /\ UNCHANGED <<running, lastSeen, file, lkg, up, acked>>

\* ... before the new one takes over.
Swap(t) ==
    /\ At(t, "swap") /\ Goto(t, "mark")
    /\ running' = doc[t]
    /\ UNCHANGED <<watch, files, up, doc, fetched, overlapped, acked>>

\* Slip: whatever is in the file by now counts as seen.
SeenFromFile(t) == file.version

Seen(t) == doc[t].version

MarkSeen(t) ==
    /\ At(t, "mark") /\ lastSeen' = Seen(t)
    /\ IF t = Poll THEN Finish(t)
                   ELSE Goto(t, "fetch") /\ UNCHANGED <<doc, fetched>>
    /\ UNCHANGED <<running, files, up, overlapped, dropped, acked>>

\* _persist_io_config reads the engine's io_config ...
Fetch(t) ==
    /\ At(t, "fetch") /\ Goto(t, "persist")
    /\ fetched' = [fetched EXCEPT ![t] = running]
    /\ UNCHANGED <<running, watch, files, up, doc, overlapped, acked>>

\* Slip: the document that was running before is written back.
StaleFetched(t) == IF lkg = None THEN fetched[t] ELSE lkg

Fetched(t) == fetched[t]

\* ... and replaces the file; the client is told the new version.
Persist(t) ==
    /\ At(t, "persist") /\ Overlaps(t)
    /\ file' \in Written(t, Fetched(t), {fetched[u] : u \in Rivals(t)}, file)
    /\ \/ Finish(t) /\ acked' = acked \cup {doc[t]} /\ UNCHANGED dropped
       \/ RenameRaises(t) /\ UNCHANGED acked
    /\ UNCHANGED <<running, lastSeen, lkg, saved, up>>

-----------------------------------------------------------------------------
\* Somebody replaces the file, as one does: with a new version number.
Edit(c) ==
    /\ Editing /\ file # Torn /\ file.version < MaxVersion
    /\ file' = [version |-> file.version + 1, content |-> c]
    /\ UNCHANGED <<running, watch, lkg, saved, up, pc, doc, fetched, overlapped, acked>>

Crash ==
    /\ up /\ up' = FALSE
    /\ pc' = [t \in Threads |-> "idle"]
    /\ doc' = [t \in Threads |-> None] /\ fetched' = doc'
    /\ overlapped' = {}
    /\ UNCHANGED <<running, watch, files, acked>>

\* PollEngine is built from the file, and refuses to be built from a bad one.
Restart ==
    /\ ~up /\ up' = TRUE
    /\ Good(file)
    /\ running' = file /\ lastSeen' = file.version
    /\ UNCHANGED <<files, pc, doc, fetched, overlapped, dropped, acked>>

-----------------------------------------------------------------------------
ReloadStep(t) ==
    \/ Backup(t) \/ SaveVersion(t) \/ Swap(t) \/ MarkSeen(t)
    \/ Fetch(t) \/ Persist(t)

Next ==
    \/ \E t \in Handlers :
         \/ \E c \in Contents : Put(t, c)
         \/ Rollback(t, lkg) \/ \E v \in Versions : Rollback(t, saved[v])
    \/ \E t \in Threads : ReloadStep(t)
    \/ Look \/ Compare
    \/ \E c \in Contents : Edit(c)
    \/ Crash \/ Restart

Spec == Init /\ [][Next]_vars

\* What has begun runs to its end, the poll loop keeps calling run_cycle -- also
\* when handlers take turns with it -- and a process that is down is restarted.
Fairness ==
    /\ \A t \in Threads : WF_vars(ReloadStep(t))
    /\ SF_vars(Look) /\ WF_vars(Compare) /\ WF_vars(Restart)

LiveSpec == Spec /\ Fairness

-----------------------------------------------------------------------------
\* Type invariant; while the process is down no thread has anything in hand.
TypeOK ==
    /\ running \in Doc /\ lastSeen \in Versions /\ file \in Doc \cup {Torn}
    /\ lkg \in Doc \cup {None, Torn} /\ saved \in [Versions -> Doc \cup {None, Torn}]
    /\ up \in BOOLEAN /\ overlapped \subseteq Threads
    /\ dropped \in Doc \cup {None} /\ acked \subseteq Doc
    /\ pc \in [Threads -> {"idle", "looked", "backup", "save", "swap", "mark",
                            "fetch", "persist"}]
    /\ doc \in [Threads -> Doc \cup {None}] /\ fetched \in [Threads -> Doc \cup {None}]
    /\ \A t \in Threads :
         /\ pc[t] = "idle" <=> doc[t] = None
         /\ pc[t] = "persist" <=> fetched[t] # None
         /\ ~up => pc[t] = "idle"
         /\ pc[t] \in {"fetch", "persist"} => t \in Handlers
         /\ t \in overlapped => pc[t] \in {"backup", "save", "persist"}

\* Whatever is written to the file from outside, in whatever moment: the engine
\* runs a valid document, and the backups hold none but valid documents, each
\* version under its own number, so that a rollback is never refused.
KnownGood ==
    /\ running \in Accepted
    /\ lkg \in Accepted \cup {None}
    /\ \A v \in Versions : saved[v] # None => saved[v] \in Accepted /\ saved[v].version = v

\* config_store.py: the LKG is "the config that was actually running immediately
\* before a reload", at the moment the next one takes over.
LkgIsPrevious ==
    [][up /\ up' /\ running' # running => lkg = running]_vars

\* The answer to a PUT, an import or a rollback is true: its document is running
\* and is in the file, so that a restart finds it.
AckedIsRunning ==
    [][\A t \in Handlers :
         At(t, "persist") /\ up' /\ pc'[t] = "idle"
           => running' = doc[t] /\ file' = doc[t]]_vars

InSync == running = file \/ ~Good(file)

\* The watcher has seen the document in the file, and its reload raised.
PassedOver == file = dropped /\ lastSeen = file.version

\* The file is the single source of truth: again and again the engine runs what
\* is in it, unless that is invalid, or its reload raised when the watcher saw it: no
\* order of edits, saves, rollbacks and crashes keeps the two apart in another way.
Converges == []<>(InSync \/ PassedOver)

\* What the threads have in hand; no document means no reload, save or look under way.
InHand == {doc[t] : t \in Threads} \ {None}

Store == INSTANCE ConfigStore WITH
    Documents <- Doc, Valid <- Accepted, active <- running, stored <- file,
    previous <- lkg, history <- saved, chosen <- InHand

\* One handler or cycle at a time, all of this is a store that replaces its document
\* in one step, by a valid one that came from where documents come from, and after
\* having kept the old one, wherever the editor and the crashes come in between.
ImplementsStore == Store!Spec

\* INSTALLER_GUIDE.md: "Every save you make is kept, not just the last one": it
\* is running, or in the file a restart will run, or in the history.
HistoryKept == \A d \in acked : d = running \/ saved[d.version] = d \/ d = file

-----------------------------------------------------------------------------
\* Whatever the threads do at once, an invalid document neither runs nor gets into the
\* backups; what does is a document that two threads have written into, which no rollback
\* accepts (ConfigLifecycleThreads.cfg).
KnownGoodOrTorn ==
    /\ running \in Accepted
    /\ lkg \in Accepted \cup {None, Torn}
    /\ \A v \in Versions : saved[v] \notin {None, Torn} => saved[v] \in Accepted /\ saved[v].version = v

-----------------------------------------------------------------------------
\* The rest does not hold: nor do Converges, AckedIsRunning and KnownGood with the
\* threads at work at once.

\* What is in the file is valid and comes to run, whatever happens to its reload.
AlwaysConverges == []<>InSync
=============================================================================
