---------------------------- MODULE AdminProcess ----------------------------
(***************************************************************************)
(* The process that IdentityStore and SystemStore live in: a Flask thread  *)
(* serves one request at a time, and a crash takes all of them along.      *)
(* Both stores write with atomic_write_json, whose temporary name carries  *)
(* the process id: the threads that write one path share one temporary     *)
(* file, as writers of one Pid do in AtomicWrite.                          *)
(***************************************************************************)
CONSTANTS
    Handlers,           \* Flask threads serving admin requests
    Concurrent,         \* FALSE: one request at a time
    Absent,             \* no file of that name
    Partial,            \* what a file holds that is open for writing
    Mixed               \* ... or that two threads have written over each other

ASSUME AdminAssumption == Concurrent \in BOOLEAN /\ Absent \notin {Partial, Mixed}

VARIABLES
    process,        \* "down", "booting" or "up"
    pc              \* where each handler is

At(h, label) == process = "up" /\ pc[h] = label
Goto(h, label) == pc' = [pc EXCEPT ![h] = label]
MayStart(h) == At(h, "idle") /\ (Concurrent \/ \A g \in Handlers : pc[g] = "idle")

-----------------------------------------------------------------------------
\* A saved file: what is under its path and under the temporary name, and where the
\* file is by now that a thread has open to write.
FileOf(D) == [path : D \cup {Absent, Partial, Mixed}, tmp : D \cup {Absent, Partial, Mixed},
              open : [Handlers -> {"no", "tmp", "path", "gone"}]]

Saved(d) == [path |-> d, tmp |-> Absent, open |-> [h \in Handlers |-> "no"]]

\* tmp_path.write_text truncates the temporary file, or creates it ...
Opened(f, h) == [f EXCEPT !.open[h] = "tmp", !.tmp = Partial]

\* ... and writes d over what has got into it meanwhile, wherever it is by now.
Over(old, d) == IF old \in {Partial, d} THEN {d} ELSE {d, Mixed}

Written(f, h, d) ==
    {[f EXCEPT !.open[h] = "no", !.tmp = IF f.open[h] = "tmp" THEN left ELSE f.tmp,
                                 !.path = IF f.open[h] = "path" THEN left ELSE f.path] :
        left \in Over(IF f.open[h] = "path" THEN f.path ELSE f.tmp, d)}

\* os.replace moves the temporary name, for all who have its file open; it raises when
\* there is no such name any more.
Renamed(f) ==
    [path |-> f.tmp, tmp |-> Absent,
     open |-> [h \in Handlers |-> IF f.open[h] = "tmp" THEN "path"
                                  ELSE IF f.open[h] = "path" THEN "gone" ELSE f.open[h]]]
=============================================================================
