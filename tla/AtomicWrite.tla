---------------------------- MODULE AtomicWrite ----------------------------
(***************************************************************************)
(* config_store.atomic_write_json on one path: open a temporary file named *)
(* after the process id, write the document, rename it over the path.      *)
(* Every saved file of the system goes through it (io_config.json, its     *)
(* .lkg, the versions, identity, system and OTA status), from the Flask    *)
(* handlers and from the poll thread of one process, and from whatever     *)
(* other process edits the configuration.                                  *)
(*                                                                         *)
(* The directory maps names to files, and an open handle keeps its file    *)
(* when the name moves away: rename does not touch what others have open.  *)
(***************************************************************************)
EXTENDS Naturals

CONSTANTS
    Writers,    \* threads, of one or of several processes
    Pids,
    Pid,        \* the process of each writer
    Docs,       \* serialised documents
    Initial,    \* the document the path holds at first
    Files,      \* inodes
    Home,       \* the inode the path refers to at first
    NoFile,       \* no such name, no open handle
    Empty,      \* what open(..., "w") leaves: a file of no length
    Torn        \* two documents written over each other

ASSUME AtomicWriteAssumption ==
    /\ Pid \in [Writers -> Pids]
    /\ Initial \in Docs
    /\ Home \in Files
    /\ NoFile \notin Files
    /\ Empty \notin Docs /\ Torn \notin Docs

VARIABLES
    path,       \* the file the path names
    tmp,        \* the file each process's temporary name refers to, or NoFile
    data,       \* what each file holds
    step,         \* where each writer is in atomic_write_json
    doc,        \* the document it was called with
    handle      \* the file it has open

writeVars == <<path, tmp, data, step, doc, handle>>

\* Slip: one temporary name for everybody.
OneName(w) == CHOOSE p \in Pids : TRUE

\* tmp_path = f"{path.name}.tmp-{os.getpid()}"
TmpName(w) == Pid[w]

WriteInit ==
    /\ path = Home
    /\ tmp = [p \in Pids |-> NoFile]
    /\ data = [f \in Files |-> Initial]
    /\ step = [w \in Writers |-> "idle"]
    /\ doc = [w \in Writers |-> Initial]
    /\ handle = [w \in Writers |-> NoFile]

Unused(f) ==
    /\ f # path
    /\ \A p \in Pids : tmp[p] # f
    /\ \A w \in Writers : handle[w] # f

-----------------------------------------------------------------------------
\* Slip: what a crashed process left in its temporary file is not truncated.
OpenWithoutTruncating(w, d) ==
    /\ step[w] = "idle"
    /\ step' = [step EXCEPT ![w] = "write"]
    /\ doc' = [doc EXCEPT ![w] = d]
    /\ \E f \in Files :
         /\ IF tmp[TmpName(w)] = NoFile THEN Unused(f) ELSE f = tmp[TmpName(w)]
         /\ tmp' = [tmp EXCEPT ![TmpName(w)] = f]
         /\ data' = IF tmp[TmpName(w)] = NoFile THEN [data EXCEPT ![f] = Empty] ELSE data
         /\ handle' = [handle EXCEPT ![w] = f]
    /\ UNCHANGED path

\* tmp_path.write_text opens the temporary name for writing: an existing file is
\* truncated, otherwise a new one is created.
Open(w, d) ==
    /\ step[w] = "idle"
    /\ step' = [step EXCEPT ![w] = "write"]
    /\ doc' = [doc EXCEPT ![w] = d]
    /\ \E f \in Files :
         /\ IF tmp[TmpName(w)] = NoFile THEN Unused(f) ELSE f = tmp[TmpName(w)]
         /\ tmp' = [tmp EXCEPT ![TmpName(w)] = f]
         /\ data' = [data EXCEPT ![f] = Empty]
         /\ handle' = [handle EXCEPT ![w] = f]
    /\ UNCHANGED path

\* ... and writes the document from its start.  Bytes another writer put in the
\* same file stay where they are longer.
Write(w) ==
    /\ step[w] = "write"
    /\ step' = [step EXCEPT ![w] = "rename"]
    /\ \E left \in IF data[handle[w]] \in {Empty, doc[w]} THEN {doc[w]} ELSE {doc[w], Torn} :
         data' = [data EXCEPT ![handle[w]] = left]
    /\ handle' = [handle EXCEPT ![w] = NoFile]
    /\ UNCHANGED <<path, tmp, doc>>

\* Slip: the arguments of os.replace swapped.
RenameSwapped(w) ==
    /\ step[w] = "rename"
    /\ step' = [step EXCEPT ![w] = "idle"]
    /\ path' = NoFile
    /\ tmp' = [tmp EXCEPT ![TmpName(w)] = path]
    /\ UNCHANGED <<data, doc, handle>>

\* os.replace(tmp_path, path); FileNotFoundError when the name is gone.
Rename(w) ==
    /\ step[w] = "rename"
    /\ step' = [step EXCEPT ![w] = "idle"]
    /\ IF tmp[TmpName(w)] = NoFile
         THEN UNCHANGED <<path, tmp>>
         ELSE /\ path' = tmp[TmpName(w)]
              /\ tmp' = [tmp EXCEPT ![TmpName(w)] = NoFile]
    /\ UNCHANGED <<data, doc, handle>>

\* The process dies between two of these steps and is started again.  Its
\* temporary file stays behind with whatever it holds.
ProcessDies(p) ==
    LET Dead(w) == Pid[w] = p
    IN  /\ \E w \in Writers : Dead(w) /\ step[w] # "idle"
        /\ step' = [w \in Writers |-> IF Dead(w) THEN "idle" ELSE step[w]]
        /\ handle' = [w \in Writers |-> IF Dead(w) THEN NoFile ELSE handle[w]]
        /\ UNCHANGED <<path, tmp, data, doc>>

WriteNext ==
    \/ \E w \in Writers : (\E d \in Docs : Open(w, d)) \/ Write(w) \/ Rename(w)
    \/ \E p \in Pids : ProcessDies(p)

WriteSpec == WriteInit /\ [][WriteNext]_writeVars

-----------------------------------------------------------------------------
\* Type invariant.
WriteTypeOK ==
    /\ path \in Files
    /\ tmp \in [Pids -> Files \cup {NoFile}]
    /\ data \in [Files -> Docs \cup {Empty, Torn}]
    /\ step \in [Writers -> {"idle", "write", "rename"}]
    /\ doc \in [Writers -> Docs]
    /\ handle \in [Writers -> Files \cup {NoFile}]

\* The path always holds one whole document: no reader (the watcher, a rollback,
\* a restart) meets a half-written or mixed file, and neither does the next start
\* after a crash at any point.
NeverPartial == data[path] \in Docs

\* The path changes only by a rename, and what the rename publishes is the whole
\* document its writer was called with, not one another writer left behind.
PublishesOwnDocument ==
    [][path' # path =>
         \E w \in Writers :
            /\ step[w] = "rename" /\ step'[w] = "idle"
            /\ data'[path'] = doc[w]]_writeVars
=============================================================================
