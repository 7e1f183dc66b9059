----------------------------- MODULE StoreProofs -----------------------------
(***************************************************************************)
(* What is kept in files: atomic_write_json, and the two stores of the     *)
(* admin tier that write through it (identity_store.py:70,                 *)
(* system_store.py:61).                                                    *)
(*                                                                         *)
(* atomic_write_json publishes only whole documents, for any number of     *)
(* writers, processes, documents and files, provided no two writers share  *)
(* a process id.                                                           *)
(*                                                                         *)
(* AdminApi, for any threads, which share the temporary names, and any     *)
(* fields, values and settings: BootIdFixed is inductive once it is        *)
(* extended to what the requests and the temporary file carry (Carried)    *)
(* and to the file (Disk); Traceable once an identity that has a name is   *)
(* known to keep it (NamedKept), also in the temporary file (TmpNamed);    *)
(* RecordedWasApplied once it covers the temporary file and the requests   *)
(* that have applied and not recorded (Effected).                          *)
(***************************************************************************)
EXTENDS AtomicWrite, AdminApi, TLAPS

\* Every writer runs in a process of its own.
DistinctPids == \A v, w \in Writers : Pid[v] = Pid[w] => v = w

\* Which file each writer is working on: its own temporary file, open while it
\* writes, complete once it is about to rename it, and never the published one.
SeparateNames ==
    /\ data[path] \in Docs
    /\ \A p \in Pids : tmp[p] # path
    /\ \A p, q \in Pids : tmp[p] = tmp[q] /\ tmp[p] # NoFile => p = q

InOwnFile(w) ==
    /\ step[w] = "write" =>
         tmp[Pid[w]] # NoFile /\ handle[w] = tmp[Pid[w]] /\ data[tmp[Pid[w]]] = Empty
    /\ step[w] # "write" => handle[w] = NoFile
    /\ step[w] = "rename" => tmp[Pid[w]] # NoFile /\ data[tmp[Pid[w]]] = doc[w]

OwnFile == SeparateNames /\ \A w \in Writers : InOwnFile(w)

FileIInv == WriteTypeOK /\ OwnFile

LEMMA FileInit == WriteInit => FileIInv
  BY AtomicWriteAssumption DEF WriteInit, FileIInv, WriteTypeOK, OwnFile, SeparateNames, InOwnFile

LEMMA OpenKept ==
    ASSUME DistinctPids, FileIInv, NEW w \in Writers, NEW d \in Docs, Open(w, d)
    PROVE  FileIInv'
<1> USE AtomicWriteAssumption DEF FileIInv, WriteTypeOK, DistinctPids, TmpName
<1>1. PICK f \in Files :
        /\ IF tmp[Pid[w]] = NoFile THEN Unused(f) ELSE f = tmp[Pid[w]]
        /\ tmp' = [tmp EXCEPT ![Pid[w]] = f]
        /\ data' = [data EXCEPT ![f] = Empty]
        /\ handle' = [handle EXCEPT ![w] = f]
  BY DEF Open
<1>2. WriteTypeOK'
  BY <1>1 DEF Open
<1>3. f # path /\ \A p \in Pids : p # Pid[w] => tmp[p] # f
  BY <1>1 DEF Unused, OwnFile, SeparateNames
<1>4. SeparateNames'
  BY <1>1, <1>3 DEF Open, OwnFile, SeparateNames
<1>5. ASSUME NEW v \in Writers
      PROVE  InOwnFile(v)'
  <2>1. CASE v = w
    BY <1>1, <2>1 DEF Open, OwnFile, InOwnFile
  <2>2. CASE v # w
    <3>1. Pid[v] # Pid[w] /\ tmp'[Pid[v]] = tmp[Pid[v]] /\ tmp[Pid[v]] # f
      BY <1>1, <1>3, <2>2
    <3>2. /\ step'[v] = step[v] /\ doc'[v] = doc[v] /\ handle'[v] = handle[v]
          /\ tmp[Pid[v]] # NoFile => data'[tmp[Pid[v]]] = data[tmp[Pid[v]]]
      BY <1>1, <2>2, <3>1 DEF Open
    <3> QED BY <3>1, <3>2 DEF OwnFile, InOwnFile
  <2> QED BY <2>1, <2>2
<1> QED BY <1>2, <1>4, <1>5 DEF OwnFile

LEMMA WriteKept ==
    ASSUME DistinctPids, FileIInv, NEW w \in Writers, Write(w)
    PROVE  FileIInv' /\ data'[path'] = data[path]
<1> USE AtomicWriteAssumption DEF FileIInv, WriteTypeOK, DistinctPids
<1>1. tmp[Pid[w]] \in Files /\ tmp[Pid[w]] # path /\ handle[w] = tmp[Pid[w]]
  BY DEF Write, OwnFile, SeparateNames, InOwnFile
<1>2. data' = [data EXCEPT ![tmp[Pid[w]]] = doc[w]]
  BY <1>1 DEF Write, OwnFile, InOwnFile
<1>3. WriteTypeOK'
  BY <1>1, <1>2 DEF Write
<1>4. SeparateNames'
  BY <1>1, <1>2 DEF Write, OwnFile, SeparateNames
<1>5. ASSUME NEW v \in Writers
      PROVE  InOwnFile(v)'
  <2>1. CASE v = w
    BY <1>1, <1>2, <2>1 DEF Write, OwnFile, InOwnFile
  <2>2. CASE v # w
    <3>1. tmp[Pid[v]] # NoFile => tmp[Pid[v]] # tmp[Pid[w]]
      BY <2>2 DEF OwnFile, SeparateNames
    <3> QED BY <1>1, <1>2, <2>2, <3>1 DEF Write, OwnFile, InOwnFile
  <2> QED BY <2>1, <2>2
<1> QED BY <1>1, <1>2, <1>3, <1>4, <1>5 DEF Write, OwnFile

LEMMA RenameKept ==
    ASSUME DistinctPids, FileIInv, NEW w \in Writers, Rename(w)
    PROVE  /\ FileIInv'
           /\ step[w] = "rename" /\ step'[w] = "idle" /\ data'[path'] = doc[w]
<1> USE AtomicWriteAssumption DEF FileIInv, WriteTypeOK, DistinctPids, TmpName
<1>0. InOwnFile(w) /\ step[w] = "rename" /\ Pid[w] \in Pids
  BY DEF Rename, OwnFile
<1>1. /\ tmp[Pid[w]] \in Files
      /\ path' = tmp[Pid[w]]
      /\ tmp' = [tmp EXCEPT ![Pid[w]] = NoFile]
      /\ data[tmp[Pid[w]]] = doc[w]
  BY <1>0 DEF Rename, InOwnFile
<1>2. WriteTypeOK'
  BY <1>1 DEF Rename
<1>3. SeparateNames'
  BY <1>1 DEF Rename, OwnFile, SeparateNames
<1>4. ASSUME NEW v \in Writers
      PROVE  InOwnFile(v)'
  <2>1. CASE v = w
    BY <1>1, <2>1 DEF Rename, OwnFile, InOwnFile
  <2>2. CASE v # w
    BY <1>1, <2>2 DEF Rename, OwnFile, InOwnFile
  <2> QED BY <2>1, <2>2
<1> QED BY <1>1, <1>2, <1>3, <1>4 DEF Rename, OwnFile

LEMMA DiesKept ==
    ASSUME FileIInv, NEW p \in Pids, ProcessDies(p)
    PROVE  FileIInv'
  BY AtomicWriteAssumption DEF ProcessDies, FileIInv, WriteTypeOK, OwnFile, SeparateNames, InOwnFile

\* A step keeps the invariant, and moves the path only by publishing the whole
\* document of the writer that takes it.
LEMMA StepKept ==
    ASSUME DistinctPids, FileIInv, [WriteNext]_writeVars
    PROVE  /\ FileIInv'
           /\ path' # path =>
                \E w \in Writers :
                   step[w] = "rename" /\ step'[w] = "idle" /\ data'[path'] = doc[w]
<1>1. ASSUME NEW w \in Writers, NEW d \in Docs, Open(w, d)
      PROVE  FileIInv' /\ path' = path
  BY <1>1, OpenKept DEF Open
<1>2. ASSUME NEW w \in Writers, Write(w)
      PROVE  FileIInv' /\ path' = path
  BY <1>2, WriteKept DEF Write
<1>3. ASSUME NEW w \in Writers, Rename(w)
      PROVE  FileIInv' /\ step[w] = "rename" /\ step'[w] = "idle" /\ data'[path'] = doc[w]
  BY <1>3, RenameKept
<1>4. ASSUME NEW p \in Pids, ProcessDies(p)
      PROVE  FileIInv' /\ path' = path
  BY <1>4, DiesKept DEF ProcessDies
<1>5. ASSUME UNCHANGED writeVars
      PROVE  FileIInv' /\ path' = path
  BY <1>5 DEF writeVars, FileIInv, WriteTypeOK, OwnFile, SeparateNames, InOwnFile
<1> QED BY <1>1, <1>2, <1>3, <1>4, <1>5 DEF WriteNext

LEMMA FileInvariance ==
    ASSUME DistinctPids
    PROVE  WriteSpec => []FileIInv
<1>1. FileIInv /\ [WriteNext]_writeVars => FileIInv'
  BY DistinctPids, StepKept
<1> QED BY FileInit, <1>1, PTL DEF WriteSpec

\* Type correctness of atomic_write_json's bookkeeping.
THEOREM WriteTypeCorrect ==
    ASSUME DistinctPids
    PROVE  WriteSpec => []WriteTypeOK
<1>1. FileIInv => WriteTypeOK
  BY DEF FileIInv
<1> QED BY DistinctPids, FileInvariance, <1>1, PTL

\* config_store.py promises "never a partial path": it holds, crashes included,
\* when the writers are single-threaded processes.
THEOREM WholeDocuments ==
    ASSUME DistinctPids
    PROVE  WriteSpec => []NeverPartial
<1>1. FileIInv => NeverPartial
  BY DEF FileIInv, OwnFile, SeparateNames, NeverPartial
<1> QED BY DistinctPids, FileInvariance, <1>1, PTL

\* ... and each rename publishes the document its caller asked for.
THEOREM OwnDocuments ==
    ASSUME DistinctPids
    PROVE  WriteSpec => PublishesOwnDocument
<1>1. FileIInv /\ [WriteNext]_writeVars =>
        [path' # path =>
           \E w \in Writers :
              /\ step[w] = "rename" /\ step'[w] = "idle"
              /\ data'[path'] = doc[w]]_writeVars
  BY DistinctPids, StepKept
<1>2. WriteSpec => []FileIInv
  BY DistinctPids, FileInvariance
<1> QED BY <1>1, <1>2, PTL DEF WriteSpec, PublishesOwnDocument

-----------------------------------------------------------------------------
(***************************************************************************)
(* The stores of the admin tier.  First what a step of atomic_write_json   *)
(* does to a file that several threads have open: each leaves documents    *)
(* where they were, or one that a thread was called with, or none.         *)
(***************************************************************************)
Unreadable == {Absent, Partial, Mixed}

LEMMA SavedFile ==
    ASSUME NEW D, NEW d \in D \cup Unreadable
    PROVE  /\ Saved(d) \in FileOf(D) /\ Saved(d).path = d /\ Saved(d).tmp = Absent
           /\ \A h \in Handlers : Saved(d).open[h] = "no"
  BY DEF Saved, FileOf, Unreadable

LEMMA OpenedFile ==
    ASSUME NEW D, NEW f \in FileOf(D), NEW h \in Handlers
    PROVE  /\ Opened(f, h) \in FileOf(D)
           /\ Opened(f, h).path = f.path /\ Opened(f, h).tmp = Partial
           /\ Opened(f, h).open = [f.open EXCEPT ![h] = "tmp"]
<1>1. Opened(f, h) = [path |-> f.path, tmp |-> Partial, open |-> [f.open EXCEPT ![h] = "tmp"]]
  <2>1. PICK g : g = [f EXCEPT !.open[h] = "tmp", !.tmp = Partial]
    OBVIOUS
  <2>2. g = [path |-> f.path, tmp |-> Partial, open |-> [f.open EXCEPT ![h] = "tmp"]]
    BY <2>1 DEF FileOf
  <2> QED BY <2>1, <2>2 DEF Opened
<1> QED BY <1>1 DEF FileOf

LEMMA WrittenFile ==
    ASSUME NEW D, NEW f \in FileOf(D), NEW h \in Handlers, NEW d \in D, NEW g \in Written(f, h, d)
    PROVE  /\ g \in FileOf(D)
           /\ g.path \in {f.path, d, Mixed} /\ g.tmp \in {f.tmp, d, Mixed}
           /\ g.open = [f.open EXCEPT ![h] = "no"]
<1>1. PICK left \in Over(IF f.open[h] = "path" THEN f.path ELSE f.tmp, d) :
        g = [f EXCEPT !.open[h] = "no", !.tmp = IF f.open[h] = "tmp" THEN left ELSE f.tmp,
                                        !.path = IF f.open[h] = "path" THEN left ELSE f.path]
  BY DEF Written
<1>2. left \in {d, Mixed}
  BY DEF Over
<1>3. g = [path |-> IF f.open[h] = "path" THEN left ELSE f.path,
           tmp |-> IF f.open[h] = "tmp" THEN left ELSE f.tmp,
           open |-> [f.open EXCEPT ![h] = "no"]]
  BY <1>1 DEF FileOf
<1> QED BY <1>2, <1>3 DEF FileOf

LEMMA RenamedFile ==
    ASSUME NEW D, NEW f \in FileOf(D)
    PROVE  /\ Renamed(f) \in FileOf(D) /\ Renamed(f).path = f.tmp /\ Renamed(f).tmp = Absent
           /\ \A h \in Handlers : Renamed(f).open[h] = "no" <=> f.open[h] = "no"
  BY DEF Renamed, FileOf

\* A unit that is provisioned, and i has its boot_id.
Known(i) == lived # {} /\ \A j \in lived : j.boot_id = i.boot_id

\* The identity in the file is one that has been in the file, and there was none before
\* the first boot was over.
Disk ==
    /\ idFile.path \in Identity => idFile.path \in lived
    /\ idFile.path = Absent \/ process = "booting" => lived = {}

\* What a request is about to write has the boot_id of the unit, and so has what another
\* one is about to rename.
Carried ==
    /\ \A h \in Handlers : renewed[h] # None => Known(renewed[h])
    /\ idFile.tmp \in Identity => Known(idFile.tmp)

TmpNamed == idFile.tmp \in Identity => Named(idFile.tmp)

\* What a request is about to record was in force.
Effected ==
    /\ sysFile.path \in applied \cup {Partial, Mixed} /\ sysFile.tmp \in applied \cup Unreadable
    /\ \A h \in Handlers :
         pc[h] \in {"open system", "write system", "rename system"} => asked[h] \in applied

IInv == TypeOK /\ Disk /\ Carried /\ BootIdFixed /\ TmpNamed /\ Traceable /\ Effected

-----------------------------------------------------------------------------
\* The initial states.
LEMMA InitIInv == Init => IInv
<1> SUFFICES ASSUME Init PROVE IInv
  OBVIOUS
<1>1. /\ idFile \in FileOf(Identity) /\ idFile = Saved(idFile.path) /\ idFile.path = Absent
      /\ idFile.tmp = Absent /\ \A h \in Handlers : idFile.open[h] = "no"
  BY SavedFile DEF Init, IdentityInit, Unreadable
<1>2. /\ sysFile \in FileOf(Valid) /\ sysFile.path = Factory /\ sysFile.tmp = Absent
      /\ \A h \in Handlers : sysFile.open[h] = "no"
  BY SavedFile, SystemAssumption DEF Init, SystemInit
<1>3. Factory # Absent /\ Absent \notin Identity
  BY SystemAssumption, IdentityAssumption
<1>4. TypeOK
  BY <1>1, <1>2, <1>3, IdentityAssumption, SystemAssumption
  DEF Init, IdentityInit, SystemInit, TypeOK, IdentityTypeOK, SystemTypeOK, Editing
<1>5. Effected
  BY <1>2 DEF Init, SystemInit, Effected, Unreadable
<1>6. Disk /\ Carried /\ BootIdFixed /\ TmpNamed /\ Traceable
  BY <1>1, <1>3 DEF Init, IdentityInit, Disk, Carried, BootIdFixed, TmpNamed, Traceable
<1> QED BY <1>4, <1>5, <1>6 DEF IInv

\* An identity built from another with other fields is an identity with its boot_id.
LEMMA Renewing ==
  ASSUME NEW i \in Identity, NEW updates \in Updates,
         NEW n, n = [i EXCEPT !.fields =
            [f \in Fields |-> IF f \in DOMAIN updates THEN updates[f] ELSE @[f]]]
  PROVE  n \in Identity /\ n.boot_id = i.boot_id
  <1>1. PICK S \in SUBSET Fields : updates \in [S -> Values]
    BY DEF Updates
  <1>2. [f \in Fields |-> IF f \in DOMAIN updates THEN updates[f] ELSE i.fields[f]]
          \in [Fields -> Values]
    BY <1>1 DEF Identity
  <1> QED  BY <1>2 DEF Identity

\* What a request to the identity store reads and renews is an identity.
LEMMA PutReads ==
  ASSUME TypeOK, NEW h \in Handlers, NEW updates \in Updates, NEW b, NEW c,
         PutIdentity(h, updates, b, c)
  PROVE  \E n \in Identity :
         /\ idFile.path \in Identity /\ pc[h] = "idle" /\ n.boot_id = idFile.path.boot_id
         /\ current' = [current EXCEPT ![h] = idFile.path]
         /\ renewed' = [renewed EXCEPT ![h] = n]
  <1>1. idFile.path \in Identity /\ pc[h] = "idle"
    BY DEF PutIdentity, MayStart, At
  <1> DEFINE n == [idFile.path EXCEPT !.fields =
                 [f \in Fields |-> IF f \in DOMAIN updates THEN updates[f] ELSE @[f]]]
  <1>2. renewed' = [renewed EXCEPT ![h] = n] /\ current' = [current EXCEPT ![h] = idFile.path]
    BY DEF PutIdentity
  <1>3. n \in Identity /\ n.boot_id = idFile.path.boot_id
    BY <1>1, Renewing
  <1> HIDE DEF n
  <1> QED  BY <1>1, <1>2, <1>3

-----------------------------------------------------------------------------
Labels == {"idle", "open identity", "write identity", "rename identity", "file event",
           "apply", "open system", "write system", "rename system"}

\* A step of one handler h in the identity store: what is to be shown of its new state.
LEMMA HandlerType ==
  ASSUME TypeOK, process = "up", UNCHANGED <<process, ident, systemVars>>,
         NEW h \in Handlers, NEW label \in Labels, Goto(h, label),
         NEW c \in Identity \cup {None}, current' = [current EXCEPT ![h] = c],
         NEW n \in Identity \cup {None}, renewed' = [renewed EXCEPT ![h] = n],
         label \in {"open identity", "write identity", "rename identity", "file event"} <=> c # None,
         label \in {"open identity", "write identity", "rename identity", "file event"} <=> n # None,
         asked[h] = NoSystem, label \notin {"apply", "open system", "write system", "rename system"},
         idFile' \in FileOf(Identity), idFile'.path # Absent,
         idFile'.open[h] # "no" <=> label = "write identity",
         \A g \in Handlers \ {h} : idFile'.open[g] # "no" <=> idFile.open[g] # "no",
         named' \subseteq Identity, lived' \subseteq Identity, cut' \subseteq Identity
  PROVE  TypeOK'
<1>0. /\ pc \in [Handlers -> Labels] /\ pc' = [pc EXCEPT ![h] = label]
      /\ current \in [Handlers -> Identity \cup {None}]
      /\ renewed \in [Handlers -> Identity \cup {None}]
  BY DEF TypeOK, IdentityTypeOK, Goto, Labels
<1>1. /\ pc' \in [Handlers -> Labels]
      /\ current' \in [Handlers -> Identity \cup {None}]
      /\ renewed' \in [Handlers -> Identity \cup {None}]
  BY <1>0
<1>2. pc'[h] = label /\ current'[h] = c /\ renewed'[h] = n
  BY <1>0
<1>3. \A g \in Handlers \ {h} :
        pc'[g] = pc[g] /\ current'[g] = current[g] /\ renewed'[g] = renewed[g]
  BY <1>0
<1>4. ASSUME NEW g \in Handlers
      PROVE  /\ Editing(g)' <=> current'[g] # None
             /\ Editing(g)' <=> renewed'[g] # None
             /\ idFile'.open[g] # "no" <=> pc'[g] = "write identity"
  <2>1. CASE g = h
    BY <1>2, <2>1 DEF Editing
  <2>2. CASE g # h
    BY <1>3, <2>2 DEF Editing, TypeOK, IdentityTypeOK
  <2> QED  BY <2>1, <2>2
<1>5. IdentityTypeOK'
  BY <1>1, <1>4 DEF TypeOK, IdentityTypeOK
<1>6. SystemTypeOK'
  <2>1. ASSUME NEW g \in Handlers
        PROVE  /\ pc'[g] \in {"apply", "open system", "write system", "rename system"}
                    <=> asked[g] # NoSystem
               /\ sysFile.open[g] # "no" <=> pc'[g] = "write system"
    BY <1>2, <1>3 DEF TypeOK, SystemTypeOK
  <2> QED BY <2>1 DEF TypeOK, SystemTypeOK, systemVars
<1> QED BY <1>1, <1>5, <1>6 DEF TypeOK, Labels

\* Every action of the identity store preserves the type invariant.
LEMMA IdentityType ==
  ASSUME TypeOK, IdentityNext, UNCHANGED systemVars
  PROVE  TypeOK'
  <1>0. /\ idFile \in FileOf(Identity) /\ Absent \notin {Partial, Mixed}
        /\ \A i \in Identity : i # None /\ i \notin Unreadable
        /\ named \subseteq Identity /\ lived \subseteq Identity /\ cut \subseteq Identity
        /\ current \in [Handlers -> Identity \cup {None}]
        /\ renewed \in [Handlers -> Identity \cup {None}]
    BY IdentityAssumption, AdminAssumption DEF TypeOK, IdentityTypeOK, Unreadable
  <1>a. ASSUME NEW h \in Handlers, pc[h] \in {"open identity", "write identity", "rename identity", "file event"}
        PROVE  /\ renewed[h] \in Identity /\ asked[h] = NoSystem
               /\ UNCHANGED <<current, renewed>> =>
                    \E c \in Identity, n \in Identity :
                       current' = [current EXCEPT ![h] = c] /\ renewed' = [renewed EXCEPT ![h] = n]
               /\ idFile.open[h] # "no" <=> pc[h] = "write identity"
    <2>1. /\ current[h] \in Identity /\ renewed[h] \in Identity /\ asked[h] = NoSystem
          /\ idFile.open[h] # "no" <=> pc[h] = "write identity"
      BY <1>0, <1>a DEF TypeOK, IdentityTypeOK, SystemTypeOK, Editing
    <2>2. /\ current = [current EXCEPT ![h] = current[h]]
          /\ renewed = [renewed EXCEPT ![h] = renewed[h]]
      BY <1>0
    <2> QED  BY <2>1, <2>2
  <1>1. ASSUME NEW defaults \in [Fields -> Values], NEW id \in BootIds,
               Provision(defaults, id)
        PROVE  TypeOK'
    <2>1. [fields |-> defaults, boot_id |-> id] \in Identity
      BY DEF Identity
    <2>2. /\ Saved(Partial) \in FileOf(Identity) /\ Saved(Partial).path = Partial
          /\ \A h \in Handlers : Saved(Partial).open[h] = "no"
      BY SavedFile DEF Unreadable
    <2> QED  BY <1>0, <1>1, <2>1, <2>2
         DEF Provision, TypeOK, IdentityTypeOK, SystemTypeOK, Editing, systemVars
  <1>2. CASE Provisioned
    <2>1. ident \in Identity /\ ident # Absent
      BY <1>0, <1>2 DEF Provisioned, TypeOK, IdentityTypeOK, Unreadable
    <2>2. /\ Saved(ident) \in FileOf(Identity) /\ Saved(ident).path = ident
          /\ \A h \in Handlers : Saved(ident).open[h] = "no"
      BY <2>1, SavedFile
    <2> QED  BY <1>0, <1>2, <2>1, <2>2
         DEF Provisioned, TypeOK, IdentityTypeOK, SystemTypeOK, Editing, systemVars
  <1>3. CASE LoadIdentity
    BY <1>0, <1>3 DEF LoadIdentity, TypeOK, IdentityTypeOK, SystemTypeOK, Editing, Unreadable, systemVars
  <1>4. ASSUME NEW h \in Handlers, NEW updates \in Updates, NEW b, NEW c,
               PutIdentity(h, updates, b, c)
        PROVE  TypeOK'
    <2>1. PICK n \in Identity :
            /\ idFile.path \in Identity /\ pc[h] = "idle"
            /\ current' = [current EXCEPT ![h] = idFile.path]
            /\ renewed' = [renewed EXCEPT ![h] = n]
      BY <1>4, PutReads
    <2>2. /\ process = "up" /\ Goto(h, "open identity")
          /\ UNCHANGED <<process, idFile, ident, named, lived, cut>>
      BY <1>4 DEF PutIdentity, MayStart, At
    <2>3. asked[h] = NoSystem /\ idFile.open[h] = "no"
      BY <2>1 DEF TypeOK, SystemTypeOK, IdentityTypeOK
    <2>4. /\ "open identity" \in Labels /\ idFile \in FileOf(Identity)
          /\ idFile'.open[h] # "no" <=> "open identity" = "write identity"
          /\ \A g \in Handlers \ {h} : idFile'.open[g] # "no" <=> idFile.open[g] # "no"
          /\ idFile.path # None /\ n # None /\ idFile'.path # Absent /\ idFile' \in FileOf(Identity)
      BY <1>0, <2>1, <2>2, <2>3 DEF Labels, Unreadable
    <2>5. /\ named' \subseteq Identity /\ lived' \subseteq Identity /\ cut' \subseteq Identity
      BY <1>0, <2>2
    <2> QED  BY <2>1, <2>2, <2>3, <2>4, <2>5, HandlerType
  <1>5. ASSUME NEW h \in Handlers, OpenIdentity(h)
        PROVE  TypeOK'
    <2>1. /\ process = "up" /\ pc[h] = "open identity" /\ Goto(h, "write identity")
          /\ UNCHANGED <<process, ident, named, lived, cut>> /\ idFile' = Opened(idFile, h)
      BY <1>5 DEF OpenIdentity, At
    <2>a. /\ Opened(idFile, h) \in FileOf(Identity) /\ Opened(idFile, h).path = idFile.path
          /\ Opened(idFile, h).open = [idFile.open EXCEPT ![h] = "tmp"]
      <3>1. idFile \in FileOf(Identity)
        BY <1>0
      <3> QED  BY <3>1, OpenedFile
    <2>2. /\ idFile' \in FileOf(Identity) /\ idFile'.path = idFile.path
          /\ idFile'.open = [idFile.open EXCEPT ![h] = "tmp"]
      BY <2>1, <2>a
    <2>b. idFile.open \in [Handlers -> {"no", "tmp", "path", "gone"}]
      BY <1>0 DEF FileOf
    <2>c. idFile.path # Absent
      BY <2>1 DEF TypeOK, IdentityTypeOK
    <2>3. /\ idFile'.open[h] # "no" /\ idFile'.path # Absent
          /\ \A g \in Handlers \ {h} : idFile'.open[g] # "no" <=> idFile.open[g] # "no"
      BY <2>2, <2>b, <2>c
    <2>4. PICK c \in Identity, n \in Identity :
            current' = [current EXCEPT ![h] = c] /\ renewed' = [renewed EXCEPT ![h] = n]
      BY <1>a, <1>5, <2>1 DEF OpenIdentity
    <2>5. asked[h] = NoSystem
      BY <1>a, <2>1
    <2> QED  BY <1>0, <2>1, <2>2, <2>3, <2>4, <2>5, HandlerType DEF Labels
  <1>6. ASSUME NEW h \in Handlers, WriteIdentity(h)
        PROVE  TypeOK'
    <2>1. /\ process = "up" /\ pc[h] = "write identity" /\ Goto(h, "rename identity")
          /\ UNCHANGED <<process, ident, named, cut>>
          /\ idFile' \in Written(idFile, h, renewed[h]) /\ lived' \subseteq Identity
      BY <1>0, <1>6 DEF WriteIdentity, At, Lives
    <2>2. /\ idFile' \in FileOf(Identity) /\ idFile'.path \in {idFile.path, renewed[h], Mixed}
          /\ idFile'.open = [idFile.open EXCEPT ![h] = "no"]
      <3>1. renewed[h] \in Identity /\ idFile \in FileOf(Identity)
        BY <1>0, <1>a, <2>1
      <3>2. PICK d, g : d = renewed[h] /\ g = idFile'
        OBVIOUS
      <3>3. g \in Written(idFile, h, d)
        BY <2>1, <3>2
      <3>4. /\ g \in FileOf(Identity) /\ g.path \in {idFile.path, d, Mixed}
            /\ g.open = [idFile.open EXCEPT ![h] = "no"]
        BY <3>1, <3>2, <3>3, WrittenFile
      <3> QED  BY <3>2, <3>4
    <2>3. /\ idFile'.open[h] = "no" /\ idFile'.path # Absent
          /\ \A g \in Handlers \ {h} : idFile'.open[g] # "no" <=> idFile.open[g] # "no"
      BY <1>0, <1>a, <2>1, <2>2 DEF TypeOK, IdentityTypeOK, FileOf, Unreadable
    <2>4. PICK c \in Identity, n \in Identity :
            current' = [current EXCEPT ![h] = c] /\ renewed' = [renewed EXCEPT ![h] = n]
      BY <1>a, <1>6, <2>1 DEF WriteIdentity
    <2>5. asked[h] = NoSystem
      BY <1>a, <2>1
    <2>6. /\ "rename identity" \in Labels /\ c # None /\ n # None
          /\ idFile'.open[h] # "no" <=> "rename identity" = "write identity"
          /\ named' \subseteq Identity /\ cut' \subseteq Identity
      BY <1>0, <2>1, <2>3 DEF Labels
    <2> QED  BY <2>1, <2>2, <2>3, <2>4, <2>5, <2>6, HandlerType
  <1>7. ASSUME NEW h \in Handlers, RenameIdentity(h)
        PROVE  TypeOK'
    <2>1. /\ process = "up" /\ pc[h] = "rename identity" /\ Goto(h, "file event")
          /\ UNCHANGED <<process, ident, named, cut>>
          /\ idFile' = Renamed(idFile) /\ idFile.tmp # Absent /\ lived' \subseteq Identity
      BY <1>0, <1>7 DEF RenameIdentity, At, Lives
    <2>2. /\ idFile' \in FileOf(Identity) /\ idFile'.path # Absent
          /\ \A g \in Handlers : idFile'.open[g] # "no" <=> idFile.open[g] # "no"
      BY <1>0, <2>1, RenamedFile
    <2>4. PICK c \in Identity, n \in Identity :
            current' = [current EXCEPT ![h] = c] /\ renewed' = [renewed EXCEPT ![h] = n]
      BY <1>a, <1>7, <2>1 DEF RenameIdentity
    <2>5. asked[h] = NoSystem /\ idFile'.open[h] = "no"
      BY <1>a, <2>1, <2>2
    <2> QED  BY <1>0, <2>1, <2>2, <2>4, <2>5, HandlerType DEF Labels
  <1>8. ASSUME NEW h \in Handlers,
               RenameIdentityRaises(h) \/ FileEvent(h) \/ FileEventRaises(h)
        PROVE  TypeOK'
    <2>1. /\ process = "up" /\ pc[h] \in {"rename identity", "file event"} /\ Goto(h, "idle")
          /\ UNCHANGED <<process, idFile, ident, lived>>
          /\ current' = [current EXCEPT ![h] = None] /\ renewed' = [renewed EXCEPT ![h] = None]
          /\ named' \subseteq named \cup {renewed[h]} /\ cut' \subseteq cut \cup {renewed[h]}
      BY <1>8 DEF RenameIdentityRaises, FileEvent, FileEventRaises, At, Answer
    <2>2. idFile'.path # Absent /\ idFile'.open[h] = "no"
      BY <1>a, <2>1 DEF TypeOK, IdentityTypeOK
    <2>3. named' \subseteq Identity /\ cut' \subseteq Identity
      BY <1>0, <1>a, <2>1
    <2> QED  BY <1>0, <1>a, <2>1, <2>2, <2>3, HandlerType DEF Labels
  <1> QED  BY <1>1, <1>2, <1>3, <1>4, <1>5, <1>6, <1>7, <1>8 DEF IdentityNext

\* Every action of the system store preserves the type invariant.
LEMMA SystemType ==
  ASSUME TypeOK, SystemNext, UNCHANGED identityVars
  PROVE  TypeOK'
  <1> USE DEF At, Goto
  <1>0. /\ sysFile \in FileOf(Valid) /\ sysFile.path # Absent /\ Absent \notin {Partial, Mixed}
        /\ \A s \in Valid : s # NoSystem /\ s \notin Unreadable
        /\ pc \in [Handlers -> Labels] /\ asked \in [Handlers -> Valid \cup {NoSystem}]
    BY SystemAssumption, AdminAssumption DEF TypeOK, SystemTypeOK, Unreadable, Labels
  <1>1. PICK h \in Handlers :
           \/ \E s \in Systems : PutSystem(h, s)
           \/ Applied(h) \/ NotApplied(h) \/ OpenSystem(h) \/ WriteSystem(h) \/ RenameSystem(h)
    BY DEF SystemNext
  <1>2. /\ process = "up" /\ UNCHANGED process
        /\ pc[h] \in {"idle", "apply", "open system", "write system", "rename system"}
    BY <1>1 DEF PutSystem, MayStart, Applied, NotApplied, OpenSystem, WriteSystem, RenameSystem
  <1>3. \E label \in {"idle", "apply", "open system", "write system", "rename system"} :
           /\ pc' = [pc EXCEPT ![h] = label]
           /\ \E a \in Valid \cup {NoSystem} :
                asked' = [asked EXCEPT ![h] = a] /\ (label = "idle" <=> a = NoSystem)
           /\ sysFile' \in FileOf(Valid) /\ sysFile'.path # Absent
           /\ sysFile'.open[h] # "no" <=> label = "write system"
           /\ \A g \in Handlers \ {h} : sysFile'.open[g] # "no" <=> sysFile.open[g] # "no"
           /\ inForce' \in Valid /\ applied' \subseteq Valid
    <2>0. /\ sysFile.open[h] # "no" <=> pc[h] = "write system"
          /\ pc[h] # "idle" => asked[h] \in Valid
          /\ inForce \in Valid /\ applied \subseteq Valid
      BY <1>0, <1>2 DEF TypeOK, SystemTypeOK
    <2>1. CASE \E s \in Systems : PutSystem(h, s)
      <3>1. PICK s \in Valid : PutSystem(h, s)
        BY <2>1 DEF PutSystem
      <3> QED  BY <1>0, <2>0, <3>1 DEF PutSystem, MayStart
    <2>2. CASE Applied(h)
      <3>1. asked = [asked EXCEPT ![h] = asked[h]]
        BY <1>0
      <3>2. asked' = [asked EXCEPT ![h] = asked[h]]
        BY <2>2, <3>1 DEF Applied
      <3> QED  BY <1>0, <2>0, <2>2, <3>2 DEF Applied
    <2>3. CASE NotApplied(h)
      BY <1>0, <2>0, <2>3 DEF NotApplied, AnswerSystem
    <2>4. CASE OpenSystem(h)
      <3>1. asked = [asked EXCEPT ![h] = asked[h]]
        BY <1>0
      <3>2. asked' = [asked EXCEPT ![h] = asked[h]]
        BY <2>4, <3>1 DEF OpenSystem
      <3>3. /\ sysFile' \in FileOf(Valid) /\ sysFile'.path = sysFile.path
            /\ sysFile'.open = [sysFile.open EXCEPT ![h] = "tmp"]
        BY <1>0, <2>4, OpenedFile DEF OpenSystem
      <3>4. /\ sysFile'.open[h] # "no"
            /\ \A g \in Handlers \ {h} : sysFile'.open[g] = sysFile.open[g]
        BY <1>0, <3>3 DEF FileOf
      <3> QED  BY <1>0, <2>0, <2>4, <3>2, <3>3, <3>4 DEF OpenSystem
    <2>5. CASE WriteSystem(h)
      <3>1. asked = [asked EXCEPT ![h] = asked[h]]
        BY <1>0
      <3>2. asked' = [asked EXCEPT ![h] = asked[h]]
        BY <2>5, <3>1 DEF WriteSystem
      <3>3. PICK d \in Valid, g \in {sysFile'} : d = asked[h] /\ g \in Written(sysFile, h, d)
        BY <2>0, <2>5 DEF WriteSystem
      <3>4. /\ g \in FileOf(Valid) /\ g.path \in {sysFile.path, d, Mixed}
            /\ g.open = [sysFile.open EXCEPT ![h] = "no"]
        BY <1>0, <3>3, WrittenFile
      <3>5. /\ sysFile' \in FileOf(Valid) /\ sysFile'.path # Absent /\ sysFile'.open[h] = "no"
            /\ \A f \in Handlers \ {h} : sysFile'.open[f] = sysFile.open[f]
        BY <1>0, <3>3, <3>4 DEF FileOf, Unreadable
      <3> QED  BY <1>0, <2>0, <2>5, <3>2, <3>5 DEF WriteSystem
    <2>6. CASE RenameSystem(h)
      <3>1. /\ sysFile' \in FileOf(Valid) /\ sysFile'.path # Absent
            /\ \A g \in Handlers : sysFile'.open[g] # "no" <=> sysFile.open[g] # "no"
        BY <1>0, <2>6, RenamedFile DEF RenameSystem
      <3> QED  BY <1>0, <2>0, <2>6, <3>1 DEF RenameSystem, AnswerSystem
    <2> QED  BY <1>1, <2>1, <2>2, <2>3, <2>4, <2>5, <2>6
  <1>4. PICK label \in {"idle", "apply", "open system", "write system", "rename system"},
             a \in Valid \cup {NoSystem} :
           /\ pc' = [pc EXCEPT ![h] = label]
           /\ asked' = [asked EXCEPT ![h] = a] /\ (label = "idle" <=> a = NoSystem)
           /\ sysFile' \in FileOf(Valid) /\ sysFile'.path # Absent
           /\ sysFile'.open[h] # "no" <=> label = "write system"
           /\ \A g \in Handlers \ {h} : sysFile'.open[g] # "no" <=> sysFile.open[g] # "no"
           /\ inForce' \in Valid /\ applied' \subseteq Valid
    BY <1>3
  <1>5. /\ pc' \in [Handlers -> Labels] /\ asked' \in [Handlers -> Valid \cup {NoSystem}]
        /\ pc'[h] = label /\ asked'[h] = a
        /\ \A g \in Handlers \ {h} : pc'[g] = pc[g] /\ asked'[g] = asked[g]
    BY <1>0, <1>4 DEF Labels
  <1>6. SystemTypeOK'
    <2>1. ASSUME NEW g \in Handlers
          PROVE  /\ pc'[g] \in {"apply", "open system", "write system", "rename system"}
                      <=> asked'[g] # NoSystem
                 /\ sysFile'.open[g] # "no" <=> pc'[g] = "write system"
      BY <1>4, <1>5 DEF TypeOK, SystemTypeOK
    <2> QED  BY <1>4, <1>5, <2>1 DEF SystemTypeOK
  <1>7. IdentityTypeOK'
    <2>1. ASSUME NEW g \in Handlers
          PROVE  /\ Editing(g)' <=> current[g] # None
                 /\ Editing(g)' <=> renewed[g] # None
                 /\ idFile.open[g] # "no" <=> pc'[g] = "write identity"
      BY <1>2, <1>4, <1>5 DEF TypeOK, IdentityTypeOK, Editing
    <2> QED  BY <1>2, <2>1 DEF TypeOK, IdentityTypeOK, identityVars
  <1> QED  BY <1>2, <1>5, <1>6, <1>7 DEF TypeOK, Labels

\* So does a crash.
LEMMA CrashType ==
  ASSUME TypeOK, Crash
  PROVE  TypeOK'
  <1>1. cut' \subseteq Identity
    <2>1. \A h \in {g \in Handlers : Unfiled(g)} : renewed[h] \in Identity
      BY DEF TypeOK, IdentityTypeOK, Unfiled, Editing
    <2>2. cut' = cut \cup {renewed[h] : h \in {g \in Handlers : Unfiled(g)}}
      BY DEF Crash, IdentityCrash
    <2>3. cut \subseteq Identity
      BY DEF TypeOK, IdentityTypeOK
    <2> QED  BY ONLY <2>1, <2>2, <2>3
  <1>2. /\ pc' = [h \in Handlers |-> "idle"] /\ process' = "down" /\ ident' = None
        /\ current' = [h \in Handlers |-> None] /\ renewed' = [h \in Handlers |-> None]
        /\ asked' = [h \in Handlers |-> NoSystem]
        /\ idFile' = Saved(idFile.path) /\ sysFile' = Saved(sysFile.path)
        /\ UNCHANGED <<named, lived, inForce, applied>>
    BY DEF Crash, IdentityCrash, SystemCrash
  <1>3. /\ idFile.path \in Identity \cup Unreadable
        /\ sysFile.path \in Valid \cup Unreadable /\ sysFile.path # Absent
    BY DEF TypeOK, IdentityTypeOK, SystemTypeOK, FileOf, Unreadable
  <1>4. /\ idFile' \in FileOf(Identity) /\ idFile'.path = idFile.path
        /\ \A h \in Handlers : idFile'.open[h] = "no"
    BY <1>2, <1>3, SavedFile
  <1>5. /\ sysFile' \in FileOf(Valid) /\ sysFile'.path = sysFile.path
        /\ \A h \in Handlers : sysFile'.open[h] = "no"
    BY <1>2, <1>3, SavedFile
  <1>6. IdentityTypeOK'
    BY <1>1, <1>2, <1>4 DEF TypeOK, IdentityTypeOK, Editing
  <1>7. SystemTypeOK'
    BY <1>2, <1>3, <1>5 DEF TypeOK, SystemTypeOK
  <1> QED  BY <1>2, <1>6, <1>7 DEF TypeOK

-----------------------------------------------------------------------------
\* What an action of the identity store may put in the file, in the temporary file and
\* into a request: what was there, or in the temporary file, or what the request renews.
LEMMA Spreads ==
  ASSUME TypeOK, IdentityNext, process = "up"
  PROVE  /\ process' = "up"
         /\ \/ idFile'.path \in {idFile.path, idFile.tmp, Mixed}
            \/ \E h \in Handlers : Unfiled(h)' /\ renewed'[h] = renewed[h] /\ idFile'.path = renewed[h]
         /\ \/ idFile'.tmp \in {idFile.tmp} \cup Unreadable
            \/ \E h \in Handlers : Unfiled(h)' /\ renewed'[h] = renewed[h] /\ idFile'.tmp = renewed[h]
         /\ \/ lived' = lived \cup ({idFile'.path} \cap Identity)
            \/ lived' = lived /\ idFile'.path = idFile.path
         /\ idFile'.path # Absent
         /\ \A h \in Handlers :
              \/ renewed'[h] \in {None, renewed[h]}
              \/ /\ idFile.path \in Identity /\ renewed'[h] \in Identity
                 /\ renewed'[h].boot_id = idFile.path.boot_id
  <1> USE DEF At, Goto, Answer
  <1>0. /\ idFile \in FileOf(Identity) /\ renewed \in [Handlers -> Identity \cup {None}]
        /\ idFile.path # Absent /\ pc \in [Handlers -> Labels]
        /\ Absent \notin {Partial, Mixed} \cup Identity
        /\ \A h \in Handlers : Editing(h) => renewed[h] \in Identity
    BY AdminAssumption, IdentityAssumption DEF TypeOK, IdentityTypeOK, Labels
  <1>1. PICK h \in Handlers :
           \/ \E updates \in Updates, b \in BootIds \cup {None}, confirm \in BOOLEAN :
                PutIdentity(h, updates, b, confirm)
           \/ OpenIdentity(h) \/ WriteIdentity(h)
           \/ RenameIdentity(h) \/ RenameIdentityRaises(h)
           \/ FileEvent(h) \/ FileEventRaises(h)
    BY DEF IdentityNext, Provision, Provisioned, LoadIdentity
  <1>2. CASE \E updates \in Updates, b \in BootIds \cup {None}, confirm \in BOOLEAN :
                PutIdentity(h, updates, b, confirm)
    <2>1. PICK updates \in Updates, b \in BootIds \cup {None}, confirm \in BOOLEAN :
             PutIdentity(h, updates, b, confirm)
      BY <1>2
    <2>2. PICK n \in Identity :
            /\ idFile.path \in Identity /\ n.boot_id = idFile.path.boot_id
            /\ renewed' = [renewed EXCEPT ![h] = n]
      BY <2>1, PutReads
    <2>3. UNCHANGED <<process, idFile, lived>>
      BY <2>1 DEF PutIdentity
    <2> QED  BY <1>0, <2>2, <2>3
  <1>3. CASE OpenIdentity(h)
    <2>1. idFile'.path = idFile.path /\ idFile'.tmp = Partial
      BY <1>0, <1>3, OpenedFile DEF OpenIdentity
    <2>2. UNCHANGED <<process, lived, renewed>>
      BY <1>3 DEF OpenIdentity
    <2> QED  BY <1>0, <2>1, <2>2 DEF Unreadable
  <1>4. CASE WriteIdentity(h)
    <2>1. renewed[h] \in Identity
      BY <1>0, <1>4 DEF WriteIdentity, Editing
    <2>2. PICK d \in Identity, g \in {idFile'} : d = renewed[h] /\ g \in Written(idFile, h, d)
      BY <1>4, <2>1 DEF WriteIdentity
    <2>3. g.path \in {idFile.path, d, Mixed} /\ g.tmp \in {idFile.tmp, d, Mixed}
      BY <1>0, <2>2, WrittenFile
    <2>4. pc'[h] = "rename identity" /\ renewed' = renewed
      BY <1>0, <1>4 DEF WriteIdentity
    <2>5. Unfiled(h)'
      BY <2>4 DEF Unfiled
    <2>6. /\ idFile'.path \in {idFile.path, renewed[h], Mixed}
          /\ idFile'.tmp \in {idFile.tmp, renewed[h], Mixed}
      BY <2>2, <2>3
    <2>7. process' = "up" /\ lived' = lived \cup ({idFile'.path} \cap Identity)
      BY <1>4 DEF WriteIdentity, Lives
    <2> QED  BY <1>0, <2>1, <2>4, <2>5, <2>6, <2>7 DEF Unreadable
  <1>5. CASE RenameIdentity(h)
    <2>1. idFile'.path = idFile.tmp /\ idFile'.tmp = Absent /\ idFile'.path # Absent
      BY <1>0, <1>5, RenamedFile DEF RenameIdentity
    <2>2. process' = "up" /\ lived' = lived \cup ({idFile'.path} \cap Identity) /\ renewed' = renewed
      BY <1>5 DEF RenameIdentity, Lives
    <2> QED  BY <1>0, <2>1, <2>2 DEF Unreadable
  <1>6. CASE RenameIdentityRaises(h) \/ FileEvent(h) \/ FileEventRaises(h)
    <2>1. UNCHANGED <<process, idFile, lived>> /\ renewed' = [renewed EXCEPT ![h] = None]
      BY <1>6 DEF RenameIdentityRaises, FileEvent, FileEventRaises
    <2> QED  BY <1>0, <2>1
  <1> QED  BY <1>1, <1>2, <1>3, <1>4, <1>5, <1>6

\* A boot_id that is known stays known as the unit goes on with it.
LEMMA KnownKept ==
  ASSUME BootIdFixed, NEW S, lived' = lived \cup S, \A i \in S : Known(i)
  PROVE  BootIdFixed' /\ \A i : Known(i) => Known(i)'
  BY DEF BootIdFixed, Known

\* Disk, Carried and BootIdFixed are preserved together: only the first boot puts a
\* new boot_id in the file, and there is no identity yet then.
LEMMA BootIdStep ==
  ASSUME TypeOK, Disk, Carried, BootIdFixed, IdentityNext
  PROVE  Disk' /\ Carried' /\ BootIdFixed'
  <1>0. /\ \A i \in Identity : i # None /\ i \notin Unreadable
        /\ \A h \in Handlers : renewed[h] \in Identity \cup {None}
        /\ lived \subseteq Identity
    BY IdentityAssumption DEF TypeOK, IdentityTypeOK, Unreadable
  <1>1. ASSUME NEW defaults \in [Fields -> Values], NEW id \in BootIds, Provision(defaults, id)
        PROVE  Disk' /\ Carried' /\ BootIdFixed'
    <2>1. /\ idFile'.path = Partial /\ idFile'.tmp = Absent
          /\ lived = {} /\ lived' = lived /\ renewed' = renewed
      BY <1>1, SavedFile DEF Provision, Disk, Unreadable
    <2> QED  BY <1>0, <2>1 DEF Disk, Carried, BootIdFixed, Known, Unreadable
  <1>2. CASE Provisioned
    <2>1. ident \in Identity /\ lived = {} /\ lived' = {ident} /\ renewed' = renewed /\ process' = "up"
      BY <1>2 DEF Provisioned, TypeOK, IdentityTypeOK, Disk
    <2>2. idFile'.path = ident /\ idFile'.tmp = Absent
      BY <1>2, <2>1, SavedFile DEF Provisioned
    <2> QED  BY <1>0, <2>1, <2>2 DEF Disk, Carried, BootIdFixed, Known, Unreadable
  <1>3. CASE LoadIdentity
    <2>1. UNCHANGED <<idFile, lived, renewed>> /\ process' = "up" /\ idFile.path \in Identity
      BY <1>3 DEF LoadIdentity
    <2> QED  BY <1>0, <2>1 DEF Disk, Carried, BootIdFixed, Known, Unreadable
  <1>4. CASE process = "up"
    <2>1. PICK S : lived' = lived \cup S /\ \A i \in S : i = idFile'.path /\ i \in Identity
      <3>1. CASE lived' = lived \cup ({idFile'.path} \cap Identity)
        <4>1. PICK S : S = {idFile'.path} \cap Identity
          OBVIOUS
        <4> QED  BY <3>1, <4>1
      <3>2. CASE lived' = lived
        <4>1. PICK S : S = {}
          OBVIOUS
        <4>2. lived' = lived \cup S
          BY <3>2, <4>1
        <4>3. \A i \in S : i = idFile'.path /\ i \in Identity
          BY <4>1
        <4> QED  BY <4>2, <4>3
      <3> QED  BY <1>4, <3>1, <3>2, Spreads
    <2>2. idFile.path \in Identity => Known(idFile.path)
      BY DEF Disk, BootIdFixed, Known
    <2>3. \A h \in Handlers : renewed[h] \in Identity => Known(renewed[h])
      BY <1>0 DEF Carried
    <2>4. Mixed \notin Identity
      BY <1>0 DEF Unreadable
    <2>5. idFile'.path \in Identity => Known(idFile'.path)
      BY <1>4, <2>2, <2>3, <2>4, Spreads DEF Carried
    <2>6. BootIdFixed' /\ \A i : Known(i) => Known(i)'
      BY <2>1, <2>5, KnownKept
    <2>7. ASSUME NEW h \in Handlers, NEW i, i = renewed'[h], i # None
          PROVE  Known(i)'
      <3>1. CASE i = renewed[h]
        BY <1>0, <2>3, <2>6, <2>7, <3>1
      <3>2. CASE /\ idFile.path \in Identity /\ i \in Identity
                 /\ i.boot_id = idFile.path.boot_id
        <4>1. Known(i)
          BY <2>2, <3>2 DEF Known
        <4> QED  BY <2>6, <4>1
      <3> QED  BY <1>4, <2>7, <3>1, <3>2, Spreads
    <2>8. ASSUME NEW i \in Identity, i = idFile'.tmp
          PROVE  Known(i)'
      <3>1. i = idFile.tmp \/ \E h \in Handlers : i = renewed[h]
        BY <1>0, <1>4, <2>8, Spreads
      <3>2. Known(i)
        BY <2>3, <2>8, <3>1 DEF Carried
      <3> QED  BY <2>6, <3>2
    <2>9. \A i : Known(i)' <=> lived' # {} /\ \A j \in lived' : j.boot_id = i.boot_id
      BY DEF Known
    <2>10. Carried'
      <3>1. ASSUME NEW h \in Handlers, renewed'[h] # None
            PROVE  lived' # {} /\ \A j \in lived' : j.boot_id = renewed'[h].boot_id
        <4>1. PICK i : i = renewed'[h]
          OBVIOUS
        <4> QED  BY <2>7, <2>9, <3>1, <4>1
      <3>2. ASSUME idFile'.tmp \in Identity
            PROVE  lived' # {} /\ \A j \in lived' : j.boot_id = idFile'.tmp.boot_id
        <4>1. PICK i \in Identity : i = idFile'.tmp
          BY <3>2
        <4> QED  BY <2>8, <2>9, <4>1
      <3> QED  BY <3>1, <3>2 DEF Carried, Known
    <2>11. Disk'
      BY <1>4, Spreads DEF Disk
    <2> QED  BY <2>6, <2>10, <2>11
  <1> QED  BY <1>1, <1>2, <1>3, <1>4
       DEF IdentityNext, PutIdentity, MayStart, OpenIdentity, WriteIdentity, RenameIdentity,
           RenameIdentityRaises, FileEvent, FileEventRaises, At

-----------------------------------------------------------------------------
\* An identity that is named, or about to be, stays so.
LEMMA NamedKept ==
  ASSUME TypeOK, IdentityNext, NEW i, Named(i)
  PROVE  Named(i)'
  <1> USE DEF At, Goto, Answer
  <1>0. pc \in [Handlers -> Labels] /\ renewed \in [Handlers -> Identity \cup {None}]
    BY DEF TypeOK, IdentityTypeOK, Labels
  <1>1. CASE i \in named \/ i \in cut
    BY <1>1 DEF Named, IdentityNext, Provision, Provisioned, LoadIdentity, PutIdentity, OpenIdentity,
                WriteIdentity, RenameIdentity, RenameIdentityRaises, FileEvent, FileEventRaises
  <1>2. ASSUME NEW g \in Handlers, Unfiled(g), renewed[g] = i
        PROVE  Named(i)'
    <2>1. process = "up" /\ pc[g] \in {"rename identity", "file event"}
      BY <1>2 DEF TypeOK, Unfiled
    <2>2. ASSUME pc'[g] \in {"rename identity", "file event"}, renewed'[g] = renewed[g]
          PROVE  Named(i)'
      BY <1>2, <2>2 DEF Named, Unfiled
    <2>3. ASSUME NEW h \in Handlers, h # g, NEW updates \in Updates, NEW b, NEW c,
                 PutIdentity(h, updates, b, c)
          PROVE  Named(i)'
      <3>1. pc'[g] = pc[g] /\ renewed'[g] = renewed[g]
        BY <1>0, <2>3, PutReads DEF PutIdentity
      <3> QED  BY <2>1, <2>2, <3>1
    <2>4. ASSUME NEW h \in Handlers, h # g,
                 \/ OpenIdentity(h) \/ WriteIdentity(h)
                 \/ RenameIdentity(h) \/ RenameIdentityRaises(h)
                 \/ FileEvent(h) \/ FileEventRaises(h)
          PROVE  Named(i)'
      <3>1. pc'[g] = pc[g] /\ renewed'[g] = renewed[g]
        BY <1>0, <2>4 DEF OpenIdentity, WriteIdentity, RenameIdentity, RenameIdentityRaises,
                          FileEvent, FileEventRaises
      <3> QED  BY <2>1, <2>2, <3>1
    <2>5. CASE RenameIdentity(g)
      BY <1>0, <2>2, <2>5 DEF RenameIdentity
    <2>6. CASE RenameIdentityRaises(g) \/ FileEvent(g) \/ FileEventRaises(g)
      BY <1>2, <2>6 DEF RenameIdentityRaises, FileEvent, FileEventRaises, Named
    <2>7. ~Provisioned /\ ~LoadIdentity /\ ~OpenIdentity(g) /\ ~WriteIdentity(g)
          /\ \A defaults, id : ~Provision(defaults, id)
          /\ \A updates, b, c : ~PutIdentity(g, updates, b, c)
      BY <2>1 DEF Provision, Provisioned, LoadIdentity, PutIdentity, MayStart, OpenIdentity,
                  WriteIdentity
    <2> QED  BY <2>3, <2>4, <2>5, <2>6, <2>7 DEF IdentityNext
  <1> QED  BY <1>1, <1>2 DEF Named

\* What gets into the file, or into the temporary file, is named or about to be.
LEMMA NamedStep ==
  ASSUME TypeOK, Disk, TmpNamed, Traceable, IdentityNext
  PROVE  TmpNamed' /\ Traceable'
  <1>0. /\ \A i \in Identity : i \notin Unreadable
        /\ \A i : Named(i) => Named(i)'
    BY IdentityAssumption, NamedKept DEF Unreadable
  <1>1. CASE \E defaults \in [Fields -> Values], id \in BootIds : Provision(defaults, id)
    <2>1. idFile'.tmp = Absent /\ lived' = lived
      BY <1>1, SavedFile DEF Provision, Unreadable
    <2> QED  BY <1>0, <2>1 DEF TmpNamed, Traceable, Unreadable
  <1>2. CASE Provisioned
    <2>1. ident \in Identity /\ lived' = {ident}
      BY <1>2 DEF Provisioned, TypeOK, IdentityTypeOK, Disk
    <2>2. idFile'.tmp = Absent
      BY <1>2, <2>1, SavedFile DEF Provisioned
    <2> QED  BY <1>0, <2>1, <2>2 DEF TmpNamed, Traceable, Unreadable
  <1>3. CASE LoadIdentity
    <2>1. UNCHANGED <<idFile, lived>>
      BY <1>3 DEF LoadIdentity
    <2> QED  BY <1>0, <2>1 DEF TmpNamed, Traceable, Named
  <1>4. CASE process = "up"
    <2>1. \A h \in Handlers : Unfiled(h)' /\ renewed'[h] = renewed[h] =>
             \A i : i = renewed[h] => Named(i)'
      BY DEF Named
    <2>2. idFile'.tmp \in Identity => \A i : i = idFile'.tmp => Named(i)'
      <3>1. idFile'.tmp \in Identity =>
              \/ idFile'.tmp = idFile.tmp
              \/ \E h \in Handlers : Unfiled(h)' /\ renewed'[h] = renewed[h] /\ idFile'.tmp = renewed[h]
        BY <1>0, <1>4, Spreads
      <3> QED  BY <1>0, <2>1, <3>1 DEF TmpNamed
    <2>3. TmpNamed'
      BY <2>2 DEF TmpNamed, Named
    <2>4. idFile'.path \in Identity \ lived => \A i : i = idFile'.path => Named(i)'
      <3>1. idFile'.path \in Identity =>
              \/ idFile'.path \in {idFile.path, idFile.tmp}
              \/ \E h \in Handlers : Unfiled(h)' /\ renewed'[h] = renewed[h] /\ idFile'.path = renewed[h]
        BY <1>0, <1>4, Spreads DEF Unreadable
      <3> QED  BY <1>0, <2>1, <3>1 DEF TmpNamed, Disk
    <2>5. lived' \subseteq lived \cup ({idFile'.path} \cap Identity)
      BY <1>4, Spreads
    <2>6. SUFFICES ASSUME NEW i \in lived', NEW j \in lived', i # j
                   PROVE  Named(i)' \/ Named(j)'
      BY <2>3 DEF Traceable, Named
    <2>7. CASE i \in lived /\ j \in lived
      BY <1>0, <2>6, <2>7 DEF Traceable
    <2>8. CASE ~(i \in lived /\ j \in lived)
      BY <2>4, <2>5, <2>6, <2>8
    <2> QED  BY <2>7, <2>8
  <1> QED  BY <1>1, <1>2, <1>3, <1>4
       DEF IdentityNext, PutIdentity, MayStart, OpenIdentity, WriteIdentity, RenameIdentity,
           RenameIdentityRaises, FileEvent, FileEventRaises, At

-----------------------------------------------------------------------------
\* The identity store and the system store leave each other's invariants alone.
LEMMA IdentityKeepsEffected ==
  ASSUME TypeOK, Effected, IdentityNext, UNCHANGED systemVars
  PROVE  Effected'
  <1>1. /\ pc \in [Handlers -> Labels] /\ UNCHANGED <<sysFile, inForce, asked, applied>>
        /\ \A h \in Handlers : pc'[h] \in {"open system", "write system", "rename system"} => pc'[h] = pc[h]
    <2> USE DEF TypeOK, Labels, systemVars, At, Goto, Answer, MayStart
    <2>1. CASE pc' = pc
      BY <2>1
    <2>2. ASSUME NEW h \in Handlers, pc' = [pc EXCEPT ![h] = pc'[h]],
                 pc'[h] \in {"open identity", "write identity", "rename identity",
                             "file event", "idle"}
          PROVE  \A g \in Handlers : pc'[g] \in {"open system", "write system", "rename system"}
                   => pc'[g] = pc[g]
      BY <2>2
    <2>3. \/ pc' = pc
          \/ \E h \in Handlers :
               /\ pc' = [pc EXCEPT ![h] = pc'[h]]
               /\ pc'[h] \in {"open identity", "write identity", "rename identity",
                              "file event", "idle"}
      BY DEF IdentityNext, Provision, Provisioned, LoadIdentity, PutIdentity, OpenIdentity,
             WriteIdentity, RenameIdentity, RenameIdentityRaises, FileEvent, FileEventRaises
    <2> QED  BY <2>1, <2>2, <2>3
  <1> QED  BY <1>1 DEF Effected

LEMMA SystemKeepsIdentity ==
  ASSUME TypeOK, Disk, Carried, BootIdFixed, TmpNamed, Traceable, SystemNext, UNCHANGED identityVars
  PROVE  Disk' /\ Carried' /\ BootIdFixed' /\ TmpNamed' /\ Traceable'
  <1>1. UNCHANGED process
    BY DEF SystemNext, PutSystem, Applied, NotApplied, OpenSystem, WriteSystem, RenameSystem
  <1>2. Disk' /\ Carried' /\ BootIdFixed'
    BY <1>1 DEF Disk, Carried, Known, BootIdFixed, identityVars
  <1>3. \A h \in Handlers : Unfiled(h) <=> Unfiled(h)'
    BY DEF SystemNext, PutSystem, Applied, NotApplied, OpenSystem, WriteSystem, RenameSystem,
           AnswerSystem, MayStart, At, Goto, TypeOK, Unfiled
  <1>4. \A i : Named(i) => Named(i)'
    BY <1>3 DEF Named, identityVars
  <1>5. UNCHANGED <<lived, idFile>>
    BY DEF identityVars
  <1> QED  BY <1>2, <1>4, <1>5 DEF Traceable, TmpNamed, Named

\* Nothing is recorded that was not in force.
LEMMA SystemEffected ==
  ASSUME TypeOK, Effected, SystemNext
  PROVE  Effected'
  <1> USE DEF At, Goto, AnswerSystem
  <1>0. /\ sysFile \in FileOf(Valid) /\ pc \in [Handlers -> Labels]
        /\ asked \in [Handlers -> Valid \cup {NoSystem}]
        /\ \A h \in Handlers : pc[h] \in {"apply", "write system"} => asked[h] \in Valid
    BY DEF TypeOK, SystemTypeOK, Labels
  <1>1. ASSUME NEW h \in Handlers, NEW s \in Systems, PutSystem(h, s)
        PROVE  Effected'
    BY <1>0, <1>1 DEF PutSystem, MayStart, Effected
  <1>2. ASSUME NEW h \in Handlers, Applied(h)
        PROVE  Effected'
    BY <1>0, <1>2 DEF Applied, Effected
  <1>3. ASSUME NEW h \in Handlers, NotApplied(h)
        PROVE  Effected'
    BY <1>0, <1>3 DEF NotApplied, Effected
  <1>4. ASSUME NEW h \in Handlers, OpenSystem(h)
        PROVE  Effected'
    <2>1. sysFile'.path = sysFile.path /\ sysFile'.tmp = Partial
      BY <1>0, <1>4, OpenedFile DEF OpenSystem
    <2> QED  BY <1>0, <1>4, <2>1 DEF OpenSystem, Effected, Unreadable
  <1>5. ASSUME NEW h \in Handlers, WriteSystem(h)
        PROVE  Effected'
    <2>1. PICK d \in Valid, g \in {sysFile'} : d = asked[h] /\ g \in Written(sysFile, h, d)
      BY <1>0, <1>5 DEF WriteSystem
    <2>2. g.path \in {sysFile.path, d, Mixed} /\ g.tmp \in {sysFile.tmp, d, Mixed}
      BY <1>0, <2>1, WrittenFile
    <2>3. asked[h] \in applied
      BY <1>5 DEF WriteSystem, Effected
    <2> QED  BY <1>0, <1>5, <2>1, <2>2, <2>3 DEF WriteSystem, Effected, Unreadable
  <1>6. ASSUME NEW h \in Handlers, RenameSystem(h)
        PROVE  Effected'
    <2>1. \/ sysFile' = sysFile
          \/ sysFile'.path = sysFile.tmp /\ sysFile'.tmp = Absent /\ sysFile.tmp # Absent
      BY <1>0, <1>6, RenamedFile DEF RenameSystem
    <2> QED  BY <1>0, <1>6, <2>1 DEF RenameSystem, Effected, Unreadable
  <1> QED  BY <1>1, <1>2, <1>3, <1>4, <1>5, <1>6 DEF SystemNext

\* A crash loses the requests and the temporary files, not what is under the path nor
\* what the requests were about to name.
LEMMA CrashKeeps ==
  ASSUME IInv, Crash
  PROVE  Disk' /\ Carried' /\ BootIdFixed' /\ TmpNamed' /\ Traceable' /\ Effected'
  <1>1. /\ process' = "down" /\ pc' = [h \in Handlers |-> "idle"]
        /\ renewed' = [h \in Handlers |-> None]
        /\ idFile' = Saved(idFile.path) /\ sysFile' = Saved(sysFile.path)
        /\ cut' = cut \cup {renewed[h] : h \in {g \in Handlers : Unfiled(g)}}
        /\ UNCHANGED <<named, lived, applied>>
    BY DEF Crash, IdentityCrash, SystemCrash
  <1>2. /\ idFile'.path = idFile.path /\ idFile'.tmp = Absent
        /\ sysFile'.path = sysFile.path /\ sysFile'.tmp = Absent
    <2>1. idFile.path \in Identity \cup Unreadable /\ sysFile.path \in Valid \cup Unreadable
      BY DEF IInv, TypeOK, IdentityTypeOK, SystemTypeOK, FileOf, Unreadable
    <2> QED  BY <1>1, <2>1, SavedFile
  <1>3. Absent \notin Identity
    BY IdentityAssumption
  <1>4. Disk' /\ Carried' /\ BootIdFixed' /\ Effected'
    BY <1>1, <1>2, <1>3 DEF IInv, Disk, Carried, BootIdFixed, Effected, Unreadable
  <1>5. \A i : Named(i) => Named(i)'
    BY <1>1 DEF Named
  <1> QED  BY <1>1, <1>2, <1>3, <1>4, <1>5 DEF IInv, Traceable, TmpNamed

\* The invariant is inductive.
LEMMA NextIInv == IInv /\ [Next]_vars => IInv'
  <1> SUFFICES ASSUME IInv, [Next]_vars PROVE IInv'
    OBVIOUS
  <1>1. CASE IdentityNext /\ UNCHANGED systemVars
    BY <1>1, IdentityType, BootIdStep, NamedStep, IdentityKeepsEffected DEF IInv
  <1>2. CASE SystemNext /\ UNCHANGED identityVars
    BY <1>2, SystemType, SystemKeepsIdentity, SystemEffected DEF IInv
  <1>3. CASE Crash
    BY <1>3, CrashType, CrashKeeps DEF IInv
  <1>4. CASE UNCHANGED vars
    <2>1. \A i : Named(i) => Named(i)'
      BY <1>4 DEF Named, Unfiled, vars, identityVars
    <2>2. Traceable'
      BY <1>4, <2>1 DEF IInv, Traceable, vars, identityVars
    <2>3. TypeOK'
      BY <1>4 DEF IInv, TypeOK, IdentityTypeOK, SystemTypeOK, Editing, vars, identityVars, systemVars
    <2>4. \A i : Known(i) => Known(i)'
      BY <1>4 DEF Known, vars, identityVars
    <2>5. Carried' /\ TmpNamed'
      BY <1>4, <2>1, <2>4 DEF IInv, Carried, TmpNamed, vars, identityVars
    <2> QED  BY <1>4, <2>2, <2>3, <2>5 DEF IInv, Disk, BootIdFixed, Effected, vars,
             identityVars, systemVars
  <1> QED  BY <1>1, <1>2, <1>3, <1>4 DEF Next

-----------------------------------------------------------------------------
\* Type correctness of the two stores and their threads.
THEOREM TypeCorrect == Spec => []TypeOK
  <1>1. IInv => TypeOK
    BY DEF IInv
  <1> QED  BY <1>1, InitIInv, NextIInv, PTL DEF Spec

\* No request, crash or restart gives a unit that has run a second boot_id, whatever two
\* requests do in the temporary file they share.
THEOREM BootIdNeverChanges == Spec => []BootIdFixed
  <1>1. IInv => BootIdFixed
    BY DEF IInv
  <1> QED  BY <1>1, InitIInv, NextIInv, PTL DEF Spec

\* Of any two identities the unit has had, one is named by an event, or is the new identity
\* of a request that has yet to file its event or has failed: by a crash, by the database,
\* or because another request renamed the temporary file away.
THEOREM EditsAreTraceable == Spec => []Traceable
  <1>1. IInv => Traceable
    BY DEF IInv
  <1> QED  BY <1>1, InitIInv, NextIInv, PTL DEF Spec

\* Settings that can be read from the file were in force.
THEOREM RecordsWhatWasApplied == Spec => []RecordedWasApplied
  <1>1. IInv => RecordedWasApplied
    BY DEF IInv, Effected, RecordedWasApplied
  <1> QED  BY <1>1, InitIInv, NextIInv, PTL DEF Spec
=============================================================================
