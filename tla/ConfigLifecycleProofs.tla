----------------------- MODULE ConfigLifecycleProofs -----------------------
(***************************************************************************)
(* The variables keep their types, and no invalid document ever runs,      *)
(* under every interleaving of the threads, the editor and crashes; what   *)
(* threads that write a file at once leave in the backups is a valid       *)
(* document or a torn one.  With one handler or cycle at a time, the       *)
(* editor and the crashes still anywhere, nothing is torn, the last-known- *)
(* good document is the one that was running, what a client is told is     *)
(* true, and the whole is a store that replaces its document in one step;  *)
(* without rollbacks and edits it keeps every save.                        *)
(***************************************************************************)
EXTENDS ConfigLifecycle, TLAPS

\* A thread past validation has a valid document in hand: the strengthening that
\* makes KnownGoodOrTorn inductive, since Swap trusts what it is given.
HandGood == \A t \in Threads : pc[t] \notin {"idle", "looked"} => doc[t] \in Accepted

IInv == TypeOK /\ KnownGoodOrTorn /\ HandGood

LEMMA FirstVersion == 1 \in Versions /\ \A v \in Versions : v \in Int
  BY ConfigLifecycleAssumption DEF Versions

LEMMA AcceptedDoc ==
    /\ Accepted \subseteq Doc
    /\ \A d \in Doc \cup {Torn} : Good(d) => d \in Accepted
  BY ConfigLifecycleAssumption DEF Accepted, Doc, Good

LEMMA TypeInit ==
    ASSUME Init
    PROVE  TypeOK
  BY FirstVersion, ConfigLifecycleAssumption DEF Init, TypeOK, Doc, Threads

LEMMA OverlapsType ==
    ASSUME TypeOK, NEW t \in Threads, pc[t] \in {"backup", "save", "persist"}, Overlaps(t),
           NEW label, Goto(t, label)
    PROVE  /\ overlapped' \subseteq Threads
           /\ \A u \in Threads : u \in overlapped' => pc'[u] \in {"backup", "save", "persist"}
  BY DEF TypeOK, Overlaps, Rivals, Goto

LEMMA ReloadStepType ==
    ASSUME TypeOK, NEW t \in Threads, ReloadStep(t)
    PROVE  TypeOK'
<1> USE DEF TypeOK, At, Goto, Take, Finish, files, watch
<1>0. /\ \A label : Goto(t, label) /\ Overlaps(t) /\ pc[t] \in {"backup", "save", "persist"}
                     => /\ overlapped' \subseteq Threads
                        /\ \A u \in Threads : u \in overlapped' => pc'[u] \in {"backup", "save", "persist"}
      /\ RenameRaises(t) /\ pc[t] # "idle" => Finish(t) /\ dropped' \in Doc \cup {None}
  <2> HIDE DEF TypeOK, Goto
  <2>1. RenameRaises(t) => Finish(t) /\ dropped' \in Doc \cup {None}
    BY DEF RenameRaises, TypeOK
  <2> QED BY <2>1, OverlapsType
<1>1. CASE Backup(t)
  <2>1. lkg' \in Doc \cup {None, Torn}
    <3>1. Written(t, running, {running}, lkg) \subseteq Doc \cup {None, Torn}
      BY DEF Written
    <3> QED BY <1>1, <3>1 DEF Backup, Old
  <2>2. CASE Goto(t, "save") /\ UNCHANGED <<doc, fetched, dropped>>
    <3>1. pc[t] = "backup" /\ up
      BY <1>1 DEF Backup
    <3>2. /\ overlapped' \subseteq Threads
          /\ \A u \in Threads : u \in overlapped' => pc'[u] \in {"backup", "save", "persist"}
      BY <1>0, <1>1, <2>2, <3>1 DEF Backup
    <3> QED BY <1>1, <2>1, <2>2, <3>1, <3>2 DEF Backup
  <2>3. CASE RenameRaises(t)
    <3>1. pc[t] = "backup" /\ up /\ Finish(t) /\ dropped' \in Doc \cup {None}
      BY <1>0, <1>1, <2>3 DEF Backup
    <3>2. /\ overlapped' \subseteq Threads
          /\ \A u \in Threads : u \in overlapped' => pc'[u] \in {"backup", "save", "persist"}
      BY <1>0, <1>1, <3>1 DEF Backup
    <3> QED BY <1>1, <2>1, <3>1, <3>2 DEF Backup
  <2> QED BY <1>1, <2>2, <2>3 DEF Backup
<1>2. CASE SaveVersion(t)
  <2>1. saved' \in [Versions -> Doc \cup {None, Torn}]
    <3>1. running.version \in Versions /\ saved[running.version] \in Doc \cup {None, Torn}
      BY DEF Doc
    <3>2. Written(t, running, {running}, saved[running.version]) \subseteq Doc \cup {None, Torn}
      BY <3>1 DEF Written
    <3> QED BY <1>2, <3>1, <3>2 DEF SaveVersion
  <2>2. CASE Goto(t, "swap") /\ UNCHANGED <<doc, fetched, dropped>>
    <3>1. pc[t] = "save" /\ up
      BY <1>2 DEF SaveVersion
    <3>2. /\ overlapped' \subseteq Threads
          /\ \A u \in Threads : u \in overlapped' => pc'[u] \in {"backup", "save", "persist"}
      BY <1>0, <1>2, <2>2, <3>1 DEF SaveVersion
    <3>3. t \notin overlapped'
      BY <1>2 DEF SaveVersion, Overlaps, Rivals
    <3> QED BY <1>2, <2>1, <2>2, <3>1, <3>2, <3>3 DEF SaveVersion
  <2>3. CASE RenameRaises(t)
    <3>1. pc[t] = "save" /\ up /\ Finish(t) /\ dropped' \in Doc \cup {None}
      BY <1>0, <1>2, <2>3 DEF SaveVersion
    <3>2. /\ overlapped' \subseteq Threads
          /\ \A u \in Threads : u \in overlapped' => pc'[u] \in {"backup", "save", "persist"}
      BY <1>0, <1>2, <3>1 DEF SaveVersion
    <3> QED BY <1>2, <2>1, <3>1, <3>2 DEF SaveVersion
  <2> QED BY <1>2, <2>2, <2>3 DEF SaveVersion
<1>3. CASE Swap(t)
  <2>1. doc[t] \in Doc
    BY <1>3 DEF Swap
  <2> QED BY <1>3, <2>1 DEF Swap
<1>4. CASE MarkSeen(t)
  <2>1. doc[t] \in Doc /\ doc[t].version \in Versions
    BY <1>4 DEF MarkSeen, Seen, Doc
  <2>2. CASE t = Poll
    BY <1>4, <2>1, <2>2 DEF MarkSeen, Seen
  <2>3. CASE t # Poll
    BY <1>4, <2>1, <2>3 DEF MarkSeen, Seen, Threads
  <2> QED BY <2>2, <2>3
<1>5. CASE Fetch(t)
  <2>1. running # None
    BY ConfigLifecycleAssumption
  <2> QED BY <1>5, <2>1 DEF Fetch
<1>6. CASE Persist(t)
  <2>1. /\ fetched[t] \in Doc /\ doc[t] \in Doc /\ pc[t] = "persist" /\ up
        /\ \A u \in Rivals(t) : fetched[u] \in Doc
    BY <1>6 DEF Persist, Rivals
  <2>2. file' \in Doc \cup {Torn}
    <3>1. {fetched[u] : u \in Rivals(t)} \subseteq Doc \cup {Torn}
      BY <2>1
    <3>2. Written(t, fetched[t], {fetched[u] : u \in Rivals(t)}, file) \subseteq Doc \cup {Torn}
      BY <2>1, <3>1 DEF Written
    <3> QED BY <1>6, <3>2 DEF Persist, Fetched
  <2>3. Finish(t) /\ dropped' \in Doc \cup {None} /\ acked' \subseteq Doc
    BY <1>0, <1>6, <2>1 DEF Persist
  <2>4. /\ overlapped' \subseteq Threads
        /\ \A u \in Threads : u \in overlapped' => pc'[u] \in {"backup", "save", "persist"}
    BY <1>0, <1>6, <2>1, <2>3 DEF Persist
  <2> QED BY <1>6, <2>1, <2>2, <2>3, <2>4 DEF Persist
<1> QED BY <1>1, <1>2, <1>3, <1>4, <1>5, <1>6 DEF ReloadStep

LEMMA TypeInductive ==
    ASSUME TypeOK, [Next]_vars
    PROVE  TypeOK'
<1> USE DEF TypeOK, At, Goto, Take, Finish, files, watch
<1>1. ASSUME NEW t \in Handlers, NEW c \in Contents, Put(t, c)
      PROVE  TypeOK'
  <2>1. running.version + 1 \in Versions
    BY <1>1, FirstVersion, ConfigLifecycleAssumption DEF Put, Doc, Versions
  <2>2. [version |-> running.version + 1, content |-> c] \in Doc
    BY <2>1 DEF Doc
  <2>3. [version |-> running.version + 1, content |-> c] # None
    BY <2>2, ConfigLifecycleAssumption
  <2> QED BY <1>1, <2>2, <2>3 DEF Put, MayStart, Threads
<1>2. ASSUME NEW t \in Handlers, NEW d \in Doc \cup {None, Torn}, Rollback(t, d)
      PROVE  TypeOK'
  BY <1>2 DEF Rollback, Good, MayStart, Threads
<1>3. CASE Look
  <2>1. file \in Doc /\ file # None /\ Poll \in Threads
    BY <1>3, ConfigLifecycleAssumption DEF Look, Threads
  <2> QED BY <1>3, <2>1 DEF Look, MayStart
<1>4. CASE Compare
  <2>1. Poll \in Threads /\ doc[Poll] \in Doc
    BY <1>4 DEF Compare, Threads
  <2>2. doc[Poll].version \in Versions
    BY <2>1 DEF Doc
  <2> QED BY <1>4, <2>1, <2>2 DEF Compare
<1>5. ASSUME NEW c \in Contents, Edit(c)
      PROVE  TypeOK'
  <2>0. file \in Doc
    BY <1>5 DEF Edit
  <2>1. file.version + 1 \in Versions
    BY <1>5, <2>0, FirstVersion, ConfigLifecycleAssumption DEF Edit, Doc, Versions
  <2>2. [version |-> file.version + 1, content |-> c] \in Doc
    BY <2>1 DEF Doc
  <2> QED BY <1>5, <2>2 DEF Edit
<1>6. CASE Crash
  BY <1>6 DEF Crash
<1>7. CASE Restart
  <2>1. file \in Doc /\ file.version \in Versions
    BY <1>7 DEF Restart, Good, Doc
  <2> QED BY <1>7, <2>1 DEF Restart
<1>8. CASE UNCHANGED vars
  BY <1>8 DEF vars
<1>9. lkg \in Doc \cup {None, Torn} /\ \A v \in Versions : saved[v] \in Doc \cup {None, Torn}
  OBVIOUS
<1> HIDE DEF TypeOK, At, Goto, Take, Finish, files, watch
<1> QED BY <1>1, <1>2, <1>3, <1>4, <1>5, <1>6, <1>7, <1>8, <1>9, ReloadStepType DEF Next

\* Type correctness; a crash or an early return leaves nothing in a thread's hands.
THEOREM TypeCorrect == Spec => []TypeOK
<1>1. Init => TypeOK
  BY TypeInit
<1>2. TypeOK /\ [Next]_vars => TypeOK'
  BY TypeInductive
<1> QED BY <1>1, <1>2, PTL DEF Spec

-----------------------------------------------------------------------------
LEMMA InitGood ==
    ASSUME Init
    PROVE  IInv
<1>1. file \in Accepted
  BY FirstVersion, ConfigLifecycleAssumption DEF Init, Accepted
<1> QED BY <1>1, TypeInit DEF Init, IInv, KnownGoodOrTorn, HandGood

\* A thread takes up a document: only handing it on to reload needs it valid.
LEMMA TakeGood ==
    ASSUME IInv, NEW t \in Threads, NEW label, NEW d, Take(t, label, d),
           label \in {"idle", "looked"} \/ d \in Accepted,
           UNCHANGED <<running, lkg, saved>>
    PROVE  KnownGoodOrTorn' /\ HandGood'
  BY DEF IInv, TypeOK, KnownGoodOrTorn, HandGood, Take, Goto

\* A thread goes on with the document it has.
LEMMA GotoGood ==
    ASSUME IInv, NEW t \in Threads, NEW label, Goto(t, label), doc[t] \in Accepted, UNCHANGED doc
    PROVE  HandGood'
  BY DEF IInv, TypeOK, HandGood, Goto

\* A thread's write does what it does to the file; either it goes on, or it stops.
LEMMA WriteGood ==
    ASSUME IInv, NEW t \in Threads, doc[t] \in Accepted, NEW label,
           \/ Goto(t, label) /\ UNCHANGED <<doc, fetched, dropped>>
           \/ RenameRaises(t)
    PROVE  HandGood'
<1>1. CASE Goto(t, label) /\ UNCHANGED <<doc, fetched, dropped>>
  BY <1>1, GotoGood
<1>2. CASE RenameRaises(t)
  BY <1>2 DEF RenameRaises, Finish, Take, Goto, IInv, TypeOK, HandGood
<1> QED BY <1>1, <1>2

LEMMA ReloadStepGood ==
    ASSUME IInv, NEW t \in Threads, ReloadStep(t)
    PROVE  KnownGoodOrTorn' /\ HandGood'
<1>1. doc[t] \in Accepted
  BY DEF IInv, HandGood, ReloadStep, Backup, SaveVersion, Swap, MarkSeen, Fetch, Persist, At
<1>2. CASE Backup(t)
  <2>1. HandGood'
    BY <1>1, <1>2, WriteGood DEF Backup
  <2>2. running \in Accepted /\ lkg' \in Accepted \cup {None, Torn}
    BY <1>2 DEF Backup, Old, Written, IInv, KnownGoodOrTorn
  <2> QED BY <1>2, <2>1, <2>2 DEF Backup, IInv, KnownGoodOrTorn
<1>3. CASE SaveVersion(t)
  <2>1. HandGood'
    BY <1>1, <1>3, WriteGood DEF SaveVersion
  <2>2. running \in Accepted /\ running.version \in Versions
    BY DEF IInv, KnownGoodOrTorn, Accepted
  <2>3. PICK d \in Written(t, running, {running}, saved[running.version]) :
           saved' = [saved EXCEPT ![running.version] = d]
    BY <1>3 DEF SaveVersion
  <2>4. d \in {running, saved[running.version], Torn}
    BY DEF Written
  <2>5. \A v \in Versions :
           saved'[v] \notin {None, Torn} => saved'[v] \in Accepted /\ saved'[v].version = v
    BY <2>2, <2>3, <2>4 DEF IInv, TypeOK, KnownGoodOrTorn
  <2> QED BY <1>3, <2>1, <2>2, <2>5 DEF SaveVersion, IInv, KnownGoodOrTorn
<1>4. CASE Swap(t)
  BY <1>1, <1>4, GotoGood DEF Swap, IInv, KnownGoodOrTorn, files
<1>5. CASE MarkSeen(t)
  <2>1. CASE t = Poll
    BY <1>5, <2>1, TakeGood DEF MarkSeen, Finish, files
  <2>2. CASE t # Poll
    BY <1>1, <1>5, <2>2, GotoGood DEF MarkSeen, IInv, KnownGoodOrTorn, files
  <2> QED BY <2>1, <2>2
<1>6. CASE Fetch(t)
  BY <1>1, <1>6, GotoGood DEF Fetch, IInv, KnownGoodOrTorn, files
<1>7. CASE Persist(t)
  <2>1. Take(t, "idle", None) /\ UNCHANGED <<running, lkg, saved>>
    BY <1>7 DEF Persist, RenameRaises, Finish
  <2> QED BY <2>1, TakeGood
<1> QED BY <1>2, <1>3, <1>4, <1>5, <1>6, <1>7 DEF ReloadStep

LEMMA StepGood ==
    ASSUME IInv, [Next]_vars
    PROVE  IInv'
<1>1. TypeOK'
  BY TypeInductive DEF IInv
<1>2. ASSUME NEW t \in Handlers, NEW c \in Contents, Put(t, c)
      PROVE  KnownGoodOrTorn' /\ HandGood'
  <2>1. running.version + 1 \in Versions
    BY <1>2, FirstVersion, ConfigLifecycleAssumption DEF Put, IInv, TypeOK, Doc, Versions
  <2>2. [version |-> running.version + 1, content |-> c] \in Accepted
    BY <1>2, <2>1 DEF Put, Accepted
  <2> QED BY <1>2, <2>2, TakeGood DEF Put, Threads, files
<1>3. ASSUME NEW t \in Handlers, NEW d \in Doc \cup {None, Torn}, Rollback(t, d)
      PROVE  KnownGoodOrTorn' /\ HandGood'
  <2>1. d \in Accepted
    BY <1>3, AcceptedDoc DEF Rollback
  <2> QED BY <1>3, <2>1, TakeGood DEF Rollback, Threads, files
<1>4. CASE Look
  <2>1. Poll \in Threads /\ Take(Poll, "looked", file) /\ UNCHANGED <<running, lkg, saved>>
    BY <1>4 DEF Look, Threads, files
  <2> QED BY <1>1, <2>1, TakeGood DEF IInv
<1>5. CASE Compare
  <2>1. Poll \in Threads /\ doc[Poll] \in Doc /\ UNCHANGED <<running, lkg, saved>>
    BY <1>5 DEF Compare, IInv, TypeOK, At, Threads, files
  <2>2. CASE Good(doc[Poll]) /\ Goto(Poll, "backup") /\ UNCHANGED doc
    <3>1. HandGood'
      BY <2>1, <2>2, AcceptedDoc, GotoGood
    <3> QED BY <1>1, <2>1, <3>1 DEF IInv, KnownGoodOrTorn
  <2>3. CASE Finish(Poll)
    BY <1>1, <2>1, <2>3, TakeGood DEF IInv, Finish
  <2> QED BY <1>5, <2>2, <2>3 DEF Compare
<1>6. ASSUME NEW c \in Contents, Edit(c)
      PROVE  KnownGoodOrTorn' /\ HandGood'
  BY <1>6 DEF Edit, IInv, KnownGoodOrTorn, HandGood
<1>7. CASE Crash
  BY <1>1, <1>7 DEF Crash, IInv, TypeOK, KnownGoodOrTorn, HandGood, files
<1>8. CASE Restart
  <2>1. running' \in Accepted /\ UNCHANGED <<lkg, saved, pc, doc>>
    BY <1>8, AcceptedDoc DEF Restart, IInv, TypeOK, files
  <2> QED BY <1>1, <2>1 DEF IInv, KnownGoodOrTorn, HandGood
<1>9. CASE UNCHANGED vars
  <2>1. UNCHANGED <<running, lkg, saved, pc, doc>>
    BY <1>9 DEF vars, files
  <2> QED BY <1>1, <2>1 DEF IInv, KnownGoodOrTorn, HandGood
<1>10. lkg \in Doc \cup {None, Torn} /\ \A v \in Versions : saved[v] \in Doc \cup {None, Torn}
  BY DEF IInv, TypeOK
<1> QED BY <1>1, <1>2, <1>3, <1>4, <1>5, <1>6, <1>7, <1>8, <1>9, <1>10, ReloadStepGood
        DEF Next, IInv

\* Whatever is written to io_config.json from outside, whoever saves or rolls back at
\* once, and wherever the process crashes: no document that failed validation runs, and
\* none gets into the backups.
THEOREM NoBadDocumentRuns == Spec => []KnownGoodOrTorn
<1>1. Init => IInv
  BY InitGood
<1>2. IInv /\ [Next]_vars => IInv'
  BY StepGood
<1>3. IInv => KnownGoodOrTorn
  BY DEF IInv
<1> QED BY <1>1, <1>2, <1>3, PTL DEF Spec

-----------------------------------------------------------------------------
\* One thread at a time is at work, so that nothing is torn, and where it is says what it
\* has achieved.
Sole == \A t, u \in Threads : t = u \/ pc[t] = "idle" \/ pc[u] = "idle"

Progress == \A t \in Threads :
    /\ pc[t] \in {"save", "swap"} => lkg = running
    /\ pc[t] = "swap" => saved[running.version] = running
    /\ pc[t] \in {"mark", "fetch", "persist"} => doc[t] = running
    /\ pc[t] = "persist" => fetched[t] = running

Whole ==
    /\ overlapped = {} /\ file # Torn /\ lkg # Torn
    /\ \A v \in Versions : saved[v] # Torn

SeqInv == TypeOK /\ Sole /\ Progress /\ Whole

\* The thread that takes a step is the only one that is not idle.
LEMMA OthersIdle ==
    ASSUME ~Concurrent, SeqInv, NEW t \in Threads, MayStart(t) \/ pc[t] # "idle"
    PROVE  \A u \in Threads : u # t => pc[u] = "idle"
  BY DEF SeqInv, Sole, MayStart

\* It stays the only one, and so only its own progress is to be shown.
LEMMA OnlyOne ==
    ASSUME TypeOK, NEW t \in Threads, \A u \in Threads : u # t => pc[u] = "idle",
           NEW label, Goto(t, label),
           /\ label \in {"save", "swap"} => lkg' = running'
           /\ label = "swap" => saved'[running'.version] = running'
           /\ label \in {"mark", "fetch", "persist"} => doc'[t] = running'
           /\ label = "persist" => fetched'[t] = running'
    PROVE  Sole' /\ Progress'
<1>1. pc'[t] = label /\ \A u \in Threads : u # t => pc'[u] = "idle"
  BY DEF TypeOK, Goto
<1> QED BY <1>1 DEF Sole, Progress

\* Its writes meet nobody: the file holds what it wrote, and its rename does not raise.
LEMMA WritesAlone ==
    ASSUME ~Concurrent, SeqInv, NEW t \in Threads, pc[t] # "idle"
    PROVE  /\ \A own, theirs, current : Written(t, own, theirs, current) = {own}
           /\ ~RenameRaises(t)
           /\ Overlaps(t) => overlapped' = {}
<1>1. Rivals(t) = {} /\ overlapped = {}
  BY OthersIdle DEF Rivals, SeqInv, Whole
<1> QED BY <1>1 DEF Written, RenameRaises, Overlaps

LEMMA ReloadStepSeq ==
    ASSUME ~Concurrent, SeqInv, NEW t \in Threads, ReloadStep(t)
    PROVE  Sole' /\ Progress' /\ Whole'
<1>1. pc[t] # "idle" /\ TypeOK /\ Whole
  BY DEF SeqInv, ReloadStep, Backup, SaveVersion, Swap, MarkSeen, Fetch, Persist, At
<1>2. \A u \in Threads : u # t => pc[u] = "idle"
  BY <1>1, OthersIdle
<1>a. /\ \A own, theirs, current : Written(t, own, theirs, current) = {own}
      /\ ~RenameRaises(t)
      /\ Overlaps(t) => overlapped' = {}
  BY <1>1, WritesAlone
<1>b. running # Torn
  BY <1>1, ConfigLifecycleAssumption DEF TypeOK
<1>3. CASE Backup(t)
  <2>1. Goto(t, "save") /\ lkg' = running /\ overlapped' = {} /\ UNCHANGED <<running, file, saved>>
    BY <1>3, <1>a DEF Backup, Old
  <2>2. Whole'
    BY <1>1, <1>b, <2>1 DEF Whole
  <2> QED BY <1>1, <1>2, <2>1, <2>2, OnlyOne
<1>4. CASE SaveVersion(t)
  <2>1. /\ Goto(t, "swap") /\ saved' = [saved EXCEPT ![running.version] = running]
        /\ overlapped' = {} /\ UNCHANGED <<running, file, lkg>>
    <3>1. PICK d \in Written(t, running, {running}, saved[running.version]) :
             saved' = [saved EXCEPT ![running.version] = d]
      BY <1>4 DEF SaveVersion
    <3>2. d = running
      BY <1>a
    <3> QED BY <1>4, <1>a, <3>1, <3>2 DEF SaveVersion
  <2>2. lkg' = running' /\ saved'[running'.version] = running'
    BY <1>1, <1>4, <2>1 DEF SaveVersion, SeqInv, Progress, At, TypeOK, Doc
  <2>3. Whole'
    BY <1>1, <1>b, <2>1 DEF Whole, TypeOK
  <2> QED BY <1>1, <1>2, <2>1, <2>2, <2>3, OnlyOne
<1>5. CASE Swap(t)
  <2>1. Whole'
    BY <1>1, <1>5 DEF Swap, files, Whole
  <2> QED BY <1>1, <1>2, <1>5, <2>1, OnlyOne DEF Swap
<1>6. CASE MarkSeen(t)
  <2>1. Whole'
    BY <1>1, <1>6 DEF MarkSeen, files, Whole
  <2>2. CASE t = Poll
    BY <1>1, <1>2, <1>6, <2>1, <2>2, OnlyOne DEF MarkSeen, Finish, Take
  <2>3. CASE t # Poll
    BY <1>1, <1>2, <1>6, <2>1, <2>3, OnlyOne DEF MarkSeen, SeqInv, Progress, At
  <2> QED BY <2>2, <2>3
<1>7. CASE Fetch(t)
  <2>1. fetched'[t] = running /\ doc[t] = running
    BY <1>7 DEF Fetch, SeqInv, Progress, TypeOK, At
  <2>2. Whole'
    BY <1>1, <1>7 DEF Fetch, files, Whole
  <2> QED BY <1>1, <1>2, <1>7, <2>1, <2>2, OnlyOne DEF Fetch
<1>8. CASE Persist(t)
  <2>1. fetched[t] = running
    BY <1>8 DEF Persist, At, SeqInv, Progress
  <2>2. Goto(t, "idle") /\ file' = running /\ overlapped' = {} /\ UNCHANGED <<lkg, saved>>
    BY <1>8, <1>a, <2>1 DEF Persist, Fetched, Finish, Take
  <2>3. Whole'
    BY <1>1, <1>b, <2>2 DEF Whole
  <2> QED BY <1>1, <1>2, <2>2, <2>3, OnlyOne
<1> QED BY <1>3, <1>4, <1>5, <1>6, <1>7, <1>8 DEF ReloadStep

LEMMA SeqStep ==
    ASSUME ~Concurrent, SeqInv, [Next]_vars
    PROVE  SeqInv'
<1>1. TypeOK' /\ Whole
  BY TypeInductive DEF SeqInv
<1> SUFFICES Sole' /\ Progress' /\ Whole'
  BY <1>1 DEF SeqInv
<1>2. ASSUME NEW t \in Handlers, NEW c \in Contents, Put(t, c)
      PROVE  Sole' /\ Progress' /\ Whole'
  <2>1. Whole'
    BY <1>1, <1>2 DEF Put, files, Whole
  <2> QED BY <1>2, <2>1, OthersIdle, OnlyOne DEF Put, Take, SeqInv, Threads
<1>3. ASSUME NEW t \in Handlers, NEW d, Rollback(t, d)
      PROVE  Sole' /\ Progress' /\ Whole'
  <2>1. Whole'
    BY <1>1, <1>3 DEF Rollback, files, Whole
  <2> QED BY <1>3, <2>1, OthersIdle, OnlyOne DEF Rollback, Take, SeqInv, Threads
<1>4. CASE Look
  <2>1. Whole'
    BY <1>1, <1>4 DEF Look, files, Whole
  <2> QED BY <1>4, <2>1, OthersIdle, OnlyOne DEF Look, Take, SeqInv, Threads
<1>5. CASE Compare
  <2>1. Poll \in Threads /\ \A u \in Threads : u # Poll => pc[u] = "idle"
    BY <1>5, OthersIdle DEF Compare, At, Threads
  <2>2. Goto(Poll, "backup") \/ Goto(Poll, "idle")
    BY <1>5 DEF Compare, Finish, Take
  <2>3. Whole'
    BY <1>1, <1>5 DEF Compare, files, Whole
  <2> QED BY <2>1, <2>2, <2>3, OnlyOne DEF SeqInv
<1>6. ASSUME NEW c \in Contents, Edit(c)
      PROVE  Sole' /\ Progress' /\ Whole'
  <2>1. file \in Doc
    BY <1>6 DEF Edit, SeqInv, TypeOK
  <2>2. file.version + 1 \in Versions
    BY <1>6, <2>1, FirstVersion, ConfigLifecycleAssumption DEF Edit, Doc, Versions
  <2>3. file' \in Doc
    BY <1>6, <2>2 DEF Edit, Doc
  <2>4. Whole'
    BY <1>1, <1>6, <2>3, ConfigLifecycleAssumption DEF Edit, Whole
  <2> QED BY <1>6, <2>4 DEF Edit, SeqInv, Sole, Progress
<1>7. CASE Crash
  BY <1>1, <1>7 DEF Crash, Sole, Progress, Whole, files
<1>8. CASE Restart
  BY <1>1, <1>8 DEF Restart, SeqInv, Sole, Progress, TypeOK, Whole, files
<1>9. CASE UNCHANGED vars
  BY <1>1, <1>9 DEF vars, files, SeqInv, Sole, Progress, Whole
<1> QED BY <1>2, <1>3, <1>4, <1>5, <1>6, <1>7, <1>8, <1>9, ReloadStepSeq DEF Next

LEMMA SeqInit ==
    ASSUME Init
    PROVE  SeqInv
<1>1. Whole
  <2>1. file \in Doc
    BY TypeInit, FirstVersion, ConfigLifecycleAssumption DEF Init, Doc
  <2> QED BY <2>1, ConfigLifecycleAssumption DEF Init, Whole
<1> QED BY <1>1, TypeInit DEF Init, SeqInv, Sole, Progress

\* With one handler or cycle at a time the engine, the last-known-good file and the
\* version history hold only documents that passed validation, whatever is written to
\* io_config.json from outside and wherever the process crashes.
THEOREM OnlyKnownGood ==
    ASSUME ~Concurrent
    PROVE  Spec => []KnownGood
<1>1. Init => IInv /\ SeqInv
  BY InitGood, SeqInit
<1>2. IInv /\ SeqInv /\ [Next]_vars => IInv' /\ SeqInv'
  BY StepGood, SeqStep
<1>3. IInv /\ SeqInv => KnownGood
  BY DEF IInv, SeqInv, Whole, KnownGoodOrTorn, KnownGood
<1> QED BY <1>1, <1>2, <1>3, PTL DEF Spec

\* The last-known-good document is the one that was running before the reload.
THEOREM LkgIsWhatRan ==
    ASSUME ~Concurrent
    PROVE  Spec => LkgIsPrevious
<1>1. Init => SeqInv
  BY SeqInit
<1>2. SeqInv /\ [Next]_vars => SeqInv'
  BY SeqStep
<1>3. SeqInv /\ [Next]_vars => [up /\ up' /\ running' # running => lkg = running]_vars
  <2> SUFFICES ASSUME SeqInv, [Next]_vars, up, up', running' # running
               PROVE  lkg = running
    OBVIOUS
  <2>1. \E t \in Threads : Swap(t)
    BY DEF Next, ReloadStep, Backup, SaveVersion, MarkSeen, Fetch, Persist, Put, Rollback, Look,
           Compare, Edit, Crash, Restart, vars, files, watch
  <2> QED BY <2>1 DEF Swap, SeqInv, Progress, At
<1> QED BY <1>1, <1>2, <1>3, PTL DEF Spec, LkgIsPrevious

\* The answer to a save, an import or a rollback is true when it is given.
THEOREM AnswersAreTrue ==
    ASSUME ~Concurrent
    PROVE  Spec => AckedIsRunning
<1> DEFINE True == \A t \in Handlers :
      At(t, "persist") /\ up' /\ pc'[t] = "idle" => running' = doc[t] /\ file' = doc[t]
<1>1. Init => SeqInv
  BY SeqInit
<1>2. SeqInv /\ [Next]_vars => SeqInv'
  BY SeqStep
<1>3. SeqInv /\ [Next]_vars => [True]_vars
  <2> SUFFICES ASSUME SeqInv, [Next]_vars, NEW t \in Handlers,
                      At(t, "persist"), up', pc'[t] = "idle"
               PROVE  running' = doc[t] /\ file' = doc[t]
    OBVIOUS
  <2>1. t \in Threads /\ up /\ pc[t] = "persist"
    BY DEF Threads, At
  <2>2. \A u \in Threads : u # t => pc[u] = "idle"
    BY <2>1, OthersIdle
  <2>3. ~Crash /\ ~Restart /\ ~UNCHANGED vars /\ ~\E c \in Contents : Edit(c)
    BY <2>1 DEF Crash, Restart, vars, Edit
  <2>4. ~\E u \in Handlers, c \in Contents : Put(u, c)
    BY <2>1, <2>2 DEF Put, MayStart, At, Threads
  <2>5. ~\E u \in Handlers : \E d : Rollback(u, d)
    BY <2>1, <2>2 DEF Rollback, MayStart, At, Threads
  <2>6. ~Look
    BY <2>1 DEF Look, MayStart
  <2>7. ~Compare
    BY <2>1, <2>2 DEF Compare, At, Threads
  <2>8. \E u \in Threads : ReloadStep(u)
    BY <2>3, <2>4, <2>5, <2>6, <2>7 DEF Next
  <2>9. Persist(t)
    BY <2>1, <2>2, <2>8 DEF ReloadStep, Backup, SaveVersion, Swap, MarkSeen, Fetch, Persist, At
  <2>10. doc[t] = running /\ fetched[t] = running
    BY <2>1 DEF SeqInv, Progress
  <2>11. \A own, theirs, current : Written(t, own, theirs, current) = {own}
    BY <2>1, WritesAlone
  <2> QED BY <2>9, <2>10, <2>11 DEF Persist, Fetched
<1> QED BY <1>1, <1>2, <1>3, PTL DEF Spec, AckedIsRunning

-----------------------------------------------------------------------------
(***************************************************************************)
(* The refinement.  What is chosen in the store is what the one thread at  *)
(* work has in hand; the store may replace its document because Progress   *)
(* says that it is kept by then, and HandGood that the new one is valid.   *)
(***************************************************************************)
StoreInv == IInv /\ SeqInv

LEMMA OneInHand ==
    ASSUME TypeOK, NEW t \in Threads, \A u \in Threads : u # t => pc[u] = "idle"
    PROVE  InHand = {doc[t]} \ {None}
  BY DEF TypeOK, InHand

LEMMA TakenInHand ==
    ASSUME TypeOK, NEW t \in Threads, \A u \in Threads : u # t => pc[u] = "idle",
           NEW label, NEW d, Take(t, label, d)
    PROVE  InHand' = {d} \ {None}
<1>1. doc'[t] = d /\ \A u \in Threads : u # t => doc'[u] = None
  BY DEF TypeOK, Take
<1> QED BY <1>1 DEF InHand

\* A thread starts: nothing was chosen, and now its document is.
LEMMA StartChooses ==
    ASSUME ~Concurrent, StoreInv, NEW t \in Threads, MayStart(t), NEW label, NEW d \in Doc,
           Take(t, label, d),
           \/ d \in Accepted /\ d.version = running.version + 1
           \/ d = file
           \/ d \in Store!Kept \cap Accepted,
           UNCHANGED <<running, file, lkg, saved, up>>
    PROVE  Store!Choose(d)
<1>1. TypeOK /\ \A u \in Threads : u # t => pc[u] = "idle"
  BY OthersIdle DEF StoreInv, SeqInv
<1>2. doc[t] = None /\ up
  BY <1>1 DEF MayStart, At, TypeOK
<1>3. InHand = {}
  BY <1>1, <1>2, OneInHand
<1>4. InHand' = {d}
  BY <1>1, TakenInHand, ConfigLifecycleAssumption
<1> QED BY <1>2, <1>3, <1>4 DEF Store!Choose

LEMMA ReloadRefines ==
    ASSUME ~Concurrent, StoreInv, NEW t \in Threads, ReloadStep(t)
    PROVE  [Store!Next]_<<running, file, lkg, saved, InHand, up>>
<1>1. TypeOK /\ pc[t] \notin {"idle", "looked"}
  BY DEF StoreInv, SeqInv, ReloadStep, Backup, SaveVersion, Swap, MarkSeen, Fetch, Persist, At
<1>2. \A u \in Threads : u # t => pc[u] = "idle"
  BY <1>1, OthersIdle DEF StoreInv
<1>3. doc[t] \in Accepted /\ doc[t] # None
  BY <1>1 DEF StoreInv, IInv, HandGood, TypeOK
<1>4. InHand = {doc[t]}
  BY <1>1, <1>2, <1>3, OneInHand
<1>5. ASSUME UNCHANGED doc
      PROVE  InHand' = InHand
  BY <1>5 DEF InHand
<1>a. /\ \A own, theirs, current : Written(t, own, theirs, current) = {own}
      /\ ~RenameRaises(t)
  BY <1>1, WritesAlone DEF StoreInv
<1>6. CASE Backup(t)
  <2>1. Store!KeepAsPrevious
    BY <1>4, <1>5, <1>6, <1>a DEF Backup, Old, Store!KeepAsPrevious
  <2> QED BY <2>1 DEF Store!Next
<1>7. CASE SaveVersion(t)
  <2>1. Store!KeepInHistory
    <3>1. PICK d \in Written(t, running, {running}, saved[running.version]) :
             saved' = [saved EXCEPT ![running.version] = d]
      BY <1>7 DEF SaveVersion
    <3>2. d = running
      BY <1>a
    <3> QED BY <1>4, <1>5, <1>7, <1>a, <3>1, <3>2 DEF SaveVersion, Store!KeepInHistory
  <2> QED BY <2>1 DEF Store!Next
<1>8. CASE Swap(t)
  <2>1. lkg = running /\ saved[running.version] = running
    BY <1>8 DEF Swap, At, StoreInv, SeqInv, Progress
  <2>2. Store!Replace
    BY <1>3, <1>4, <1>5, <1>8, <2>1 DEF Swap, files, Store!Replace
  <2> QED BY <2>2 DEF Store!Next
<1>9. CASE MarkSeen(t) /\ t = Poll
  <2>1. InHand' = {}
    BY <1>1, <1>2, <1>9, TakenInHand DEF MarkSeen, Finish
  <2>2. Store!LetGo
    BY <1>4, <1>9, <2>1 DEF MarkSeen, files, Store!LetGo
  <2> QED BY <2>2 DEF Store!Next
<1>10. CASE (MarkSeen(t) /\ t # Poll) \/ Fetch(t)
  BY <1>5, <1>10 DEF MarkSeen, Fetch, files
<1>11. CASE Persist(t)
  <2>1. doc[t] = running /\ fetched[t] = running
    BY <1>11 DEF Persist, At, StoreInv, SeqInv, Progress
  <2>2. InHand' = {}
    BY <1>1, <1>2, <1>11, <1>a, TakenInHand DEF Persist, Finish
  <2>3. Store!Publish
    BY <1>4, <1>11, <1>a, <2>1, <2>2 DEF Persist, Fetched, Store!Publish
  <2> QED BY <2>3 DEF Store!Next
<1> QED BY <1>6, <1>7, <1>8, <1>9, <1>10, <1>11 DEF ReloadStep

LEMMA HandlerRefines ==
    ASSUME ~Concurrent, StoreInv, NEW t \in Handlers
    PROVE  /\ \A c \in Contents : Put(t, c) => Store!Next
           /\ Rollback(t, lkg) => Store!Next
           /\ \A v \in Versions : Rollback(t, saved[v]) => Store!Next
<1>1. ASSUME NEW c \in Contents, Put(t, c)
      PROVE  Store!Next
  <2> DEFINE d == [version |-> running.version + 1, content |-> c]
  <2>1. running.version + 1 \in Versions
    BY <1>1, FirstVersion, ConfigLifecycleAssumption
       DEF Put, StoreInv, IInv, TypeOK, Doc, Versions
  <2>2. d \in Accepted /\ d \in Doc /\ d.version = running.version + 1
    BY <1>1, <2>1, AcceptedDoc DEF Put, Accepted
  <2>3. Store!Choose(d)
    BY <1>1, <2>2, StartChooses DEF Put, Threads, files
  <2> QED BY <2>2, <2>3 DEF Store!Next
<1>2. ASSUME NEW d \in Doc \cup {None, Torn}, Rollback(t, d), d \in Store!Kept
      PROVE  Store!Next
  <2>1. d \in Doc /\ d \in Accepted
    BY <1>2, AcceptedDoc DEF Rollback
  <2>2. Store!Choose(d)
    BY <1>2, <2>1, StartChooses DEF Rollback, Threads, files
  <2> QED BY <2>1, <2>2 DEF Store!Next
<1>3. /\ lkg \in Doc \cup {None, Torn} /\ lkg \in Store!Kept
      /\ \A v \in Versions : saved[v] \in Doc \cup {None, Torn} /\ saved[v] \in Store!Kept
  BY DEF StoreInv, IInv, TypeOK, Store!Kept
<1> QED BY <1>1, <1>2, <1>3

LEMMA StepRefines ==
    ASSUME ~Concurrent, StoreInv, [Next]_vars
    PROVE  [Store!Next]_<<running, file, lkg, saved, InHand, up>>
<1>1. TypeOK
  BY DEF StoreInv, IInv
<1>2. CASE Look
  <2>1. file \in Doc /\ Poll \in Threads
    BY <1>1, <1>2 DEF Look, TypeOK, Threads
  <2>2. Store!Choose(file)
    BY <1>2, <2>1, StartChooses DEF Look, files
  <2> QED BY <2>1, <2>2 DEF Store!Next
<1>3. CASE Compare
  <2>1. Poll \in Threads /\ pc[Poll] # "idle" /\ UNCHANGED <<running, files, up>>
    BY <1>3 DEF Compare, At, Threads
  <2>2. \A u \in Threads : u # Poll => pc[u] = "idle"
    BY <2>1, OthersIdle DEF StoreInv
  <2>3. CASE UNCHANGED doc
    BY <2>1, <2>3 DEF files, InHand
  <2>4. CASE Finish(Poll)
    <3>1. InHand # {}
      BY <1>1, <2>1, <2>2, OneInHand DEF TypeOK
    <3>2. InHand' = {}
      BY <1>1, <2>1, <2>2, <2>4, TakenInHand DEF Finish
    <3>3. Store!LetGo
      BY <2>1, <3>1, <3>2 DEF files, Store!LetGo
    <3> QED BY <3>3 DEF Store!Next
  <2> QED BY <1>3, <2>3, <2>4 DEF Compare
<1>4. ASSUME NEW c \in Contents, Edit(c)
      PROVE  Store!Next
  <2>0. file \in Doc
    BY <1>1, <1>4 DEF Edit, TypeOK
  <2>1. file.version + 1 \in Versions
    BY <1>4, <2>0, FirstVersion, ConfigLifecycleAssumption DEF Edit, TypeOK, Doc, Versions
  <2>2. file' \in Doc /\ file'.version = file.version + 1
    BY <1>4, <2>1 DEF Edit, Doc
  <2>3. Store!Edit(file')
    BY <1>4, <2>2 DEF Edit, InHand, Store!Edit
  <2> QED BY <2>2, <2>3 DEF Store!Next
<1>5. CASE Crash
  <2>1. InHand' = {}
    BY <1>5 DEF Crash, InHand
  <2>2. Store!Crash
    BY <1>5, <2>1 DEF Crash, files, Store!Crash
  <2> QED BY <2>2 DEF Store!Next
<1>6. CASE Restart
  <2>1. file \in Accepted
    BY <1>1, <1>6, AcceptedDoc DEF Restart, TypeOK
  <2>2. Store!Resume
    BY <1>6, <2>1 DEF Restart, files, InHand, Store!Resume
  <2> QED BY <2>2 DEF Store!Next
<1>7. CASE UNCHANGED vars
  BY <1>7 DEF vars, files, InHand
<1> QED BY <1>2, <1>3, <1>4, <1>5, <1>6, <1>7, ReloadRefines, HandlerRefines DEF Next

\* Engine, file, backups, watcher and handlers together are a store that replaces its
\* document in one step, by a valid one and after keeping the old one -- with one
\* handler or cycle at a time, and an editor and crashes at any moment.
THEOREM StoreRefinement ==
    ASSUME ~Concurrent
    PROVE  Spec => ImplementsStore
<1>1. Init => StoreInv
  BY InitGood, SeqInit DEF StoreInv
<1>2. StoreInv /\ [Next]_vars => StoreInv'
  BY StepGood, SeqStep DEF StoreInv
<1>3. Init => Store!Init
  <2> SUFFICES ASSUME Init PROVE Store!Init
    OBVIOUS
  <2>1. running \in Accepted
    BY InitGood DEF IInv, KnownGoodOrTorn
  <2>2. InHand = {}
    BY DEF Init, InHand
  <2> QED BY <2>1, <2>2 DEF Init, Store!Init
<1>4. StoreInv /\ [Next]_vars => [Store!Next]_<<running, file, lkg, saved, InHand, up>>
  BY StepRefines
<1> QED BY <1>1, <1>2, <1>3, <1>4, PTL DEF Spec, ImplementsStore, Store!Spec
-----------------------------------------------------------------------------
(***************************************************************************)
(* Every save is kept, as the installer's guide promises, as long as       *)
(* nobody rolls back or edits the file: the versions then go up by one     *)
(* with each save, and a number is never given to a second document.       *)
(***************************************************************************)
Ahead == {"mark", "fetch", "persist"}

\* Engine and watcher are in step with the file but for the reload under way, which
\* is one version ahead and has put what is in the file into the history.
InStep ==
    /\ up /\ (\A t \in Threads : pc[t] \notin Ahead)
         => running = file /\ lastSeen = file.version
    /\ \A t \in Threads :
         /\ pc[t] \in {"backup", "save", "swap"} => doc[t].version = file.version + 1
         /\ pc[t] \in Ahead => running.version = file.version + 1 /\ saved[file.version] = file
         /\ pc[t] \in {"fetch", "persist"} => lastSeen = running.version
    /\ pc[Poll] \in {"idle", "looked"} /\ (pc[Poll] = "looked" => doc[Poll] = file)

\* What was saved is in the file or in the history under its version.
SavesKept == \A d \in acked :
    /\ d.version <= file.version
    /\ d = IF d.version = file.version THEN file ELSE saved[d.version]

SavesInv == SeqInv /\ InStep /\ SavesKept

LEMMA SavesInit ==
    ASSUME Init
    PROVE  SavesInv
<1>1. \A t \in Threads : pc[t] = "idle"
  BY DEF Init
<1>2. Poll \in Threads /\ running = file /\ lastSeen = file.version
  BY DEF Init, Threads
<1>3. InStep
  BY <1>1, <1>2 DEF InStep, Ahead
<1> QED BY <1>3, SeqInit DEF Init, SavesInv, SavesKept

LEMMA SavesReload ==
    ASSUME ~Concurrent, SavesInv, TypeOK', NEW t \in Threads, ReloadStep(t)
    PROVE  InStep' /\ SavesKept'
<1> USE DEF At, Goto
<1>1. pc[t] \notin {"idle", "looked"} /\ up /\ TypeOK
  BY DEF SavesInv, SeqInv, ReloadStep, Backup, SaveVersion, Swap, MarkSeen, Fetch, Persist
<1>2. t # Poll /\ Poll \in Threads
  BY <1>1 DEF SavesInv, InStep, Threads
<1>3. \A u \in Threads : u # t => pc[u] = "idle"
  BY <1>1, OthersIdle DEF SavesInv
<1>4. file \in Doc /\ file.version \in Versions /\ file.version \in Int
  BY <1>1, FirstVersion DEF SavesInv, SeqInv, Whole, TypeOK, Doc
<1>a. /\ \A own, theirs, current : Written(t, own, theirs, current) = {own}
      /\ ~RenameRaises(t)
  BY <1>1, WritesAlone DEF SavesInv
<1>5. pc[t] \notin Ahead => running = file /\ lastSeen = file.version
  BY <1>1, <1>3 DEF SavesInv, InStep, Ahead
<1>6. ASSUME NEW label, Goto(t, label)
      PROVE  pc'[t] = label /\ \A u \in Threads : u # t => pc'[u] = "idle"
  BY <1>1, <1>3, <1>6 DEF TypeOK
<1>7. CASE Backup(t)
  <2>1. pc'[t] = "save" /\ pc[t] = "backup" /\ \A u \in Threads : u # t => pc'[u] = "idle"
    BY <1>6, <1>7, <1>a DEF Backup
  <2>2. UNCHANGED <<running, lastSeen, file, saved, doc, acked>>
    BY <1>7, <1>a DEF Backup
  <2> QED BY <1>2, <1>5, <2>1, <2>2 DEF SavesInv, InStep, SavesKept, Ahead
<1>8. CASE SaveVersion(t)
  <2>1. pc'[t] = "swap" /\ pc[t] = "save" /\ \A u \in Threads : u # t => pc'[u] = "idle"
    BY <1>6, <1>8, <1>a DEF SaveVersion
  <2>2. UNCHANGED <<running, lastSeen, file, doc, acked>>
    BY <1>8, <1>a DEF SaveVersion
  <2>3. \A v \in Versions : v # file.version => saved'[v] = saved[v]
    BY <1>1, <1>5, <1>8, <2>1 DEF SaveVersion, TypeOK, Ahead
  <2>4. InStep'
    BY <1>2, <1>5, <2>1, <2>2 DEF SavesInv, InStep, Ahead
  <2>5. \A d \in acked : d.version \in Versions
    BY <1>1 DEF TypeOK, Doc
  <2> QED BY <2>2, <2>3, <2>4, <2>5 DEF SavesInv, SavesKept
<1>9. CASE Swap(t)
  <2>1. pc'[t] = "mark" /\ pc[t] = "swap" /\ \A u \in Threads : u # t => pc'[u] = "idle"
    BY <1>6, <1>9 DEF Swap
  <2>2. running' = doc[t] /\ UNCHANGED <<lastSeen, file, saved, doc, acked>>
    BY <1>9 DEF Swap, files, watch
  <2>3. saved[file.version] = file
    BY <1>5, <2>1 DEF SavesInv, SeqInv, Progress, Ahead
  <2>4. doc[t].version = file.version + 1
    BY <2>1 DEF SavesInv, InStep
  <2>5. InStep'
    BY <1>2, <2>1, <2>2, <2>3, <2>4 DEF InStep, Ahead
  <2> QED BY <2>2, <2>5 DEF SavesInv, SavesKept
<1>10. CASE MarkSeen(t)
  <2>1. Goto(t, "fetch") /\ pc[t] = "mark" /\ UNCHANGED <<running, file, saved, doc, acked>>
    BY <1>2, <1>10 DEF MarkSeen, files
  <2>2. pc'[t] = "fetch" /\ \A u \in Threads : u # t => pc'[u] = "idle"
    BY <1>6, <2>1
  <2>3. lastSeen' = running.version
    BY <1>10, <2>1 DEF MarkSeen, Seen, SavesInv, SeqInv, Progress
  <2>4. running.version = file.version + 1 /\ saved[file.version] = file
    BY <2>1 DEF SavesInv, InStep, Ahead
  <2>5. InStep'
    BY <1>2, <2>1, <2>2, <2>3, <2>4 DEF InStep, Ahead
  <2> QED BY <2>1, <2>5 DEF SavesInv, SavesKept
<1>11. CASE Fetch(t)
  <2>1. pc'[t] = "persist" /\ pc[t] = "fetch" /\ \A u \in Threads : u # t => pc'[u] = "idle"
    BY <1>6, <1>11 DEF Fetch
  <2>2. UNCHANGED <<running, lastSeen, file, saved, doc, acked>>
    BY <1>11 DEF Fetch, files, watch
  <2>3. InStep'
    BY <1>2, <2>1, <2>2 DEF SavesInv, InStep, Ahead
  <2> QED BY <2>2, <2>3 DEF SavesInv, SavesKept
<1>12. CASE Persist(t)
  <2>1. Goto(t, "idle") /\ pc[t] = "persist"
    BY <1>12, <1>a DEF Persist, Finish, Take
  <2>2. \A u \in Threads : pc'[u] = "idle"
    BY <1>6, <2>1
  <2>3. /\ file' = running /\ doc[t] = running /\ acked' = acked \cup {running}
        /\ UNCHANGED <<running, lastSeen, saved>>
    BY <1>12, <1>a, <2>1 DEF Persist, Fetched, SavesInv, SeqInv, Progress
  <2>4. /\ running.version = file.version + 1 /\ saved[file.version] = file
        /\ lastSeen = running.version
    BY <2>1 DEF SavesInv, InStep, Ahead
  <2>5. InStep'
    BY <1>2, <2>2, <2>3, <2>4 DEF InStep, Ahead
  <2>6. ASSUME NEW d \in acked
        PROVE  d.version < file'.version /\ d = saved'[d.version]
    <3>1. d.version \in Int
      BY <1>1, FirstVersion DEF TypeOK, Doc
    <3>2. d.version <= file.version /\ d = saved[d.version]
      BY <2>4 DEF SavesInv, SavesKept
    <3> QED BY <1>4, <2>3, <2>4, <3>1, <3>2
  <2>7. running.version <= running.version
    BY <1>4, <2>4
  <2>8. SavesKept'
    <3>1. ASSUME NEW d \in acked'
          PROVE  /\ d.version <= file'.version
                 /\ d = IF d.version = file'.version THEN file' ELSE saved'[d.version]
      <4>1. CASE d = running
        BY <2>3, <2>7, <4>1
      <4>2. CASE d \in acked
        <5>1. d.version \in Int /\ file'.version \in Int
          BY <1>1, <1>4, <2>3, <2>4, <4>2, FirstVersion DEF TypeOK, Doc
        <5> QED BY <2>6, <4>2, <5>1
      <4> QED BY <2>3, <3>1, <4>1, <4>2
    <3> QED BY <3>1 DEF SavesKept
  <2> QED BY <2>5, <2>8
<1> QED BY <1>7, <1>8, <1>9, <1>10, <1>11, <1>12 DEF ReloadStep

LEMMA SavesStep ==
    ASSUME ~Concurrent, ~Rollbacks, ~Editing, SavesInv, [Next]_vars
    PROVE  SavesInv'
<1> USE DEF At, Goto
<1>1. SeqInv' /\ TypeOK' /\ TypeOK /\ Poll \in Threads
  BY SeqStep DEF SavesInv, SeqInv, Threads
<1> SUFFICES InStep' /\ SavesKept'
  BY <1>1 DEF SavesInv
<1>2. ASSUME NEW t \in Threads, MayStart(t)
      PROVE  \A u \in Threads : pc[u] = "idle"
  BY <1>2 DEF MayStart
<1>3. ASSUME NEW t \in Handlers, NEW c \in Contents, Put(t, c)
      PROVE  InStep' /\ SavesKept'
  <2>1. t \in Threads /\ t # Poll /\ \A u \in Threads : pc[u] = "idle"
    BY <1>2, <1>3, ConfigLifecycleAssumption DEF Put, Threads
  <2>2. /\ pc'[t] = "backup" /\ doc'[t].version = running.version + 1
        /\ \A u \in Threads : u # t => pc'[u] = "idle"
    BY <1>1, <1>3, <2>1 DEF Put, Take, TypeOK
  <2>3. UNCHANGED <<running, lastSeen, file, saved, up, acked>>
    BY <1>3 DEF Put, files, watch
  <2>4. up /\ running = file /\ lastSeen = file.version
    BY <1>3, <2>1 DEF Put, MayStart, SavesInv, InStep, Ahead
  <2>5. InStep'
    BY <1>1, <2>1, <2>2, <2>3, <2>4 DEF InStep, Ahead
  <2> QED BY <2>3, <2>5 DEF SavesInv, SavesKept
<1>4. ASSUME NEW t \in Handlers, NEW d
      PROVE  ~Rollback(t, d)
  BY DEF Rollback
<1>5. CASE Look
  <2>1. \A u \in Threads : pc[u] = "idle"
    BY <1>1, <1>2, <1>5 DEF Look
  <2>2. /\ pc'[Poll] = "looked" /\ doc'[Poll] = file
        /\ \A u \in Threads : u # Poll => pc'[u] = "idle"
    BY <1>1, <1>5, <2>1 DEF Look, Take, TypeOK
  <2>3. UNCHANGED <<running, lastSeen, file, saved, up, acked>>
    BY <1>5 DEF Look, files, watch
  <2>4. up /\ running = file /\ lastSeen = file.version
    BY <1>5, <2>1 DEF Look, MayStart, SavesInv, InStep, Ahead
  <2>5. InStep'
    BY <1>1, <2>1, <2>2, <2>3, <2>4 DEF InStep, Ahead
  <2> QED BY <2>3, <2>5 DEF SavesInv, SavesKept
<1>6. CASE Compare
  <2>1. up /\ pc[Poll] = "looked" /\ doc[Poll] = file
    BY <1>6 DEF Compare, SavesInv, InStep
  <2>2. \A u \in Threads : u # Poll => pc[u] = "idle"
    BY <1>1, <2>1, OthersIdle DEF SavesInv
  <2>3. running = file /\ lastSeen = file.version
    BY <2>1, <2>2 DEF SavesInv, InStep, Ahead
  <2>4. Goto(Poll, "idle") /\ UNCHANGED <<running, lastSeen, file, saved, up, acked>>
    BY <1>6, <2>1, <2>3 DEF Compare, IsNew, Finish, Take, files, watch
  <2>5. \A u \in Threads : pc'[u] = "idle"
    BY <1>1, <2>2, <2>4 DEF TypeOK
  <2>6. InStep'
    BY <1>1, <2>3, <2>4, <2>5 DEF InStep, Ahead
  <2> QED BY <2>4, <2>6 DEF SavesInv, SavesKept
<1>7. ASSUME NEW c \in Contents
      PROVE  ~Edit(c)
  BY DEF Edit
<1>8. CASE Crash
  <2>1. ~up' /\ \A u \in Threads : pc'[u] = "idle"
    BY <1>8 DEF Crash
  <2>2. UNCHANGED <<file, saved, acked>>
    BY <1>8 DEF Crash, files
  <2>3. InStep'
    BY <1>1, <2>1 DEF InStep, Ahead
  <2> QED BY <2>2, <2>3 DEF SavesInv, SavesKept
<1>9. CASE Restart
  <2>1. \A u \in Threads : pc'[u] = "idle"
    BY <1>1, <1>9 DEF Restart, TypeOK
  <2>2. /\ running' = file /\ lastSeen' = file.version
        /\ UNCHANGED <<file, saved, acked>>
    BY <1>9 DEF Restart, files
  <2>3. InStep'
    BY <1>1, <2>1, <2>2 DEF InStep, Ahead
  <2> QED BY <2>2, <2>3 DEF SavesInv, SavesKept
<1>10. CASE UNCHANGED vars
  BY <1>10 DEF vars, files, watch, SavesInv, InStep, SavesKept
<1>11. ASSUME NEW t \in Threads, ReloadStep(t)
       PROVE  InStep' /\ SavesKept'
  BY <1>1, <1>11, SavesReload
<1> QED BY <1>3, <1>4, <1>5, <1>6, <1>7, <1>8, <1>9, <1>10, <1>11 DEF Next

\* "Every save you make is kept" (INSTALLER_GUIDE.md): where nobody rolls back or edits
\* the file, whatever a client was told is saved is running, in the file or in the
\* history, for any number of handlers and crashes.  A rollback refutes it
\* (ConfigLifecycleHistory.cfg), and so does an edit with a crash after it.
THEOREM SavesAreKept ==
    ASSUME ~Concurrent, ~Rollbacks, ~Editing
    PROVE  Spec => []HistoryKept
<1>1. SavesInv /\ [Next]_vars => SavesInv'
  BY SavesStep
<1>2. SavesInv => HistoryKept
  BY DEF SavesInv, SavesKept, HistoryKept
<1> QED BY SavesInit, <1>1, <1>2, PTL DEF Spec
=============================================================================
