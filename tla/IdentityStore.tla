--------------------------- MODULE IdentityStore ---------------------------
(***************************************************************************)
(* ctrl_id.json: written once by identity.load_identity when it does not   *)
(* exist, afterwards only by PUT /api/identity, which reads it, writes it  *)
(* and then files an identity_change event, with other threads in between. *)
(* The engine stamps its events with the identity it was started with.     *)
(***************************************************************************)
EXTENDS AdminProcess

CONSTANTS
    Fields, Values,     \* EDITABLE_FIELDS and what they may hold
    BootIds,            \* what uuid4 may return
    None                \* no identity

Identity == [fields : [Fields -> Values], boot_id : BootIds]

\* The updates of a request: some of the fields.
Updates == UNION {[S -> Values] : S \in SUBSET Fields}

ASSUME IdentityAssumption ==
    {None, Absent, Partial, Mixed} \cap Identity = {}

VARIABLES
    idFile,     \* ctrl_id.json and its temporary file
    ident,      \* poll_engine.ident
    current,    \* per handler: the identity it has read ...
    renewed,    \* ... and new_identity
    named,      \* identities that an identity_change event in the log names as new
    lived,      \* history: identities that were in the file
    cut         \* history: new identities whose request failed before their event

identityVars == <<idFile, ident, current, renewed, named, lived, cut>>

IdentityInit ==
    /\ idFile = Saved(Absent) /\ ident = None
    /\ current = [h \in Handlers |-> None] /\ renewed = [h \in Handlers |-> None]
    /\ named = {} /\ lived = {} /\ cut = {}

-----------------------------------------------------------------------------
\* Slip: first boot is not told from any other.
ProvisionAlways(defaults, id) ==
    /\ process = "down"
    /\ process' = "booting" /\ idFile' = Saved(Partial)
    /\ ident' = [fields |-> defaults, boot_id |-> id]
    /\ UNCHANGED <<pc, current, renewed, named, lived, cut>>

\* load_identity on a unit without an identity: write_text opens the file ...
Provision(defaults, id) ==
    /\ process = "down" /\ idFile.path = Absent
    /\ process' = "booting" /\ idFile' = Saved(Partial)
    /\ ident' = [fields |-> defaults, boot_id |-> id]
    /\ UNCHANGED <<pc, current, renewed, named, lived, cut>>

\* ... and has written it.
Provisioned ==
    /\ process = "booting"
    /\ process' = "up" /\ idFile' = Saved(ident) /\ lived' = lived \cup {ident}
    /\ UNCHANGED <<pc, ident, current, renewed, named, cut>>

\* load_identity on a provisioned unit; a partial or mixed file raises, on every boot.
LoadIdentity ==
    /\ process = "down" /\ idFile.path \in Identity
    /\ process' = "up" /\ ident' = idFile.path
    /\ UNCHANGED <<pc, idFile, current, renewed, named, lived, cut>>

-----------------------------------------------------------------------------
\* update_identity refuses a body with a boot_id, with an unknown field or without
\* the confirmation, and otherwise reads the file, if it can be.
PutIdentity(h, updates, bootId, confirm) ==
    /\ MayStart(h) /\ bootId = None /\ confirm /\ idFile.path \in Identity
    /\ Goto(h, "open identity")
    /\ current' = [current EXCEPT ![h] = idFile.path]
    /\ renewed' = [renewed EXCEPT ![h] = [idFile.path EXCEPT !.fields =
          [f \in Fields |-> IF f \in DOMAIN updates THEN updates[f] ELSE @[f]]]]
    /\ UNCHANGED <<process, idFile, ident, named, lived, cut>>

OpenIdentity(h) ==
    /\ At(h, "open identity") /\ Goto(h, "write identity")
    /\ idFile' = Opened(idFile, h)
    /\ UNCHANGED <<process, ident, current, renewed, named, lived, cut>>

Lives == lived' = lived \cup ({idFile'.path} \cap Identity)

WriteIdentity(h) ==
    /\ At(h, "write identity") /\ Goto(h, "rename identity")
    /\ idFile' \in Written(idFile, h, renewed[h]) /\ Lives
    /\ UNCHANGED <<process, ident, current, renewed, named, cut>>

RenameIdentity(h) ==
    /\ At(h, "rename identity") /\ Goto(h, "file event") /\ idFile.tmp # Absent
    /\ idFile' = Renamed(idFile) /\ Lives
    /\ UNCHANGED <<process, ident, current, renewed, named, cut>>

Answer(h) ==
    /\ Goto(h, "idle")
    /\ current' = [current EXCEPT ![h] = None]
    /\ renewed' = [renewed EXCEPT ![h] = None]

\* Another request has renamed the temporary file away: FileNotFoundError, no event.
RenameIdentityRaises(h) ==
    /\ At(h, "rename identity") /\ Answer(h) /\ idFile.tmp = Absent
    /\ cut' = cut \cup {renewed[h]}
    /\ UNCHANGED <<process, idFile, ident, named, lived>>

\* Slip: the event is made from the file, which another request may have written
\* meanwhile.
FileEventFromFile(h) ==
    /\ At(h, "file event") /\ Answer(h)
    /\ named' = named \cup ({idFile.path} \cap Identity)
    /\ UNCHANGED <<process, idFile, ident, lived, cut>>

\* The event carries what changed and is stamped with the identity that was read.
FileEvent(h) ==
    /\ At(h, "file event") /\ Answer(h)
    /\ named' = named \cup {renewed[h]}
    /\ UNCHANGED <<process, idFile, ident, lived, cut>>

\* The database is locked or full: the identity is written, the request fails.
FileEventRaises(h) ==
    /\ At(h, "file event") /\ Answer(h)
    /\ cut' = cut \cup {renewed[h]}
    /\ UNCHANGED <<process, idFile, ident, named, lived>>

\* A request that has written its identity and not filed the event.
Unfiled(h) == pc[h] \in {"rename identity", "file event"}

\* The part of a crash that this store sees; the next process has a temporary name of
\* its own.
IdentityCrash ==
    /\ cut' = cut \cup {renewed[h] : h \in {g \in Handlers : Unfiled(g)}}
    /\ ident' = None /\ idFile' = Saved(idFile.path)
    /\ current' = [h \in Handlers |-> None] /\ renewed' = [h \in Handlers |-> None]
    /\ UNCHANGED <<named, lived>>

IdentityNext ==
    \/ \E defaults \in [Fields -> Values], id \in BootIds : Provision(defaults, id)
    \/ Provisioned \/ LoadIdentity
    \/ \E h \in Handlers :
         \/ \E updates \in Updates, b \in BootIds \cup {None}, confirm \in BOOLEAN :
              PutIdentity(h, updates, b, confirm)
         \/ OpenIdentity(h) \/ WriteIdentity(h)
         \/ RenameIdentity(h) \/ RenameIdentityRaises(h)
         \/ FileEvent(h) \/ FileEventRaises(h)

-----------------------------------------------------------------------------
Editing(h) ==
    pc[h] \in {"open identity", "write identity", "rename identity", "file event"}

IdentityTypeOK ==
    /\ idFile \in FileOf(Identity)
    /\ process = "up" => idFile.path # Absent
    /\ process = "booting" => idFile = Saved(Partial)
    /\ process = "down" => idFile = Saved(idFile.path)
    /\ ident \in Identity \cup {None} /\ (process = "down" <=> ident = None)
    /\ current \in [Handlers -> Identity \cup {None}]
    /\ renewed \in [Handlers -> Identity \cup {None}]
    /\ \A h \in Handlers :
         /\ Editing(h) <=> current[h] # None
         /\ Editing(h) <=> renewed[h] # None
         /\ idFile.open[h] # "no" <=> pc[h] = "write identity"
    /\ named \subseteq Identity /\ lived \subseteq Identity /\ cut \subseteq Identity

\* "boot_id is the one field in this whole system that no HTTP request is ever
\* allowed to change" (identity_store.py); nor does any crash during the first boot
\* or any restart give a unit that has run a second one.
BootIdFixed == \A i, j \in lived : i.boot_id = j.boot_id

\* An event names i, or the request i comes from has failed (a crash, the database, the
\* rename) or has yet to file one.
Named(i) ==
    \/ i \in named
    \/ i \in cut
    \/ \E h \in Handlers : Unfiled(h) /\ renewed[h] = i

\* "Every successful edit is logged, never silent" (identity_store.py): whatever the
\* requests do to each other, also in the temporary file they share, of two identities
\* that have been in the file at most one, that of the first boot, is not Named.
Traceable == \A i, j \in lived : i # j => Named(i) \/ Named(j)

-----------------------------------------------------------------------------
\* The rest does not hold under AdminApi.cfg.

\* An edit keeps what others have edited since it read the file.
NoLostUpdate ==
    [][\A h \in Handlers : At(h, "rename identity") /\ pc'[h] = "file event"
         => idFile.path = current[h]]_<<pc, idFile>>

\* identity_store.py: the event "is the last thing filed under the identity that's
\* about to stop being used": what the engine stamps its events with is on the disk.
StampIsCurrent ==
    process = "up" /\ (\A h \in Handlers : pc[h] = "idle") => ident = idFile.path

\* config_store.py: "never a partial `path`", once the unit has been provisioned: it
\* boots again.
Readable == process = "up" => idFile.path \in Identity

\* What an event names was in the file.
NamedHasLived == named \subseteq lived
=============================================================================
