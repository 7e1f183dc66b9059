---------------------------- MODULE SystemStore ----------------------------
(***************************************************************************)
(* PUT /api/system: validate, have the privileged helper apply, and only   *)
(* then record.  The helper is a NetworkApplier, modelled by its result.   *)
(***************************************************************************)
EXTENDS AdminProcess

CONSTANTS
    Systems, Valid,     \* network, broker and time settings; those of the schema
    Factory,            \* what a unit comes with
    NoSystem

ASSUME SystemAssumption ==
    /\ Valid \subseteq Systems /\ Factory \in Valid
    /\ {NoSystem, Absent, Partial, Mixed} \cap Systems = {}

VARIABLES
    sysFile,    \* the file of the recorded settings and its temporary file
    inForce,    \* the settings of the operating system
    asked,      \* per handler: new_config
    applied     \* history: settings that were in force

systemVars == <<sysFile, inForce, asked, applied>>

SystemInit ==
    /\ sysFile = Saved(Factory) /\ inForce = Factory /\ applied = {Factory}
    /\ asked = [h \in Handlers |-> NoSystem]

PutSystem(h, s) ==
    /\ MayStart(h) /\ s \in Valid
    /\ Goto(h, "apply") /\ asked' = [asked EXCEPT ![h] = s]
    /\ UNCHANGED <<process, sysFile, inForce, applied>>

Applied(h) ==
    /\ At(h, "apply") /\ Goto(h, "open system")
    /\ inForce' = asked[h] /\ applied' = applied \cup {asked[h]}
    /\ UNCHANGED <<process, sysFile, asked>>

AnswerSystem(h) ==
    /\ Goto(h, "idle") /\ asked' = [asked EXCEPT ![h] = NoSystem]

\* Slips: a helper that reports failure is not heeded; the request is kept.
NotAppliedUnheeded(h) ==
    /\ At(h, "apply") /\ Goto(h, "open system")
    /\ UNCHANGED <<process, sysFile, inForce, asked, applied>>

NotAppliedKeeping(h) ==
    /\ At(h, "apply") /\ Goto(h, "idle")
    /\ UNCHANGED <<process, sysFile, inForce, asked, applied>>

\* The helper reports failure, or raises.
NotApplied(h) ==
    /\ At(h, "apply") /\ AnswerSystem(h)
    /\ UNCHANGED <<process, sysFile, inForce, applied>>

OpenSystem(h) ==
    /\ At(h, "open system") /\ Goto(h, "write system")
    /\ sysFile' = Opened(sysFile, h)
    /\ UNCHANGED <<process, inForce, asked, applied>>

WriteSystem(h) ==
    /\ At(h, "write system") /\ Goto(h, "rename system")
    /\ sysFile' \in Written(sysFile, h, asked[h])
    /\ UNCHANGED <<process, inForce, asked, applied>>

\* The settings are recorded, or, when another request has renamed the temporary file
\* away, in force and not recorded.
RenameSystem(h) ==
    /\ At(h, "rename system") /\ AnswerSystem(h)
    /\ sysFile' = IF sysFile.tmp = Absent THEN sysFile ELSE Renamed(sysFile)
    /\ UNCHANGED <<process, inForce, applied>>

\* The part of a crash that this store sees: settings in force outlive it.
SystemCrash ==
    /\ asked' = [h \in Handlers |-> NoSystem] /\ sysFile' = Saved(sysFile.path)
    /\ UNCHANGED <<inForce, applied>>

SystemNext == \E h \in Handlers :
    \/ \E s \in Systems : PutSystem(h, s)
    \/ Applied(h) \/ NotApplied(h)
    \/ OpenSystem(h) \/ WriteSystem(h) \/ RenameSystem(h)

-----------------------------------------------------------------------------
SystemTypeOK ==
    /\ sysFile \in FileOf(Valid) /\ sysFile.path # Absent
    /\ inForce \in Valid /\ applied \subseteq Valid
    /\ asked \in [Handlers -> Valid \cup {NoSystem}]
    /\ \A h \in Handlers :
         /\ pc[h] \in {"apply", "open system", "write system", "rename system"}
              <=> asked[h] # NoSystem
         /\ sysFile.open[h] # "no" <=> pc[h] = "write system"

\* system_store.py: a change "that the privileged helper couldn't actually carry out
\* must not be recorded as if it had been", whatever overlaps and wherever it dies:
\* settings that can be read from the file were in force.
RecordedWasApplied == sysFile.path \in applied \cup {Partial, Mixed}

-----------------------------------------------------------------------------
\* The rest does not hold under AdminApi.cfg.

\* With no request under way, what is recorded is in force.
InForceIsRecorded ==
    process = "up" /\ (\A h \in Handlers : pc[h] = "idle") => sysFile.path = inForce
=============================================================================
