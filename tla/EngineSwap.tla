----------------------------- MODULE EngineSwap -----------------------------
(***************************************************************************)
(* PollEngine.reload replaces its attributes one after the other while the *)
(* other threads look points, devices and clients up in them one after the *)
(* other.  What a thread gets is told by generations: the running number   *)
(* of the accepted document that an attribute was built from.  The coil    *)
(* values are HotReload's, the files ConfigLifecycle's.                    *)
(***************************************************************************)
EXTENDS Integers, Sequences

CONSTANTS
    Threads, Poll,  \* all threads; the one of the poll loop
    Points, Units,
    Hosts,          \* what a client is connected to
    None,           \* no unit, no host: the document does not have it
    Docs, Start,    \* documents that pass validation; the one at startup
    MaxReloads,     \* bound on the swaps begun
    ReloadsAtOnce   \* FALSE: a reload starts when no other is under way

Attributes == {"io_config", "clients", "plan", "rules", "debouncer", "devices", "points"}

ASSUME DocsAssumption ==
    /\ Poll \in Threads
    /\ None \notin Units \cup Hosts
    /\ Docs \subseteq [unit : [Points -> Units \cup {None}],
                       host : [Units -> Hosts \cup {None}],
                       outputs : SUBSET Points]
    /\ \A d \in Docs : \A p \in Points :        \* no matching device, validators.py
           /\ p \in d.outputs => d.unit[p] # None
           /\ d.unit[p] # None => d.host[d.unit[p]] # None
    /\ Start \in Docs
    /\ MaxReloads \in Nat /\ ReloadsAtOnce \in BOOLEAN

VARIABLES
    docs,       \* accepted documents; a generation is an index
    engine,     \* attribute -> generation
    open,       \* generations whose clients are connected
    pc,
    reload,     \* per thread: document at hand, old_clients, attributes assigned
    todo,       \* per thread: points still to write, units still to read
    hand        \* per thread: what its lookups have returned

vars == <<docs, engine, open, pc, reload, todo, hand>>

Gens == 1 .. Len(docs)
Doc(a) == docs[engine[a]]

\* Slip: the points are replaced before the devices and clients they need.
PointsFirst ==
    <<"points", "clients", "plan", "rules", "debouncer", "devices", "io_config">>

\* The order of the assignments in reload.
Order == <<"io_config", "clients", "plan", "rules", "debouncer", "devices", "points">>

\* job: who called; asked: generation the name (or the plan entry) came from;
\* table, device, client: generations of the three lookups; 0: not yet.
Empty == [job |-> "none", asked |-> 0, point |-> None, unit |-> None,
          table |-> 0, device |-> 0, client |-> 0]
NoReload == [doc |-> Start, old |-> 0, done |-> 0]

Init ==
    /\ docs = <<Start>>
    /\ engine = [a \in Attributes |-> 1]
    /\ open = {1}                               \* connect()
    /\ pc = [t \in Threads |-> "idle"]
    /\ reload = [t \in Threads |-> NoReload]
    /\ todo = [t \in Threads |-> {}]
    /\ hand = [t \in Threads |-> Empty]

-----------------------------------------------------------------------------
Reloading(t) == pc[t] \in {"assign", "close"} \/ hand[t].job = "walk"

Done(t) ==
    /\ pc' = [pc EXCEPT ![t] = "idle"]
    /\ todo' = [todo EXCEPT ![t] = {}]
    /\ hand' = [hand EXCEPT ![t] = Empty]

\* An exception (KeyError) leaves the cycle or the handler.
Raise(t) == Done(t) /\ UNCHANGED <<docs, engine, open, reload>>

-----------------------------------------------------------------------------
\* PollEngine.write_point for the points in todo, one attribute at a time.
LookPoint(t, p) ==
    /\ pc[t] = "write" /\ p \in todo[t]
    /\ Doc("points").unit[p] # None
    /\ pc' = [pc EXCEPT ![t] = "device"]
    /\ todo' = [todo EXCEPT ![t] = @ \ {p}]
    /\ hand' = [hand EXCEPT ![t].point = p, ![t].unit = Doc("points").unit[p],
                            ![t].table = engine["points"],
                            ![t].device = 0, ![t].client = 0]
    /\ UNCHANGED <<docs, engine, open, reload>>

LookDevice(t) ==
    /\ pc[t] = "device"
    /\ Doc("devices").host[hand[t].unit] # None
    /\ pc' = [pc EXCEPT ![t] = "client"]
    /\ hand' = [hand EXCEPT ![t].device = engine["devices"]]
    /\ UNCHANGED <<docs, engine, open, reload, todo>>

LookClient(t) ==
    /\ pc[t] = "client"
    /\ Doc("clients").host[hand[t].unit] # None
    /\ pc' = [pc EXCEPT ![t] = "call"]
    /\ hand' = [hand EXCEPT ![t].client = engine["clients"]]
    /\ UNCHANGED <<docs, engine, open, reload, todo>>

LookMissing(t) ==
    /\ \/ pc[t] = "write" /\ \E p \in todo[t] : Doc("points").unit[p] = None
       \/ pc[t] = "device" /\ Doc("devices").host[hand[t].unit] = None
       \/ pc[t] = "client" /\ Doc("clients").host[hand[t].unit] = None
    /\ Raise(t)

\* The call on the client that was looked up; pymodbus connects on demand,
\* which is how the clients of a reload get connected at all.
Call(t) ==
    /\ pc[t] = "call"
    /\ open' = open \cup {hand[t].client}
    /\ pc' = [pc EXCEPT ![t] = IF hand[t].job = "read" THEN "entry" ELSE "write"]
    /\ UNCHANGED <<docs, engine, reload, todo, hand>>

WritesDone(t) ==
    /\ pc[t] = "write" /\ todo[t] = {} /\ hand[t].job # "walk"
    /\ Done(t)
    /\ UNCHANGED <<docs, engine, open, reload>>

-----------------------------------------------------------------------------
\* Slips: the table of points is not replaced; the old clients are closed
\* before anything is; the new document is not counted.
AssignForgettingPoints(t) ==
    /\ pc[t] = "assign"
    /\ engine' = IF reload[t].done = 6 THEN engine
                 ELSE [engine EXCEPT ![Order[reload[t].done + 1]] = hand[t].asked]
    /\ reload' = [reload EXCEPT ![t].done = @ + 1]
    /\ pc' = [pc EXCEPT ![t] = IF reload[t].done = 6 THEN "close" ELSE "assign"]
    /\ UNCHANGED <<docs, open, todo, hand>>

BeginByClosing(t) ==
    /\ pc[t] = "write" /\ todo[t] = {} /\ hand[t].job = "walk"
    /\ Len(docs) <= MaxReloads
    /\ docs' = Append(docs, reload[t].doc)
    /\ open' = open \ {engine["clients"]}
    /\ reload' = [reload EXCEPT ![t] =
                     [doc |-> @.doc, old |-> engine["clients"], done |-> 0]]
    /\ pc' = [pc EXCEPT ![t] = "assign"]
    /\ hand' = [hand EXCEPT ![t] = [Empty EXCEPT !.asked = Len(docs) + 1]]
    /\ UNCHANGED <<engine, todo>>

BeginUncounted(t) ==
    /\ pc[t] = "write" /\ todo[t] = {} /\ hand[t].job = "walk"
    /\ reload' = [reload EXCEPT ![t] =
                     [doc |-> @.doc, old |-> engine["clients"], done |-> 0]]
    /\ pc' = [pc EXCEPT ![t] = "assign"]
    /\ hand' = [hand EXCEPT ![t] = [Empty EXCEPT !.asked = Len(docs) + 1]]
    /\ UNCHANGED <<docs, engine, open, todo>>

\* PollEngine.reload of an accepted document, by a handler or by the watcher.
\* The walk over the outputs goes through write_point like everybody else.
StartReload(t, d) ==
    /\ pc[t] = "idle" /\ Len(docs) <= MaxReloads
    /\ ReloadsAtOnce \/ \A u \in Threads : ~Reloading(u)
    /\ pc' = [pc EXCEPT ![t] = "write"]
    /\ todo' = [todo EXCEPT ![t] = Doc("io_config").outputs]
    /\ hand' = [hand EXCEPT ![t] = [Empty EXCEPT !.job = "walk", !.asked = engine["io_config"]]]
    /\ reload' = [reload EXCEPT ![t] = [NoReload EXCEPT !.doc = d]]
    /\ UNCHANGED <<docs, engine, open>>

\* The walk is over, clients and plan are built; old_clients is taken.
BeginSwap(t) ==
    /\ pc[t] = "write" /\ todo[t] = {} /\ hand[t].job = "walk"
    /\ Len(docs) <= MaxReloads
    /\ docs' = Append(docs, reload[t].doc)
    /\ reload' = [reload EXCEPT ![t] =
                     [doc |-> @.doc, old |-> engine["clients"], done |-> 0]]
    /\ pc' = [pc EXCEPT ![t] = "assign"]
    /\ hand' = [hand EXCEPT ![t] = [Empty EXCEPT !.asked = Len(docs) + 1]]
    /\ UNCHANGED <<engine, open, todo>>

Assign(t) ==
    /\ pc[t] = "assign"
    /\ engine' = [engine EXCEPT ![Order[reload[t].done + 1]] = hand[t].asked]
    /\ reload' = [reload EXCEPT ![t].done = @ + 1]
    /\ pc' = [pc EXCEPT ![t] = IF reload[t].done = 6 THEN "close" ELSE "assign"]
    /\ UNCHANGED <<docs, open, todo, hand>>

CloseOld(t) ==
    /\ pc[t] = "close"
    /\ open' = open \ {reload[t].old}
    /\ reload' = [reload EXCEPT ![t] = NoReload]
    /\ Done(t)
    /\ UNCHANGED <<docs, engine>>

-----------------------------------------------------------------------------
\* run_cycle, of the poll thread or of an update's health check in a handler: the
\* plan is bound once, the client once per entry.
BindPlan(t) ==
    /\ pc[t] = "idle"
    /\ pc' = [pc EXCEPT ![t] = "entry"]
    /\ hand' = [hand EXCEPT ![t] = [Empty EXCEPT !.job = "read", !.asked = engine["plan"]]]
    /\ todo' = [todo EXCEPT ![t] = {Doc("plan").unit[p] : p \in Points} \ {None}]
    /\ UNCHANGED <<docs, engine, open, reload>>

BindClient(t, u) ==
    /\ pc[t] = "entry" /\ u \in todo[t]
    /\ Doc("clients").host[u] # None
    /\ pc' = [pc EXCEPT ![t] = "call"]
    /\ todo' = [todo EXCEPT ![t] = @ \ {u}]
    /\ hand' = [hand EXCEPT ![t].unit = u, ![t].client = engine["clients"]]
    /\ UNCHANGED <<docs, engine, open, reload>>

EntryMissing(t) ==
    /\ pc[t] = "entry" /\ \E u \in todo[t] : Doc("clients").host[u] = None
    /\ Raise(t)

\* evaluate_cycle of the rule engine of the moment; any of its rules may write.
EvaluateRules(t) ==
    /\ pc[t] = "entry" /\ todo[t] = {}
    /\ \E ps \in SUBSET Doc("rules").outputs :
         /\ todo' = [todo EXCEPT ![t] = ps]
    /\ pc' = [pc EXCEPT ![t] = "write"]
    /\ hand' = [hand EXCEPT ![t] = [Empty EXCEPT !.job = "rules", !.asked = engine["rules"]]]
    /\ UNCHANGED <<docs, engine, open, reload>>

-----------------------------------------------------------------------------
\* request_write looks the point up itself before write_point does.
TestWrite(t, p) ==
    /\ pc[t] = "idle" /\ t # Poll /\ p \in Doc("points").outputs
    /\ pc' = [pc EXCEPT ![t] = "write"]
    /\ todo' = [todo EXCEPT ![t] = {p}]
    /\ hand' = [hand EXCEPT ![t] = [Empty EXCEPT !.job = "test", !.asked = engine["points"]]]
    /\ UNCHANGED <<docs, engine, open, reload>>

\* POST /api/bus/scan over RTU: the first client of the moment, then 32 probes.
StartScan(t) ==
    /\ pc[t] = "idle" /\ t # Poll /\ \E u \in Units : Doc("clients").host[u] # None
    /\ pc' = [pc EXCEPT ![t] = "scan"]
    /\ hand' = [hand EXCEPT ![t] = [Empty EXCEPT !.job = "scan", !.client = engine["clients"]]]
    /\ UNCHANGED <<docs, engine, open, reload, todo>>

Probe(t) ==
    /\ pc[t] = "scan"
    /\ open' = open \cup {hand[t].client}
    /\ UNCHANGED <<docs, engine, pc, reload, todo, hand>>

EndScan(t) ==
    /\ pc[t] = "scan"
    /\ Done(t)
    /\ UNCHANGED <<docs, engine, open, reload>>

-----------------------------------------------------------------------------
WriteStep(t) ==
    \/ \E p \in Points : LookPoint(t, p)
    \/ LookDevice(t) \/ LookClient(t) \/ LookMissing(t) \/ Call(t) \/ WritesDone(t)

ReloadStep(t) ==
    \/ \E d \in Docs : StartReload(t, d)
    \/ BeginSwap(t) \/ Assign(t) \/ CloseOld(t)

CycleStep(t) ==
    \/ BindPlan(t) \/ EntryMissing(t) \/ EvaluateRules(t)
    \/ \E u \in Units : BindClient(t, u)

HandlerStep(t) ==
    \/ \E p \in Points : TestWrite(t, p)
    \/ StartScan(t) \/ Probe(t) \/ EndScan(t)

Next == \E t \in Threads :
    WriteStep(t) \/ ReloadStep(t) \/ CycleStep(t) \/ HandlerStep(t)

Spec == Init /\ [][Next]_vars

-----------------------------------------------------------------------------
Places == {"idle", "write", "device", "client", "call", "assign", "close", "entry", "scan"}
Reloads == [doc : Docs, old : Gens \cup {0}, done : 0 .. 7]
Hands == [job : {"none", "walk", "read", "rules", "test", "scan"}, asked : Gens \cup {0},
          point : Points \cup {None}, unit : Units \cup {None},
          table : Gens \cup {0}, device : Gens \cup {0}, client : Gens \cup {0}]

\* Type invariant; the generations that a thread is about to use exist.
TypeOK ==
    /\ docs \in Seq(Docs) /\ Len(docs) \in 1 .. MaxReloads + 1
    /\ engine \in [Attributes -> Gens]
    /\ open \in SUBSET Gens
    /\ pc \in [Threads -> Places]
    /\ reload \in [Threads -> Reloads]
    /\ todo \in [Threads -> SUBSET (Points \cup Units)]
    /\ hand \in [Threads -> Hands]
    /\ \A t \in Threads :
         /\ pc[t] \in {"call", "scan"} => hand[t].client \in Gens
         /\ pc[t] = "assign" => hand[t].asked \in Gens /\ reload[t].done < 7

\* A thread in the middle of write_point or of a cycle meets a swap in one
\* direction only: what it looks up later is never older than what it looked up
\* before.  So a point of the new document is never written through a client of
\* the old one, and a test write never finds an older table than it asked.
LookupsForward ==
    \A t \in Threads :
        /\ pc[t] \in {"client", "call"} /\ hand[t].job # "read"
             => hand[t].device >= hand[t].table
        /\ pc[t] = "call" /\ hand[t].job # "read" => hand[t].client >= hand[t].device
        /\ pc[t] = "call" /\ hand[t].job = "read" => hand[t].client >= hand[t].asked
        /\ pc[t] \in {"device", "client", "call"} /\ hand[t].job = "test"
             => hand[t].table >= hand[t].asked

\* Between two reloads every attribute comes from the newest document: nothing
\* of an earlier one is left behind, however the reload was interleaved.
Settled ==
    (\A t \in Threads : pc[t] \notin {"assign", "close"})
        => \A a \in Attributes : engine[a] = Len(docs)

\* A reload closes clients that no attribute leads to any more; the clients in
\* force are never closed under the poll thread.
ClosedIsRetired ==
    [][\A g \in open \ open' : \A a \in Attributes : engine[a] > g]_vars

-----------------------------------------------------------------------------
\* The rest does not hold under EngineSwap.cfg.

\* Where the document of a generation has the point.
HomeOf(p, g) == docs[g].host[docs[g].unit[p]]

\* A write reaches the place that some document gives the point, not the unit
\* number of one document on the host that another gives to that number.
GoesHome ==
    \A t \in Threads :
        pc[t] = "call" /\ hand[t].job \in {"walk", "rules", "test"} =>
            \E g \in Gens : /\ docs[g].unit[hand[t].point] # None
                            /\ HomeOf(hand[t].point, g) = docs[hand[t].client].host[hand[t].unit]

\* poll_engine.py, run_cycle: a config change never costs a missed poll cycle.
CycleNotCut ==
    [][\A t \in Threads : hand[t].job \in {"read", "rules"} => ~LookMissing(t) /\ ~EntryMissing(t)]_vars

\* Clients that were replaced are closed once everything is quiet.
RetiredAreClosed ==
    (\A t \in Threads : pc[t] = "idle") => open \subseteq {engine["clients"]}
=============================================================================
