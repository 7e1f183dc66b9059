-------------------------- MODULE EngineSwapProofs --------------------------
(***************************************************************************)
(* One reload at a time: what a lookup chain meets in the middle of a swap,*)
(* for any documents, threads and number of reloads.                       *)
(***************************************************************************)
EXTENDS EngineSwap, TLAPS

\* At most one thread reloads.
Sole == \A t, u \in Threads : Reloading(t) /\ Reloading(u) => t = u

\* The attributes that a swap has reached are new, the others one generation behind.
Stairs ==
    /\ \A t \in Threads : pc[t] = "assign" =>
         /\ hand[t].asked = Len(docs) /\ reload[t].old = Len(docs) - 1
         /\ \A i \in 1 .. 7 :
              engine[Order[i]] = IF i <= reload[t].done THEN Len(docs) ELSE Len(docs) - 1
    /\ \A t \in Threads : pc[t] = "close" =>
         /\ reload[t].old = Len(docs) - 1
         /\ \A i \in 1 .. 7 : engine[Order[i]] = Len(docs)

\* What a thread holds is not newer than what it looked it up in.
Behind ==
    \A t \in Threads :
        /\ hand[t].table <= engine["points"] /\ hand[t].device <= engine["devices"]
        /\ hand[t].job = "test" => hand[t].asked <= engine["points"]
        /\ hand[t].job = "read" => hand[t].asked <= engine["plan"]

\* Who is where: only a cycle is at a plan entry, only writers are in write_point.
Jobs ==
    \A t \in Threads :
        /\ pc[t] = "entry" => hand[t].job = "read"
        /\ pc[t] \in {"write", "device", "client"} => hand[t].job \in {"walk", "rules", "test"}
        /\ pc[t] = "call" => hand[t].job \in {"walk", "rules", "test", "read"}
        /\ pc[t] \in {"idle", "assign", "close"} => hand[t].job = "none"

IInv == TypeOK /\ Sole /\ Stairs /\ Settled /\ Behind /\ Jobs /\ LookupsForward

LEMMA Orders ==
  /\ Order[1] = "io_config" /\ Order[2] = "clients" /\ Order[3] = "plan"
  /\ Order[4] = "rules" /\ Order[5] = "debouncer" /\ Order[6] = "devices"
  /\ Order[7] = "points"
  BY DEF Order

LEMMA OrderIsAll ==
  /\ {"io_config", "clients", "plan", "rules", "devices", "points"} \subseteq Attributes
  /\ \A a \in Attributes : \E i \in 1 .. 7 : a = Order[i]
  /\ \A i \in 1 .. 7 : Order[i] \in Attributes
  /\ \A i, j \in 1 .. 7 : Order[i] = Order[j] => i = j
<1>1. \A i \in 1 .. 7 : i = 1 \/ i = 2 \/ i = 3 \/ i = 4 \/ i = 5 \/ i = 6 \/ i = 7
  OBVIOUS
<1> QED BY <1>1, Orders DEF Attributes

\* The order in which lookups may rely on the attributes.
Ordered ==
    /\ engine["clients"] >= engine["plan"]
    /\ engine["clients"] >= engine["devices"]
    /\ engine["devices"] >= engine["points"]

LEMMA StairsOrdered == TypeOK /\ Stairs /\ Settled => Ordered
<1> SUFFICES ASSUME TypeOK, Stairs, Settled PROVE Ordered
  OBVIOUS
<1>0. Len(docs) \in Nat /\ \A t \in Threads : reload[t].done \in 0 .. 7
  BY DEF TypeOK, Reloads
<1>1. CASE \E t \in Threads : pc[t] = "assign"
  <2>1. PICK t \in Threads : pc[t] = "assign"
    BY <1>1
  <2>2. reload[t].done \in 0 .. 7
    BY <1>0
  <2>3. \A i, j \in 1 .. 7 : i < j => engine[Order[i]] >= engine[Order[j]]
    <3> TAKE i, j \in 1 .. 7
    <3>1. /\ engine[Order[i]] = IF i <= reload[t].done THEN Len(docs) ELSE Len(docs) - 1
          /\ engine[Order[j]] = IF j <= reload[t].done THEN Len(docs) ELSE Len(docs) - 1
      BY <2>1 DEF Stairs
    <3> QED BY <2>2, <3>1, <1>0
  <2>4. /\ engine[Order[2]] >= engine[Order[3]]
        /\ engine[Order[2]] >= engine[Order[6]]
        /\ engine[Order[6]] >= engine[Order[7]]
    BY <2>3
  <2> QED BY <2>4, Orders DEF Ordered
<1>2. CASE \E t \in Threads : pc[t] = "close"
  <2>1. \A i \in 1 .. 7 : engine[Order[i]] = Len(docs)
    BY <1>2 DEF Stairs
  <2> QED BY <2>1, <1>0, Orders DEF Ordered
<1>3. CASE \A t \in Threads : pc[t] \notin {"assign", "close"}
  BY <1>3, <1>0, OrderIsAll DEF Settled, Ordered
<1> QED BY <1>1, <1>2, <1>3

LEMMA InitIInv == Init => IInv
<1> SUFFICES ASSUME Init PROVE IInv
  OBVIOUS
<1>1. Len(docs) = 1 /\ docs \in Seq(Docs) /\ Gens = {1} /\ MaxReloads \in Nat /\ Start \in Docs
  BY DocsAssumption DEF Init, Gens
<1>2. TypeOK
  BY <1>1 DEF Init, TypeOK, Empty, NoReload, Places, Reloads, Hands
<1>3. Sole /\ Stairs /\ Settled /\ Jobs /\ LookupsForward
  BY <1>1 DEF Init, Sole, Reloading, Stairs, Settled, Jobs, LookupsForward, Empty
<1>4. Behind
  <2>1. engine["points"] = 1 /\ engine["devices"] = 1 /\ engine["plan"] = 1
    BY OrderIsAll DEF Init
  <2>2. \A t \in Threads : hand[t].table = 0 /\ hand[t].device = 0 /\ hand[t].asked = 0
    BY DEF Init, Empty
  <2>3. ASSUME NEW t \in Threads
        PROVE  /\ hand[t].table <= engine["points"] /\ hand[t].device <= engine["devices"]
               /\ hand[t].asked <= engine["points"] /\ hand[t].asked <= engine["plan"]
    BY <2>1, <2>2
  <2> QED BY <2>3 DEF Behind
<1> QED BY <1>2, <1>3, <1>4 DEF IInv

-----------------------------------------------------------------------------
LEMMA EmptyTypes == Empty \in Hands /\ NoReload \in Reloads
  BY DocsAssumption DEF Empty, NoReload, Hands, Reloads

LEMMA Typing ==
  ASSUME TypeOK
  PROVE  /\ Len(docs) \in Nat \ {0} /\ MaxReloads \in Nat /\ Gens = 1 .. Len(docs)
         /\ \A t \in Threads :
              /\ reload[t] \in Reloads /\ hand[t] \in Hands
              /\ todo[t] \in SUBSET (Points \cup Units)
              /\ hand[t].client \in Gens \cup {0}
              /\ pc[t] \in {"call", "scan"} => hand[t].client \in Gens
         /\ engine \in [Attributes -> Gens] /\ open \in SUBSET Gens
         /\ pc \in [Threads -> Places] /\ hand \in [Threads -> Hands]
         /\ reload \in [Threads -> Reloads]
         /\ todo \in [Threads -> SUBSET (Points \cup Units)]
<1>1. \A h \in Hands : h.client \in Gens \cup {0}
  BY DEF Hands
<1> QED BY <1>1, DocsAssumption DEF TypeOK, Gens

LEMMA HandNumbers ==
  ASSUME TypeOK, NEW t \in Threads
  PROVE  /\ hand[t].table \in Nat /\ hand[t].device \in Nat
         /\ hand[t].client \in Nat /\ hand[t].asked \in Nat
<1>1. Gens \cup {0} \subseteq Nat
  BY Typing
<1>2. hand[t] \in Hands
  BY Typing
<1>3. /\ hand[t].table \in Gens \cup {0} /\ hand[t].device \in Gens \cup {0}
      /\ hand[t].client \in Gens \cup {0} /\ hand[t].asked \in Gens \cup {0}
  BY <1>2 DEF Hands
<1> QED BY <1>1, <1>3

LEMMA DocTypes ==
  ASSUME TypeOK, NEW a \in Attributes
  PROVE  /\ engine[a] \in Gens
         /\ \A p \in Points : Doc(a).unit[p] \in Units \cup {None}
         /\ Doc(a).outputs \subseteq Points
<1>1. engine[a] \in 1 .. Len(docs) /\ docs \in Seq(Docs)
  BY DEF TypeOK, Gens
<1>2. Doc(a) \in Docs
  BY <1>1 DEF Doc
<1> QED BY <1>1, <1>2, DocsAssumption DEF Gens

\* Most steps change one thread's place and hands, and leave the documents alone.
LEMMA ThreadStep ==
  ASSUME TypeOK, NEW t \in Threads,
         docs' = docs, engine' = engine, open' \in SUBSET Gens, reload' = reload,
         pc' \in [Threads -> Places], hand' \in [Threads -> Hands],
         todo' \in [Threads -> SUBSET (Points \cup Units)],
         \A u \in Threads : u # t => pc'[u] = pc[u] /\ hand'[u] = hand[u],
         pc'[t] \in {"call", "scan"} => hand'[t].client \in Gens, pc'[t] # "assign"
  PROVE  TypeOK'
<1>1. Gens' = Gens /\ Hands' = Hands /\ Reloads' = Reloads
  BY DEF Gens, Hands, Reloads
<1>2. \A u \in Threads :
        /\ pc'[u] \in {"call", "scan"} => hand'[u].client \in Gens
        /\ pc'[u] = "assign" => hand'[u].asked \in Gens /\ reload'[u].done < 7
  BY DEF TypeOK
<1> QED BY <1>1, <1>2 DEF TypeOK

\* The same for a step that gives the thread the hands h.
LEMMA HandStep ==
  ASSUME TypeOK, NEW t \in Threads, NEW h \in Hands, NEW q \in Places,
         hand' = [hand EXCEPT ![t] = h], pc' = [pc EXCEPT ![t] = q]
  PROVE  /\ pc' \in [Threads -> Places] /\ hand' \in [Threads -> Hands]
         /\ pc'[t] = q /\ hand'[t] = h
         /\ \A u \in Threads : u # t => pc'[u] = pc[u] /\ hand'[u] = hand[u]
  BY Typing

LEMMA TypeWrite ==
  ASSUME TypeOK, NEW t \in Threads, WriteStep(t)
  PROVE  TypeOK'
<1> DEFINE T == todo[t]
<1>0. T \in SUBSET (Points \cup Units) /\ hand[t] \in Hands
  BY Typing
<1>1. ASSUME NEW p \in Points, LookPoint(t, p) PROVE TypeOK'
  <2> DEFINE h == [hand[t] EXCEPT !.point = p, !.unit = Doc("points").unit[p],
                     !.table = engine["points"], !.device = 0, !.client = 0]
  <2>1. h \in Hands
    BY <1>0, DocTypes, OrderIsAll DEF Hands
  <2>2. hand' = [hand EXCEPT ![t] = h] /\ todo' = [todo EXCEPT ![t] = T \ {p}]
    BY <1>1, Typing DEF LookPoint
  <2> HIDE DEF h
  <2>4. pc' = [pc EXCEPT ![t] = "device"] /\ "device" \in Places
    BY <1>0, <1>1 DEF LookPoint, Places
  <2>5. /\ pc' \in [Threads -> Places] /\ hand' \in [Threads -> Hands]
        /\ pc'[t] = "device" /\ hand'[t] = h
        /\ \A u \in Threads : u # t => pc'[u] = pc[u] /\ hand'[u] = hand[u]
    BY <2>1, <2>2, <2>4, HandStep
  <2>6. todo' \in [Threads -> SUBSET (Points \cup Units)]
    BY <1>0, <1>1, <2>1, <2>2, Typing
  <2> QED BY <1>0, <1>1, <2>1, <2>5, <2>6, Typing, ThreadStep DEF LookPoint
<1>2. CASE LookDevice(t)
  <2> DEFINE h == [hand[t] EXCEPT !.device = engine["devices"]]
  <2>1. h \in Hands
    BY <1>0, DocTypes, OrderIsAll DEF Hands
  <2>2. hand' = [hand EXCEPT ![t] = h] /\ todo' = [todo EXCEPT ![t] = T]
    BY <1>2, Typing DEF LookDevice
  <2> HIDE DEF h
  <2>4. pc' = [pc EXCEPT ![t] = "client"] /\ "client" \in Places
    BY <1>0, <1>2 DEF LookDevice, Places
  <2>5. /\ pc' \in [Threads -> Places] /\ hand' \in [Threads -> Hands]
        /\ pc'[t] = "client" /\ hand'[t] = h
        /\ \A u \in Threads : u # t => pc'[u] = pc[u] /\ hand'[u] = hand[u]
    BY <2>1, <2>2, <2>4, HandStep
  <2>6. todo' \in [Threads -> SUBSET (Points \cup Units)]
    BY <1>0, <1>2, <2>1, <2>2, Typing
  <2> QED BY <1>0, <1>2, <2>1, <2>5, <2>6, Typing, ThreadStep DEF LookDevice
<1>3. CASE LookClient(t)
  <2> DEFINE h == [hand[t] EXCEPT !.client = engine["clients"]]
  <2>1. h \in Hands /\ h.client \in Gens
    BY <1>0, DocTypes, OrderIsAll DEF Hands
  <2>2. hand' = [hand EXCEPT ![t] = h] /\ todo' = [todo EXCEPT ![t] = T]
    BY <1>3, Typing DEF LookClient
  <2> HIDE DEF h
  <2>4. pc' = [pc EXCEPT ![t] = "call"] /\ "call" \in Places
    BY <1>0, <1>3 DEF LookClient, Places
  <2>5. /\ pc' \in [Threads -> Places] /\ hand' \in [Threads -> Hands]
        /\ pc'[t] = "call" /\ hand'[t] = h
        /\ \A u \in Threads : u # t => pc'[u] = pc[u] /\ hand'[u] = hand[u]
    BY <2>1, <2>2, <2>4, HandStep
  <2>6. todo' \in [Threads -> SUBSET (Points \cup Units)]
    BY <1>0, <1>3, <2>1, <2>2, Typing
  <2> QED BY <1>0, <1>3, <2>1, <2>5, <2>6, Typing, ThreadStep DEF LookClient
<1>4. CASE LookMissing(t)
  BY <1>4, EmptyTypes, Typing, ThreadStep DEF LookMissing, Raise, Done, Places
<1>5. CASE Call(t)
  <2>1. /\ hand[t].client \in Gens /\ hand' = [hand EXCEPT ![t] = hand[t]]
        /\ todo' = [todo EXCEPT ![t] = T] /\ open' \in SUBSET Gens
        /\ \E q \in {"entry", "write"} : pc' = [pc EXCEPT ![t] = q]
    BY <1>5, Typing DEF Call
  <2> QED BY <1>0, <1>5, <2>1, Typing, ThreadStep DEF Call, Places
<1>6. CASE WritesDone(t)
  BY <1>6, EmptyTypes, Typing, ThreadStep DEF WritesDone, Done, Places
<1> QED BY <1>1, <1>2, <1>3, <1>4, <1>5, <1>6 DEF WriteStep

LEMMA TypeCycle ==
  ASSUME TypeOK, NEW t \in Threads, CycleStep(t)
  PROVE  TypeOK'
<1>0. todo[t] \in SUBSET (Points \cup Units) /\ hand[t] \in Hands
  BY Typing
<1>1. CASE BindPlan(t)
  <2> DEFINE h == [Empty EXCEPT !.job = "read", !.asked = engine["plan"]]
             T == {Doc("plan").unit[p] : p \in Points} \ {None}
  <2>0. \A p \in Points : Doc("plan").unit[p] \in Units \cup {None}
    BY DocTypes, OrderIsAll
  <2>1. h \in Hands /\ T \in SUBSET (Points \cup Units)
    <3>1. T \in SUBSET (Points \cup Units)
      BY <2>0
    <3>2. h \in Hands
      BY EmptyTypes, DocTypes, OrderIsAll DEF Hands
    <3> QED BY <3>1, <3>2
  <2>2. hand' = [hand EXCEPT ![t] = h] /\ todo' = [todo EXCEPT ![t] = T]
    BY <1>1 DEF BindPlan
  <2> HIDE DEF h, T
  <2>4. pc' = [pc EXCEPT ![t] = "entry"] /\ "entry" \in Places
    BY <1>1 DEF BindPlan, Places
  <2>5. /\ pc' \in [Threads -> Places] /\ hand' \in [Threads -> Hands]
        /\ pc'[t] = "entry" /\ hand'[t] = h
        /\ \A v \in Threads : v # t => pc'[v] = pc[v] /\ hand'[v] = hand[v]
    BY <2>1, <2>2, <2>4, HandStep
  <2>6. todo' \in [Threads -> SUBSET (Points \cup Units)]
    BY <1>1, <2>1, <2>2, Typing
  <2> QED BY <1>1, <2>1, <2>5, <2>6, Typing, ThreadStep DEF BindPlan
<1>2. ASSUME NEW u \in Units, BindClient(t, u) PROVE TypeOK'
  <2> DEFINE h == [hand[t] EXCEPT !.unit = u, !.client = engine["clients"]]
             T == todo[t] \ {u}
  <2>1. h \in Hands /\ T \in SUBSET (Points \cup Units) /\ h.client \in Gens
    BY <1>0, DocTypes, OrderIsAll DEF Hands
  <2>2. hand' = [hand EXCEPT ![t] = h] /\ todo' = [todo EXCEPT ![t] = T]
    BY <1>2, Typing DEF BindClient
  <2> HIDE DEF h, T
  <2>4. pc' = [pc EXCEPT ![t] = "call"] /\ "call" \in Places
    BY <1>2 DEF BindClient, Places
  <2>5. /\ pc' \in [Threads -> Places] /\ hand' \in [Threads -> Hands]
        /\ pc'[t] = "call" /\ hand'[t] = h
        /\ \A v \in Threads : v # t => pc'[v] = pc[v] /\ hand'[v] = hand[v]
    BY <2>1, <2>2, <2>4, HandStep
  <2>6. todo' \in [Threads -> SUBSET (Points \cup Units)]
    BY <1>2, <2>1, <2>2, Typing
  <2> QED BY <1>2, <2>1, <2>5, <2>6, Typing, ThreadStep DEF BindClient
<1>3. CASE EntryMissing(t)
  BY <1>3, EmptyTypes, Typing, ThreadStep DEF EntryMissing, Raise, Done, Places
<1>4. CASE EvaluateRules(t)
  <2> DEFINE h == [Empty EXCEPT !.job = "rules", !.asked = engine["rules"]]
  <2>1. PICK ps \in SUBSET Doc("rules").outputs : todo' = [todo EXCEPT ![t] = ps]
    BY <1>4 DEF EvaluateRules
  <2>2. h \in Hands /\ ps \in SUBSET (Points \cup Units)
    BY EmptyTypes, DocTypes, OrderIsAll DEF Hands
  <2>3. hand' = [hand EXCEPT ![t] = h]
    BY <1>4 DEF EvaluateRules
  <2> HIDE DEF h
  <2>4. pc' = [pc EXCEPT ![t] = "write"] /\ "write" \in Places
    BY <1>4 DEF EvaluateRules, Places
  <2>5. /\ pc' \in [Threads -> Places] /\ hand' \in [Threads -> Hands]
        /\ pc'[t] = "write" /\ hand'[t] = h
        /\ \A u \in Threads : u # t => pc'[u] = pc[u] /\ hand'[u] = hand[u]
    BY <2>1, <2>3, <2>4, HandStep, <2>2
  <2>6. todo' \in [Threads -> SUBSET (Points \cup Units)]
    BY <1>4, <2>1, <2>2, <2>3, Typing
  <2> QED BY <1>4, <2>1, <2>5, <2>6, Typing, ThreadStep DEF EvaluateRules
<1> QED BY <1>1, <1>2, <1>3, <1>4 DEF CycleStep

LEMMA TypeHandler ==
  ASSUME TypeOK, NEW t \in Threads, HandlerStep(t)
  PROVE  TypeOK'
<1>0. todo[t] \in SUBSET (Points \cup Units) /\ hand[t] \in Hands
  BY Typing
<1>1. ASSUME NEW p \in Points, TestWrite(t, p) PROVE TypeOK'
  <2> DEFINE h == [Empty EXCEPT !.job = "test", !.asked = engine["points"]]
  <2>1. h \in Hands /\ {p} \in SUBSET (Points \cup Units)
    BY EmptyTypes, DocTypes, OrderIsAll DEF Hands
  <2>2. hand' = [hand EXCEPT ![t] = h] /\ todo' = [todo EXCEPT ![t] = {p}]
    BY <1>1 DEF TestWrite
  <2> HIDE DEF h
  <2>4. pc' = [pc EXCEPT ![t] = "write"] /\ "write" \in Places
    BY <1>1 DEF TestWrite, Places
  <2>5. /\ pc' \in [Threads -> Places] /\ hand' \in [Threads -> Hands]
        /\ pc'[t] = "write" /\ hand'[t] = h
        /\ \A u \in Threads : u # t => pc'[u] = pc[u] /\ hand'[u] = hand[u]
    BY <2>1, <2>2, <2>4, HandStep
  <2>6. todo' \in [Threads -> SUBSET (Points \cup Units)]
    BY <1>1, <2>1, <2>2, Typing
  <2> QED BY <1>1, <2>1, <2>5, <2>6, Typing, ThreadStep DEF TestWrite
<1>2. CASE StartScan(t)
  <2> DEFINE h == [Empty EXCEPT !.job = "scan", !.client = engine["clients"]]
  <2>1. h \in Hands /\ h.client \in Gens
    BY EmptyTypes, DocTypes, OrderIsAll DEF Hands
  <2>2. hand' = [hand EXCEPT ![t] = h] /\ todo' = [todo EXCEPT ![t] = todo[t]]
    BY <1>2, Typing DEF StartScan
  <2> HIDE DEF h
  <2>4. pc' = [pc EXCEPT ![t] = "scan"] /\ "scan" \in Places
    BY <1>0, <1>2 DEF StartScan, Places
  <2>5. /\ pc' \in [Threads -> Places] /\ hand' \in [Threads -> Hands]
        /\ pc'[t] = "scan" /\ hand'[t] = h
        /\ \A u \in Threads : u # t => pc'[u] = pc[u] /\ hand'[u] = hand[u]
    BY <2>1, <2>2, <2>4, HandStep
  <2>6. todo' \in [Threads -> SUBSET (Points \cup Units)]
    BY <1>0, <1>2, <2>1, <2>2, Typing
  <2> QED BY <1>0, <1>2, <2>1, <2>5, <2>6, Typing, ThreadStep DEF StartScan
<1>3. CASE Probe(t)
  <2>1. hand[t].client \in Gens
    BY <1>3 DEF Probe, TypeOK
  <2>2. open' \in SUBSET Gens
    BY <1>3, <2>1, Typing DEF Probe
  <2> QED BY <1>3, <2>2, Typing, ThreadStep DEF Probe
<1>4. CASE EndScan(t)
  BY <1>4, EmptyTypes, Typing, ThreadStep DEF EndScan, Done, Places
<1> QED BY <1>1, <1>2, <1>3, <1>4 DEF HandlerStep

LEMMA TypeReload ==
  ASSUME TypeOK, NEW t \in Threads, ReloadStep(t)
  PROVE  TypeOK'
<1>1. ASSUME NEW d \in Docs, StartReload(t, d) PROVE TypeOK'
  <2> DEFINE h == [Empty EXCEPT !.job = "walk", !.asked = engine["io_config"]]
             r == [NoReload EXCEPT !.doc = d]
  <2>1. h \in Hands /\ r \in Reloads /\ Doc("io_config").outputs \in SUBSET (Points \cup Units)
    BY EmptyTypes, DocTypes, OrderIsAll DEF Hands, Reloads
  <2>2. /\ hand' = [hand EXCEPT ![t] = h] /\ reload' = [reload EXCEPT ![t] = r]
        /\ todo' = [todo EXCEPT ![t] = Doc("io_config").outputs]
        /\ pc' = [pc EXCEPT ![t] = "write"] /\ UNCHANGED <<docs, engine, open>>
    BY <1>1 DEF StartReload
  <2> HIDE DEF h, r
  <2>3. /\ pc' \in [Threads -> Places] /\ hand' \in [Threads -> Hands]
        /\ reload' \in [Threads -> Reloads] /\ todo' \in [Threads -> SUBSET (Points \cup Units)]
        /\ \A u \in Threads : pc'[u] \in {"assign", "call", "scan"} =>
             /\ pc'[u] = pc[u] /\ hand'[u] = hand[u] /\ reload'[u] = reload[u]
    BY <2>1, <2>2, Typing DEF Places
  <2> QED BY <2>2, <2>3 DEF TypeOK, Gens, Hands, Reloads
<1>2. CASE BeginSwap(t)
  <2> DEFINE h == [Empty EXCEPT !.asked = Len(docs) + 1]
             r == [doc |-> reload[t].doc, old |-> engine["clients"], done |-> 0]
  <2>1. /\ docs' = Append(docs, reload[t].doc) /\ Len(docs) <= MaxReloads
        /\ UNCHANGED <<engine, open, todo>>
        /\ hand' = [hand EXCEPT ![t] = h] /\ reload' = [reload EXCEPT ![t] = r]
        /\ pc' = [pc EXCEPT ![t] = "assign"]
    BY <1>2, Typing DEF BeginSwap
  <2>2. docs' \in Seq(Docs) /\ Len(docs') = Len(docs) + 1
    <3>1. reload[t].doc \in Docs
      BY Typing DEF Reloads
    <3> QED BY <2>1, <3>1 DEF TypeOK
  <2>3. Gens \subseteq Gens' /\ Len(docs) + 1 \in Gens'
    BY <2>2, Typing DEF Gens
  <2>4. Hands \subseteq Hands' /\ Reloads \subseteq Reloads'
    BY <2>3 DEF Hands, Reloads
  <2>5. h \in Hands' /\ h.asked = Len(docs) + 1
    BY <2>3, <2>4, EmptyTypes DEF Hands, Empty
  <2>6. r \in Reloads' /\ r.done = 0
    <3>1. reload[t].doc \in Docs /\ engine["clients"] \in Gens'
      BY <2>3, Typing, OrderIsAll DEF Reloads
    <3> QED BY <3>1 DEF Reloads
  <2> HIDE DEF h, r
  <2>7. /\ pc' \in [Threads -> Places] /\ hand' \in [Threads -> Hands']
        /\ reload' \in [Threads -> Reloads']
        /\ pc'[t] = "assign" /\ hand'[t] = h /\ reload'[t] = r
        /\ \A u \in Threads : u # t =>
             pc'[u] = pc[u] /\ hand'[u] = hand[u] /\ reload'[u] = reload[u]
    BY <2>1, <2>4, <2>5, <2>6, Typing DEF Places
  <2>8. \A u \in Threads :
          /\ pc'[u] \in {"call", "scan"} => hand'[u].client \in Gens'
          /\ pc'[u] = "assign" => hand'[u].asked \in Gens' /\ reload'[u].done < 7
    BY <2>3, <2>5, <2>6, <2>7 DEF TypeOK
  <2>9. Len(docs') \in 1 .. MaxReloads + 1 /\ engine' \in [Attributes -> Gens'] /\ open' \in SUBSET Gens'
    BY <2>1, <2>2, <2>3, Typing
  <2> QED BY <2>1, <2>2, <2>7, <2>8, <2>9, Typing DEF TypeOK
<1>3. CASE Assign(t)
  <2> DEFINE r == [reload[t] EXCEPT !.done = @ + 1]
             q == IF reload[t].done = 6 THEN "close" ELSE "assign"
             i == reload[t].done + 1
  <2>1. /\ UNCHANGED <<docs, open, todo, hand>> /\ pc[t] = "assign"
        /\ engine' = [engine EXCEPT ![Order[i]] = hand[t].asked]
        /\ reload' = [reload EXCEPT ![t] = r] /\ pc' = [pc EXCEPT ![t] = q]
    BY <1>3, Typing DEF Assign
  <2>2. hand[t].asked \in Gens /\ reload[t].done \in 0 .. 6 /\ i \in 1 .. 7
    BY <2>1, Typing DEF TypeOK, Reloads
  <2>3. r \in Reloads /\ r.done = i /\ q \in Places /\ (q = "assign" => i < 7)
    <3>1. reload[t] \in Reloads
      BY Typing
    <3>2. r \in Reloads /\ r.done = i
      BY <2>2, <3>1 DEF Reloads
    <3>3. q \in Places /\ (q = "assign" => i < 7)
      BY <2>2 DEF Places
    <3> QED BY <3>2, <3>3
  <2>4. engine' \in [Attributes -> Gens]
    <3>1. Order[i] \in Attributes
      BY <2>2, OrderIsAll
    <3> HIDE DEF i
    <3> QED BY <2>1, <2>2, <3>1, Typing
  <2> HIDE DEF r, q, i
  <2>5. /\ pc' \in [Threads -> Places] /\ reload' \in [Threads -> Reloads]
        /\ pc'[t] = q /\ reload'[t] = r
        /\ \A u \in Threads : u # t => pc'[u] = pc[u] /\ reload'[u] = reload[u]
    BY <2>1, <2>3, Typing
  <2>6. \A u \in Threads :
          /\ pc'[u] \in {"call", "scan"} => hand'[u].client \in Gens
          /\ pc'[u] = "assign" => hand'[u].asked \in Gens /\ reload'[u].done < 7
    <3>1. q \in {"close", "assign"}
      BY DEF q
    <3> QED BY <3>1, <2>1, <2>2, <2>3, <2>5 DEF TypeOK
  <2> QED BY <2>1, <2>4, <2>5, <2>6 DEF TypeOK, Gens, Hands, Reloads
<1>4. CASE CloseOld(t)
  <2>1. /\ UNCHANGED <<docs, engine>> /\ open' = open \ {reload[t].old}
        /\ hand' = [hand EXCEPT ![t] = Empty] /\ reload' = [reload EXCEPT ![t] = NoReload]
        /\ todo' = [todo EXCEPT ![t] = {}] /\ pc' = [pc EXCEPT ![t] = "idle"]
    BY <1>4 DEF CloseOld, Done
  <2>2. /\ pc' \in [Threads -> Places] /\ hand' \in [Threads -> Hands]
        /\ reload' \in [Threads -> Reloads] /\ todo' \in [Threads -> SUBSET (Points \cup Units)]
        /\ \A u \in Threads : pc'[u] \in {"assign", "call", "scan"} =>
             /\ pc'[u] = pc[u] /\ hand'[u] = hand[u] /\ reload'[u] = reload[u]
    BY <2>1, EmptyTypes, Typing DEF Places
  <2> QED BY <2>1, <2>2 DEF TypeOK, Gens, Hands, Reloads
<1> QED BY <1>1, <1>2, <1>3, <1>4 DEF ReloadStep

\* Type invariant of the attributes, the reload and the lookups.
THEOREM TypeCorrect == Spec => []TypeOK
<1>1. Init => TypeOK
  BY InitIInv DEF IInv
<1>2. TypeOK /\ [Next]_vars => TypeOK'
  <2>1. TypeOK /\ UNCHANGED vars => TypeOK'
    BY DEF TypeOK, vars, Gens, Hands, Reloads
  <2> QED BY <2>1, TypeWrite, TypeReload, TypeCycle, TypeHandler DEF Next
<1> QED BY <1>1, <1>2, PTL DEF Spec

-----------------------------------------------------------------------------
\* A step of a thread that is not swapping disturbs no swap.
LEMMA Bystander ==
  ASSUME IInv, NEW t \in Threads, docs' = docs, engine' = engine, reload' = reload,
         \A u \in Threads : u # t => pc'[u] = pc[u] /\ hand'[u] = hand[u],
         pc[t] \notin {"assign", "close"}, pc'[t] \notin {"assign", "close"},
         hand'[t].job = "walk" => hand[t].job = "walk"
  PROVE  Sole' /\ Stairs' /\ Settled'
<1>1. \A u \in Threads : Reloading(u)' => Reloading(u)
  BY DEF Reloading
<1>2. \A u \in Threads : pc'[u] \in {"assign", "close"} => u # t /\ pc[u] = pc'[u] /\ hand'[u] = hand[u]
  OBVIOUS
<1>3. (\A u \in Threads : pc'[u] \notin {"assign", "close"})
        => (\A u \in Threads : pc[u] \notin {"assign", "close"})
  OBVIOUS
<1>4. Sole'
  BY <1>1 DEF IInv, Sole
<1>5. Stairs'
  BY <1>2 DEF IInv, Stairs
<1>6. Settled'
  BY <1>3 DEF IInv, Settled
<1> QED BY <1>4, <1>5, <1>6

\* What is to be shown of the thread that moves; the others keep it, since no
\* attribute goes back.
Fits(t) ==
    /\ hand[t].table <= engine["points"] /\ hand[t].device <= engine["devices"]
    /\ hand[t].job = "test" => hand[t].asked <= engine["points"]
    /\ hand[t].job = "read" => hand[t].asked <= engine["plan"]
    /\ pc[t] = "entry" => hand[t].job = "read"
    /\ pc[t] \in {"write", "device", "client"} => hand[t].job \in {"walk", "rules", "test"}
    /\ pc[t] = "call" => hand[t].job \in {"walk", "rules", "test", "read"}
    /\ pc[t] \in {"idle", "assign", "close"} => hand[t].job = "none"
    /\ pc[t] \in {"client", "call"} /\ hand[t].job # "read"
         => hand[t].device >= hand[t].table
    /\ pc[t] = "call" /\ hand[t].job # "read" => hand[t].client >= hand[t].device
    /\ pc[t] = "call" /\ hand[t].job = "read" => hand[t].client >= hand[t].asked
    /\ pc[t] \in {"device", "client", "call"} /\ hand[t].job = "test"
         => hand[t].table >= hand[t].asked

LEMMA FitsAll == (\A t \in Threads : Fits(t)) <=> Behind /\ Jobs /\ LookupsForward
  BY DEF Fits, Behind, Jobs, LookupsForward

LEMMA FitsAllNext == (\A t \in Threads : Fits(t)') <=> Behind' /\ Jobs' /\ LookupsForward'
  BY DEF Fits, Behind, Jobs, LookupsForward

LEMMA OthersFit ==
  ASSUME IInv, NEW t \in Threads,
         \A u \in Threads : u # t => pc'[u] = pc[u] /\ hand'[u] = hand[u],
         \A a \in Attributes : engine'[a] \in Nat /\ engine'[a] >= engine[a]
  PROVE  \A u \in Threads : u # t => Fits(u)'
<1> SUFFICES ASSUME NEW u \in Threads, u # t PROVE Fits(u)'
  OBVIOUS
<1>1. Fits(u)
  BY FitsAll DEF IInv
<1>2. pc'[u] = pc[u] /\ hand'[u] = hand[u]
  OBVIOUS
<1>3. /\ hand[u].table \in Nat /\ hand[u].device \in Nat /\ hand[u].asked \in Nat
      /\ engine["points"] \in Nat /\ engine["devices"] \in Nat /\ engine["plan"] \in Nat
  <2>1. engine \in [Attributes -> Nat]
    BY Typing DEF IInv
  <2> QED BY <2>1, HandNumbers, OrderIsAll DEF IInv
<1>4. /\ engine'["points"] \in Nat /\ engine'["points"] >= engine["points"]
      /\ engine'["devices"] \in Nat /\ engine'["devices"] >= engine["devices"]
      /\ engine'["plan"] \in Nat /\ engine'["plan"] >= engine["plan"]
  BY OrderIsAll
<1> QED BY <1>1, <1>2, <1>3, <1>4 DEF Fits

\* The same for a step of a thread that is not swapping.
LEMMA QuietStep ==
  ASSUME IInv, NEW t \in Threads, docs' = docs, engine' = engine, reload' = reload,
         \A u \in Threads : u # t => pc'[u] = pc[u] /\ hand'[u] = hand[u],
         pc[t] \notin {"assign", "close"}, pc'[t] \notin {"assign", "close"},
         hand'[t].job = "walk" => hand[t].job = "walk",
         Fits(t)', TypeOK'
  PROVE  IInv'
<1>1. \A a \in Attributes : engine'[a] \in Nat /\ engine'[a] >= engine[a]
  BY Typing DEF IInv
<1>2. \A u \in Threads : Fits(u)'
  BY <1>1, OthersFit
<1> QED BY <1>2, FitsAllNext, Bystander DEF IInv

\* What the lookups of a thread may rely on.
LEMMA Grounds ==
  ASSUME IInv, NEW t \in Threads
  PROVE  /\ Fits(t) /\ hand[t] \in Hands /\ Ordered
         /\ hand[t].table \in Nat /\ hand[t].device \in Nat
         /\ hand[t].client \in Nat /\ hand[t].asked \in Nat
         /\ \A a \in Attributes : engine[a] \in Nat \ {0}
         /\ pc \in [Threads -> Places] /\ hand \in [Threads -> Hands]
<1>1. Fits(t) /\ Ordered
  BY FitsAll, StairsOrdered DEF IInv
<1>2. \A a \in Attributes : engine[a] \in Nat \ {0}
  BY Typing DEF IInv
<1>3. TypeOK /\ hand[t] \in Hands /\ Gens \subseteq Nat
  BY Typing DEF IInv
<1>4. /\ hand[t].table \in Nat /\ hand[t].device \in Nat
      /\ hand[t].client \in Nat /\ hand[t].asked \in Nat
  BY <1>3, HandNumbers
<1> QED BY <1>1, <1>2, <1>3, <1>4, Typing

LEMMA WriteKeeps ==
  ASSUME IInv, NEW t \in Threads, WriteStep(t)
  PROVE  IInv'
<1>0. TypeOK'
  BY TypeWrite DEF IInv
<1>1. ASSUME NEW p \in Points, LookPoint(t, p) PROVE IInv'
  <2>1. /\ hand'[t].table = engine["points"] /\ hand'[t].device = 0
        /\ hand'[t].job = hand[t].job /\ hand'[t].asked = hand[t].asked
        /\ pc[t] = "write" /\ pc'[t] = "device" /\ UNCHANGED <<docs, engine, reload>>
        /\ \A u \in Threads : u # t => pc'[u] = pc[u] /\ hand'[u] = hand[u]
    BY <1>1, Grounds DEF LookPoint, Hands
  <2>2. Fits(t)'
    BY <2>1, Grounds, OrderIsAll DEF Fits
  <2> QED BY <1>0, <2>1, <2>2, QuietStep
<1>2. CASE LookDevice(t)
  <2>1. /\ hand'[t].table = hand[t].table /\ hand'[t].device = engine["devices"]
        /\ hand'[t].job = hand[t].job /\ hand'[t].asked = hand[t].asked
        /\ pc[t] = "device" /\ pc'[t] = "client" /\ UNCHANGED <<docs, engine, reload>>
        /\ \A u \in Threads : u # t => pc'[u] = pc[u] /\ hand'[u] = hand[u]
    BY <1>2, Grounds DEF LookDevice, Hands
  <2>2. Fits(t)'
    BY <2>1, Grounds, OrderIsAll DEF Fits, Ordered
  <2> QED BY <1>0, <2>1, <2>2, QuietStep
<1>3. CASE LookClient(t)
  <2>1. /\ hand'[t].table = hand[t].table /\ hand'[t].device = hand[t].device
        /\ hand'[t].client = engine["clients"]
        /\ hand'[t].job = hand[t].job /\ hand'[t].asked = hand[t].asked
        /\ pc[t] = "client" /\ pc'[t] = "call" /\ UNCHANGED <<docs, engine, reload>>
        /\ \A u \in Threads : u # t => pc'[u] = pc[u] /\ hand'[u] = hand[u]
    BY <1>3, Grounds DEF LookClient, Hands
  <2>2. Fits(t)'
    BY <2>1, Grounds, OrderIsAll DEF Fits, Ordered
  <2> QED BY <1>0, <2>1, <2>2, QuietStep
<1>4. CASE LookMissing(t) \/ WritesDone(t)
  <2>1. /\ hand'[t] = Empty /\ pc'[t] = "idle" /\ UNCHANGED <<docs, engine, reload>>
        /\ pc[t] \notin {"assign", "close"}
        /\ \A u \in Threads : u # t => pc'[u] = pc[u] /\ hand'[u] = hand[u]
    BY <1>4, Grounds DEF LookMissing, Raise, WritesDone, Done
  <2>2. Fits(t)'
    BY <2>1, Grounds, OrderIsAll DEF Fits, Empty
  <2>3. hand'[t].job = "none"
    BY <2>1 DEF Empty
  <2> QED BY <1>0, <2>1, <2>2, <2>3, QuietStep
<1>5. CASE Call(t)
  <2>1. /\ hand' = hand /\ pc[t] = "call" /\ UNCHANGED <<docs, engine, reload>>
        /\ pc'[t] = IF hand[t].job = "read" THEN "entry" ELSE "write"
        /\ \A u \in Threads : u # t => pc'[u] = pc[u] /\ hand'[u] = hand[u]
    BY <1>5, Grounds DEF Call
  <2>2. hand[t].job = "read" \/ hand[t].job \in {"walk", "rules", "test"}
    BY <2>1, Grounds DEF Fits
  <2>3. Fits(t)'
    BY <2>1, <2>2, Grounds DEF Fits
  <2> QED BY <1>0, <2>1, <2>3, QuietStep
<1> QED BY <1>1, <1>2, <1>3, <1>4, <1>5 DEF WriteStep

LEMMA CycleKeeps ==
  ASSUME IInv, NEW t \in Threads, CycleStep(t)
  PROVE  IInv'
<1>0. TypeOK'
  BY TypeCycle DEF IInv
<1>1. CASE BindPlan(t)
  <2>1. /\ hand'[t] = [Empty EXCEPT !.job = "read", !.asked = engine["plan"]]
        /\ pc[t] = "idle" /\ pc'[t] = "entry" /\ UNCHANGED <<docs, engine, reload>>
        /\ \A u \in Threads : u # t => pc'[u] = pc[u] /\ hand'[u] = hand[u]
    BY <1>1, Grounds DEF BindPlan
  <2>2. Fits(t)' /\ hand'[t].job = "read"
    BY <2>1, Grounds, OrderIsAll DEF Fits, Empty
  <2> QED BY <1>0, <2>1, <2>2, QuietStep
<1>2. ASSUME NEW u \in Units, BindClient(t, u) PROVE IInv'
  <2>1. /\ hand'[t].table = hand[t].table /\ hand'[t].device = hand[t].device
        /\ hand'[t].client = engine["clients"]
        /\ hand'[t].job = hand[t].job /\ hand'[t].asked = hand[t].asked
        /\ pc[t] = "entry" /\ pc'[t] = "call" /\ UNCHANGED <<docs, engine, reload>>
        /\ \A v \in Threads : v # t => pc'[v] = pc[v] /\ hand'[v] = hand[v]
    BY <1>2, Grounds DEF BindClient, Hands
  <2>2. Fits(t)'
    BY <2>1, Grounds, OrderIsAll DEF Fits, Ordered
  <2> QED BY <1>0, <2>1, <2>2, QuietStep
<1>3. CASE EntryMissing(t)
  <2>1. /\ hand'[t] = Empty /\ pc'[t] = "idle" /\ UNCHANGED <<docs, engine, reload>>
        /\ pc[t] = "entry"
        /\ \A u \in Threads : u # t => pc'[u] = pc[u] /\ hand'[u] = hand[u]
    BY <1>3, Grounds DEF EntryMissing, Raise, Done
  <2>2. Fits(t)' /\ hand'[t].job = "none"
    BY <2>1, Grounds, OrderIsAll DEF Fits, Empty
  <2> QED BY <1>0, <2>1, <2>2, QuietStep
<1>4. CASE EvaluateRules(t)
  <2>1. /\ hand'[t] = [Empty EXCEPT !.job = "rules", !.asked = engine["rules"]]
        /\ pc[t] = "entry" /\ pc'[t] = "write" /\ UNCHANGED <<docs, engine, reload>>
        /\ \A u \in Threads : u # t => pc'[u] = pc[u] /\ hand'[u] = hand[u]
    BY <1>4, Grounds DEF EvaluateRules
  <2>2. Fits(t)' /\ hand'[t].job = "rules"
    BY <2>1, Grounds, OrderIsAll DEF Fits, Empty
  <2> QED BY <1>0, <2>1, <2>2, QuietStep
<1> QED BY <1>1, <1>2, <1>3, <1>4 DEF CycleStep

LEMMA HandlerKeeps ==
  ASSUME IInv, NEW t \in Threads, HandlerStep(t)
  PROVE  IInv'
<1>0. TypeOK'
  BY TypeHandler DEF IInv
<1>1. ASSUME NEW p \in Points, TestWrite(t, p) PROVE IInv'
  <2>1. /\ hand'[t] = [Empty EXCEPT !.job = "test", !.asked = engine["points"]]
        /\ pc[t] = "idle" /\ pc'[t] = "write" /\ UNCHANGED <<docs, engine, reload>>
        /\ \A u \in Threads : u # t => pc'[u] = pc[u] /\ hand'[u] = hand[u]
    BY <1>1, Grounds DEF TestWrite
  <2>2. Fits(t)' /\ hand'[t].job = "test"
    BY <2>1, Grounds, OrderIsAll DEF Fits, Empty
  <2> QED BY <1>0, <2>1, <2>2, QuietStep
<1>2. CASE StartScan(t)
  <2>1. /\ hand'[t] = [Empty EXCEPT !.job = "scan", !.client = engine["clients"]]
        /\ pc[t] = "idle" /\ pc'[t] = "scan" /\ UNCHANGED <<docs, engine, reload>>
        /\ \A u \in Threads : u # t => pc'[u] = pc[u] /\ hand'[u] = hand[u]
    BY <1>2, Grounds DEF StartScan
  <2>2. Fits(t)' /\ hand'[t].job = "scan"
    BY <2>1, Grounds, OrderIsAll DEF Fits, Empty
  <2> QED BY <1>0, <2>1, <2>2, QuietStep
<1>3. CASE Probe(t)
  <2>1. /\ hand' = hand /\ pc' = pc /\ pc[t] = "scan" /\ UNCHANGED <<docs, engine, reload>>
    BY <1>3 DEF Probe
  <2>2. Fits(t)'
    BY <2>1, Grounds DEF Fits
  <2> QED BY <1>0, <2>1, <2>2, QuietStep
<1>4. CASE EndScan(t)
  <2>1. /\ hand'[t] = Empty /\ pc'[t] = "idle" /\ UNCHANGED <<docs, engine, reload>>
        /\ pc[t] = "scan"
        /\ \A u \in Threads : u # t => pc'[u] = pc[u] /\ hand'[u] = hand[u]
    BY <1>4, Grounds DEF EndScan, Done
  <2>2. Fits(t)' /\ hand'[t].job = "none"
    BY <2>1, Grounds, OrderIsAll DEF Fits, Empty
  <2> QED BY <1>0, <2>1, <2>2, QuietStep
<1> QED BY <1>1, <1>2, <1>3, <1>4 DEF HandlerStep

LEMMA ReloadKeeps ==
  ASSUME ~ReloadsAtOnce, IInv, NEW t \in Threads, ReloadStep(t)
  PROVE  IInv'
<1>0. TypeOK'
  BY TypeReload DEF IInv
<1>1. ASSUME NEW d \in Docs, StartReload(t, d) PROVE IInv'
  <2>1. /\ hand'[t] = [Empty EXCEPT !.job = "walk", !.asked = engine["io_config"]]
        /\ pc[t] = "idle" /\ pc'[t] = "write" /\ UNCHANGED <<docs, engine>>
        /\ \A u \in Threads : ~Reloading(u)
        /\ \A u \in Threads : u # t => pc'[u] = pc[u] /\ hand'[u] = hand[u]
    BY <1>1, Grounds DEF StartReload
  <2>2. Fits(t)' /\ hand'[t].job = "walk"
    BY <2>1, Grounds, OrderIsAll DEF Fits, Empty
  <2>3. \A u \in Threads : pc[u] \notin {"assign", "close"} /\ pc'[u] \notin {"assign", "close"}
    BY <2>1 DEF Reloading
  <2>4. \A u \in Threads : u # t => ~Reloading(u)'
    BY <2>1 DEF Reloading
  <2>5. Sole' /\ Stairs' /\ Settled'
    BY <2>1, <2>3, <2>4 DEF Sole, Stairs, Settled, IInv
  <2>6. \A u \in Threads : Fits(u)'
    BY <2>1, <2>2, Grounds, OthersFit
  <2> QED BY <1>0, <2>5, <2>6, FitsAllNext DEF IInv
<1>2. CASE BeginSwap(t)
  <2>1. /\ hand'[t] = [Empty EXCEPT !.asked = Len(docs) + 1] /\ pc'[t] = "assign"
        /\ docs' = Append(docs, reload[t].doc) /\ engine' = engine
        /\ reload'[t].old = engine["clients"] /\ reload'[t].done = 0
        /\ pc[t] = "write" /\ hand[t].job = "walk"
        /\ \A u \in Threads : u # t => pc'[u] = pc[u] /\ hand'[u] = hand[u]
    BY <1>2, Grounds, Typing DEF BeginSwap, IInv, Reloads
  <2>2. hand'[t].asked = Len(docs) + 1 /\ hand'[t].job = "none"
    BY <2>1 DEF Empty
  <2>3. Len(docs') = Len(docs) + 1 /\ Len(docs) \in Nat
    <3>1. reload[t].doc \in Docs /\ docs \in Seq(Docs)
      BY Typing DEF IInv, TypeOK, Reloads
    <3> QED BY <2>1, <3>1
  <2>4. \A u \in Threads : u # t => ~Reloading(u) /\ ~Reloading(u)'
    BY <2>1 DEF IInv, Sole, Reloading
  <2>5. \A a \in Attributes : engine[a] = Len(docs)
    BY <2>1, <2>4 DEF IInv, Settled, Reloading
  <2>6. Sole' /\ Settled'
    BY <2>1, <2>4 DEF Sole, Settled
  <2>7. Stairs'
    <3>1. \A u \in Threads : pc'[u] \in {"assign", "close"} => u = t
      BY <2>4 DEF Reloading
    <3>2. \A i \in 1 .. 7 : engine'[Order[i]] = Len(docs') - 1
      BY <2>1, <2>3, <2>5, OrderIsAll
    <3>3. reload'[t].old = Len(docs') - 1
      BY <2>1, <2>3, <2>5, OrderIsAll
    <3>4. \A i \in 1 .. 7 : ~(i <= reload'[t].done)
      BY <2>1
    <3> QED BY <2>1, <2>2, <2>3, <3>1, <3>2, <3>3, <3>4 DEF Stairs
  <2>8. Fits(t)'
    <3>1. hand'[t].table = 0 /\ hand'[t].device = 0
      BY <2>1 DEF Empty
    <3> QED BY <2>1, <2>2, <3>1, Grounds, OrderIsAll DEF Fits
  <2>9. \A u \in Threads : Fits(u)'
    BY <2>1, <2>8, Grounds, OthersFit
  <2> QED BY <1>0, <2>6, <2>7, <2>9, FitsAllNext DEF IInv
<1>3. CASE Assign(t)
  <2> DEFINE i == reload[t].done + 1
             n == Len(docs)
  <2>1. /\ UNCHANGED <<docs, hand>> /\ pc[t] = "assign"
        /\ engine' = [engine EXCEPT ![Order[i]] = hand[t].asked]
        /\ reload'[t].old = reload[t].old /\ reload'[t].done = i
        /\ pc'[t] = IF reload[t].done = 6 THEN "close" ELSE "assign"
        /\ \A u \in Threads : u # t => pc'[u] = pc[u] /\ hand'[u] = hand[u]
    BY <1>3, Typing DEF Assign, IInv, Reloads
  <2>2. /\ reload[t].done \in 0 .. 6 /\ i \in 1 .. 7 /\ n \in Nat \ {0}
        /\ hand[t].asked = n /\ reload[t].old = n - 1
        /\ \A j \in 1 .. 7 : engine[Order[j]] = IF j <= reload[t].done THEN n ELSE n - 1
    BY <2>1, Typing DEF IInv, TypeOK, Stairs, Reloads
  <2>3. \A j \in 1 .. 7 : engine'[Order[j]] = IF j <= i THEN n ELSE n - 1
    <3>1. ASSUME NEW j \in 1 .. 7
          PROVE  engine'[Order[j]] = IF j = i THEN n ELSE engine[Order[j]]
      BY <2>1, <2>2, OrderIsAll, Typing DEF IInv
    <3> QED BY <2>2, <3>1
  <2>4. \A u \in Threads : u # t => ~Reloading(u) /\ ~Reloading(u)'
    BY <2>1 DEF IInv, Sole, Reloading
  <2>5. Sole' /\ Settled'
    BY <2>1, <2>4 DEF Sole, Settled
  <2>6. Stairs'
    <3>1. \A u \in Threads : pc'[u] \in {"assign", "close"} => u = t
      BY <2>4 DEF Reloading
    <3>2. pc'[t] = "close" => i = 7
      BY <2>1, <2>2
    <3> HIDE DEF i, n
    <3>3. docs' = docs /\ hand'[t].asked = n /\ reload'[t].old = n - 1 /\ reload'[t].done = i
      BY <2>1, <2>2
    <3>4. pc'[t] = "close" => \A j \in 1 .. 7 : engine'[Order[j]] = n
      BY <2>3, <3>2
    <3> QED BY <2>3, <3>1, <3>3, <3>4 DEF Stairs, n
  <2>7. \A a \in Attributes : engine'[a] \in Nat /\ engine'[a] >= engine[a]
    BY <2>2, <2>3, OrderIsAll
  <2>8. Fits(t)'
    <3>1. hand'[t] = hand[t] /\ pc'[t] \in {"assign", "close"}
      BY <2>1
    <3>2. /\ engine'["points"] \in Nat /\ engine'["points"] >= engine["points"]
          /\ engine'["devices"] \in Nat /\ engine'["devices"] >= engine["devices"]
      BY <2>7, OrderIsAll
    <3>3. hand[t].job = "none"
      BY <2>1, Grounds DEF Fits
    <3>4. engine["points"] \in Nat /\ engine["devices"] \in Nat
      BY Grounds, OrderIsAll
    <3> HIDE DEF i, n
    <3>5. /\ hand[t].table <= engine["points"] /\ hand[t].device <= engine["devices"]
          /\ hand[t].table \in Nat /\ hand[t].device \in Nat
      BY Grounds DEF Fits
    <3>6. hand[t].table <= engine'["points"] /\ hand[t].device <= engine'["devices"]
      BY <3>2, <3>4, <3>5
    <3> QED BY <3>1, <3>3, <3>6 DEF Fits
  <2>9. \A u \in Threads : Fits(u)'
    BY <2>1, <2>7, <2>8, OthersFit
  <2> QED BY <1>0, <2>5, <2>6, <2>9, FitsAllNext DEF IInv
<1>4. CASE CloseOld(t)
  <2>1. /\ hand'[t] = Empty /\ pc[t] = "close" /\ pc'[t] = "idle" /\ UNCHANGED <<docs, engine>>
        /\ \A u \in Threads : u # t => pc'[u] = pc[u] /\ hand'[u] = hand[u]
    BY <1>4, Grounds DEF CloseOld, Done
  <2>2. \A u \in Threads : u # t => ~Reloading(u) /\ ~Reloading(u)'
    BY <2>1 DEF IInv, Sole, Reloading
  <2>3. \A a \in Attributes : engine'[a] = Len(docs')
    <3>1. \A i \in 1 .. 7 : engine[Order[i]] = Len(docs)
      BY <2>1 DEF IInv, Stairs
    <3> QED BY <2>1, <3>1, OrderIsAll
  <2>4. Sole' /\ Stairs' /\ Settled'
    BY <2>1, <2>2, <2>3 DEF Sole, Stairs, Settled, Reloading
  <2>5. Fits(t)'
    BY <2>1, Grounds, OrderIsAll DEF Fits, Empty
  <2>6. \A u \in Threads : Fits(u)'
    BY <2>1, <2>5, Grounds, OthersFit
  <2> QED BY <1>0, <2>4, <2>6, FitsAllNext DEF IInv
<1> QED BY <1>1, <1>2, <1>3, <1>4 DEF ReloadStep

LEMMA Inductive ==
  ASSUME ~ReloadsAtOnce, IInv, [Next]_vars
  PROVE  IInv'
<1>1. CASE UNCHANGED vars
  <2>1. Gens' = Gens /\ Hands' = Hands /\ Reloads' = Reloads
    BY <1>1 DEF vars, Gens, Hands, Reloads
  <2> QED BY <1>1, <2>1 DEF vars, IInv, TypeOK, Sole, Reloading, Stairs, Settled, Behind, Jobs,
                          LookupsForward
<1> QED BY <1>1, WriteKeeps, ReloadKeeps, CycleKeeps, HandlerKeeps DEF Next

\* One reload at a time: a thread that meets a swap looks up newer and newer
\* attributes, so that no point of a new document goes to a client of an old one.
THEOREM LookupsGoForward ==
    ASSUME ~ReloadsAtOnce
    PROVE  Spec => []LookupsForward
<1>1. IInv => LookupsForward
  BY DEF IInv
<1>2. IInv /\ [Next]_vars => IInv'
  BY Inductive
<1> QED BY <1>1, <1>2, InitIInv, PTL DEF Spec

\* One reload at a time: between reloads every attribute is the newest document's.
THEOREM SettlesOnOne ==
    ASSUME ~ReloadsAtOnce
    PROVE  Spec => []Settled
<1>1. IInv => Settled
  BY DEF IInv
<1>2. IInv /\ [Next]_vars => IInv'
  BY Inductive
<1> QED BY <1>1, <1>2, InitIInv, PTL DEF Spec

\* One reload at a time: clients are closed when no attribute leads to them any more.
THEOREM ClosesRetiredOnly ==
    ASSUME ~ReloadsAtOnce
    PROVE  Spec => ClosedIsRetired
<1>1. ASSUME IInv, [Next]_vars
      PROVE  [\A g \in open \ open' : \A a \in Attributes : engine[a] > g]_vars
  <2>1. CASE UNCHANGED vars
    BY <2>1
  <2>2. ASSUME NEW t \in Threads, NEW g \in open \ open',
               WriteStep(t) \/ ReloadStep(t) \/ CycleStep(t) \/ HandlerStep(t)
        PROVE  \A a \in Attributes : engine[a] > g
    <3>1. CloseOld(t)
      BY <2>2 DEF WriteStep, ReloadStep, CycleStep, HandlerStep, LookPoint, LookDevice, LookClient,
         LookMissing, Raise, Call, WritesDone, StartReload, BeginSwap, Assign, BindPlan, BindClient,
         EntryMissing, EvaluateRules, TestWrite, StartScan, Probe, EndScan
    <3>2. g = reload[t].old /\ pc[t] = "close"
      BY <2>2, <3>1 DEF CloseOld
    <3>3. g = Len(docs) - 1 /\ \A i \in 1 .. 7 : engine[Order[i]] = Len(docs)
      BY <1>1, <3>2 DEF IInv, Stairs
    <3>4. Len(docs) \in Nat
      BY <1>1, Typing DEF IInv
    <3> QED BY <3>3, <3>4, OrderIsAll
  <2> QED BY <1>1, <2>1, <2>2 DEF Next
<1>2. IInv /\ [Next]_vars => IInv'
  BY Inductive
<1> QED BY <1>1, <1>2, InitIInv, PTL DEF Spec, ClosedIsRetired

=============================================================================
