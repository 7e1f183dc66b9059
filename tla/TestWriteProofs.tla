-------------------------- MODULE TestWriteProofs --------------------------
(***************************************************************************)
(* No interleaving of test-write handlers and passes of the poll thread    *)
(* loses the revert of an output, for any number of requests and outputs:  *)
(* only a failed bus write or a refused event does.                        *)
(***************************************************************************)
EXTENDS TestWrite, TLAPS

IInv == TypeOK /\ TestCovered

LEMMA CoilWriteType ==
    ASSUME TypeOK, NEW o \in Outputs, NEW v \in BOOLEAN, NEW outcome, CoilWrite(o, v, outcome)
    PROVE  coil' \in [Outputs -> BOOLEAN] /\ faulted' \subseteq Outputs
  BY DEF TypeOK, CoilWrite

LEMMA TypeInductive ==
    ASSUME TypeOK, [Next]_vars
    PROVE  TypeOK'
<1> USE TestWriteAssumption DEF TypeOK, Stages, Stage, asked
<1>1. ASSUME NEW x \in Requests, NEW v \in BOOLEAN, NEW t \in Timeouts, Check(x, v, t)
      PROVE  TypeOK'
  <2>1. now + t \in 0 .. MaxNow
    BY <1>1 DEF Check
  <2> QED BY <1>1, <2>1 DEF Check
<1>2. ASSUME NEW x \in Requests, WriteOutput(x)
      PROVE  TypeOK'
  <2>1. PICK outcome \in {"ok", "refused", "lost"} :
          /\ Stage(x, "checked", IF outcome = "ok" THEN "onBus" ELSE "over")
          /\ CoilWrite(point[x], value[x], outcome)
          /\ UNCHANGED <<shown, commissioning, now, asked, passing>>
    BY <1>2 DEF WriteOutput
  <2>2. coil' \in [Outputs -> BOOLEAN] /\ faulted' \subseteq Outputs
    BY <2>1, CoilWriteType
  <2> QED BY <2>1, <2>2
<1>3. ASSUME NEW x \in Requests, Revert(x)
      PROVE  TypeOK'
  <2>1. SafeState[point[x]] \in BOOLEAN
    OBVIOUS
  <2>2. PICK outcome \in {"ok", "refused", "lost"} :
          /\ Stage(x, "due", IF outcome = "ok" THEN "reverted" ELSE "failed")
          /\ CoilWrite(point[x], SafeState[point[x]], outcome)
          /\ UNCHANGED <<shown, commissioning, now, asked, passing>>
    BY <1>3 DEF Revert
  <2>3. coil' \in [Outputs -> BOOLEAN] /\ faulted' \subseteq Outputs
    BY <2>1, <2>2, CoilWriteType
  <2> QED BY <2>2, <2>3
<1>4. ASSUME NEW x \in Requests, Reject(x) \/ Show(x) \/ Schedule(x) \/ ShowRevert(x)
      PROVE  TypeOK'
  <2>1. SafeState[point[x]] \in BOOLEAN
    OBVIOUS
  <2>2. CASE Reject(x) \/ Schedule(x)
    BY <2>2 DEF Reject, Schedule
  <2>3. CASE Show(x)
    BY <2>3 DEF Show
  <2>4. CASE ShowRevert(x)
    <3>1. shown' \in [Outputs -> BOOLEAN]
      BY <2>1, <2>4 DEF ShowRevert, ShowReverted
    <3> QED BY <2>4, <3>1 DEF ShowRevert
  <2> QED BY <1>4, <2>2, <2>3, <2>4
<1>8. ASSUME NEW x \in Requests, LogRaises(x)
      PROVE  TypeOK'
  BY <1>8 DEF LogRaises
<1>9. ASSUME NEW x \in Requests, CutPass(x)
      PROVE  TypeOK'
  <2>1. shown' \in [Outputs -> BOOLEAN]
    BY <1>9 DEF CutPass, ShowReverted
  <2>2. stage' \in [Requests -> Stages]
    BY <1>9 DEF CutPass
  <2>3. faulted' \subseteq Outputs
    BY <1>9 DEF CutPass
  <2> QED BY <1>9, <2>1, <2>2, <2>3 DEF CutPass
<1>5. CASE StartPass
  BY <1>5 DEF StartPass
<1>6. CASE EndPass \/ Tick \/ \E enabled \in BOOLEAN : SetMode(enabled)
  <2>1. CASE EndPass
    BY <2>1 DEF EndPass
  <2>2. CASE Tick
    BY <2>2 DEF Tick
  <2>3. ASSUME NEW enabled \in BOOLEAN, SetMode(enabled)
        PROVE  TypeOK'
    BY <2>3 DEF SetMode
  <2> QED BY <1>6, <2>1, <2>2, <2>3
<1>7. CASE UNCHANGED vars
  BY <1>7 DEF vars
<1> QED BY <1>1, <1>2, <1>3, <1>4, <1>5, <1>6, <1>7, <1>8, <1>9 DEF Next, Handler, RevertStep

\* A step that writes no coil and closes no open test keeps every output covered.
LEMMA KeepsCover ==
    ASSUME TestCovered, UNCHANGED <<coil, point, faulted>>,
           \A x \in Requests : Open(x) => Open(x)'
    PROVE  TestCovered'
  BY DEF TestCovered, Covered

\* Nor does one that marks the outputs whose reverts it gives up.
LEMMA GivenUpIsMarked ==
    ASSUME TestCovered, UNCHANGED <<coil, point>>, faulted \subseteq faulted',
           \A x \in Requests : Open(x) => Open(x)' \/ point[x] \in faulted'
    PROVE  TestCovered'
  BY DEF TestCovered, Covered

\* A write to the output of request x: the other outputs keep their cover, and
\* this one is safe, or covered by x, or marked as faulted.
LEMMA WriteKeepsCover ==
    ASSUME TypeOK, TestCovered, NEW x \in Requests, NEW v \in BOOLEAN, NEW outcome,
           CoilWrite(point[x], v, outcome), UNCHANGED point,
           \A y \in Requests \ {x} : stage'[y] = stage[y],
           outcome = "ok" => v = SafeState[point[x]] \/ Open(x)'
    PROVE  TestCovered'
<1> SUFFICES ASSUME NEW o \in Outputs, coil'[o] # SafeState[o], o \notin faulted'
             PROVE  Covered(o)'
  BY DEF TestCovered
<1>1. CASE o = point[x]
  BY <1>1 DEF CoilWrite, Covered, TypeOK
<1>2. CASE o # point[x]
  <2>1. coil[o] # SafeState[o] /\ o \notin faulted
    BY <1>2 DEF CoilWrite, TypeOK
  <2> QED BY <1>2, <2>1 DEF TestCovered, Covered, Open
<1> QED BY <1>1, <1>2

LEMMA CoverInductive ==
    ASSUME IInv, [Next]_vars
    PROVE  TestCovered'
<1> USE TestWriteAssumption DEF IInv, Stage, asked
<1>1. ASSUME NEW x \in Requests, WriteOutput(x)
      PROVE  TestCovered'
  <2>1. PICK outcome \in {"ok", "refused", "lost"} :
          /\ Stage(x, "checked", IF outcome = "ok" THEN "onBus" ELSE "over")
          /\ CoilWrite(point[x], value[x], outcome)
          /\ UNCHANGED point
    BY <1>1 DEF WriteOutput
  <2>2. /\ outcome = "ok" => Open(x)'
        /\ \A y \in Requests \ {x} : stage'[y] = stage[y]
        /\ value[x] \in BOOLEAN
    BY <2>1 DEF Open, TypeOK
  <2> QED BY <2>1, <2>2, WriteKeepsCover
<1>2. ASSUME NEW x \in Requests, Revert(x)
      PROVE  TestCovered'
  <2>1. PICK outcome \in {"ok", "refused", "lost"} :
          /\ Stage(x, "due", IF outcome = "ok" THEN "reverted" ELSE "failed")
          /\ CoilWrite(point[x], SafeState[point[x]], outcome)
          /\ UNCHANGED point
    BY <1>2 DEF Revert
  <2>2. /\ \A y \in Requests \ {x} : stage'[y] = stage[y]
        /\ SafeState[point[x]] \in BOOLEAN
    BY <2>1 DEF TypeOK
  <2> QED BY <2>1, <2>2, WriteKeepsCover
<1>3. ASSUME NEW x \in Requests,
             \/ Reject(x) \/ Show(x) \/ Schedule(x) \/ ShowRevert(x)
             \/ \E v \in BOOLEAN, t \in Timeouts : Check(x, v, t)
      PROVE  TestCovered'
  <2>1. UNCHANGED <<coil, point, faulted>>
    BY <1>3 DEF Reject, Show, Schedule, ShowRevert, Check
  <2>2. \A y \in Requests : Open(y) => Open(y)'
    BY <1>3 DEF Reject, Show, Schedule, ShowRevert, Reverting, Check, Open, TypeOK
  <2> QED BY <2>1, <2>2, KeepsCover
<1>4. CASE StartPass
  <2>1. \A y \in Requests : Open(y) => Open(y)'
    BY <1>4 DEF StartPass, IsDue, Open
  <2> QED BY <1>4, <2>1, KeepsCover DEF StartPass
<1>5. CASE EndPass \/ Tick \/ (\E enabled \in BOOLEAN : SetMode(enabled)) \/ UNCHANGED vars
  <2>1. UNCHANGED <<coil, point, faulted, stage>>
    BY <1>5 DEF EndPass, Tick, SetMode, vars
  <2> QED BY <2>1, KeepsCover DEF Open
<1>6. ASSUME NEW x \in Requests, LogRaises(x) \/ CutPass(x)
      PROVE  TestCovered'
  <2>1. /\ UNCHANGED <<coil, point>> /\ faulted \subseteq faulted'
        /\ \A y \in Requests : Open(y) => Open(y)' \/ point[y] \in faulted'
    BY <1>6 DEF LogRaises, CutPass, Reverting, Open, TypeOK
  <2> QED BY <2>1, GivenUpIsMarked
<1> QED BY <1>1, <1>2, <1>3, <1>4, <1>5, <1>6 DEF Next, Handler, RevertStep

LEMMA InitIInv == Init => IInv
<1> SUFFICES ASSUME Init PROVE IInv
  OBVIOUS
<1>1. TypeOK
  <2>1. stage \in [Requests -> Stages] /\ value \in [Requests -> BOOLEAN]
    BY DEF Init, Stages
  <2>2. 0 \in 0 .. MaxNow
    BY TestWriteAssumption
  <2>3. now \in 0 .. MaxNow /\ revertAt \in [Requests -> 0 .. MaxNow]
    BY <2>2 DEF Init
  <2> QED BY <2>1, <2>3, TestWriteAssumption DEF Init, TypeOK
<1>2. TestCovered
  BY DEF Init, TestCovered
<1> QED BY <1>1, <1>2 DEF IInv

LEMMA Invariance == Spec => []IInv
<1>1. IInv /\ [Next]_vars => IInv'
  BY TypeInductive, CoverInductive DEF IInv
<1> QED BY InitIInv, <1>1, PTL DEF Spec

\* Type correctness of the test-write bookkeeping.
THEOREM TypeCorrect == Spec => []TypeOK
<1>1. IInv => TypeOK
  BY DEF IInv
<1> QED BY Invariance, <1>1, PTL

\* test_write.py never loses track of an output it energised, except through a
\* failed bus write or an event that cannot be filed.
THEOREM NoRevertLost == Spec => []TestCovered
<1>1. IInv => TestCovered
  BY DEF IInv
<1> QED BY Invariance, <1>1, PTL
=============================================================================
