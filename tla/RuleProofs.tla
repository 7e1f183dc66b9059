----------------------------- MODULE RuleProofs -----------------------------
(***************************************************************************)
(* Proofs about RuleEngine and ConfigIntake, for any rules, documents and  *)
(* readings.  What an operator does to a sequence of any length is proved  *)
(* by looking at the first position where it would go wrong (Least): this  *)
(* gives what FlattenSeq keeps (FlattenElements), and with it what         *)
(* selecting and concatenating keep, which is all the two models do to     *)
(* sequences.                                                              *)
(***************************************************************************)
EXTENDS RuleEngine, ConfigIntake, WellFoundedInduction, FiniteSetTheorems,
        SequenceTheorems, TLAPS

\* Every non-empty set of natural numbers has a least element: with it a claim about all
\* positions of a sequence is proved by looking at the first that would violate it.
LEMMA Least ==
    ASSUME NEW T, T \subseteq Nat, T # {}
    PROVE  \E n \in T : \A m \in T : n <= m
<1>1. IsWellFoundedOn(OpToRel(<, Nat), Nat)
  BY NatLessThanWellFounded
<1>2. PICK n \in T : \A m \in T : <<m, n>> \notin OpToRel(<, Nat)
  BY <1>1, WFMin
<1>3. \A m \in T : ~ (m < n)
  BY <1>2 DEF OpToRel
<1> QED BY <1>3

LEMMA Greatest ==
    ASSUME NEW N \in Nat, NEW T, T \subseteq 0 .. N, T # {}
    PROVE  \E n \in T : \A m \in T : n >= m
<1> DEFINE U == {N - m : m \in T}
<1>1. U \subseteq Nat /\ U # {}
  <2>1. \A m \in T : m \in 0 .. N /\ N - m \in Nat
    OBVIOUS
  <2> QED BY <2>1
<1>2. PICK u \in U : \A m \in U : u <= m
  BY <1>1, Least
<1>3. PICK n \in T : u = N - n
  BY <1>2
<1>4. \A m \in T : N - m \in U
  OBVIOUS
<1>5. ASSUME NEW m \in T
      PROVE  n >= m
  <2>1. u <= N - m
    BY <1>2, <1>4
  <2>2. n \in Nat /\ m \in Nat
    OBVIOUS
  <2> QED BY <2>1, <2>2, <1>3
<1> QED BY <1>5

LEMMA MinInSet ==
    ASSUME NEW T, T \subseteq Nat, T # {}
    PROVE  Min(T) \in T /\ \A m \in T : Min(T) <= m
  BY Least DEF Min

LEMMA MaxInSet ==
    ASSUME NEW N \in Nat, NEW T, T \subseteq 0 .. N, T # {}
    PROVE  Max(T) \in T /\ \A m \in T : m <= Max(T)
  BY Greatest DEF Max

-----------------------------------------------------------------------------
LEMMA SeqOfFunction ==
    ASSUME NEW S, NEW n \in Nat, NEW f \in [1 .. n -> S]
    PROVE  f \in Seq(S) /\ Len(f) = n /\ DOMAIN f = 1 .. n
  OBVIOUS

\* What FlattenSeq defines by recursion exists.
LEMMA FlattenExists ==
    ASSUME NEW ss, NEW N \in Nat
    PROVE  \E f : f = [i \in 1 .. N |-> IF i = 1 THEN ss[i] ELSE f[i-1] \o ss[i]]
<1> DEFINE Upto(n) == \E f : f = [i \in 1 .. n |-> IF i = 1 THEN ss[i] ELSE f[i-1] \o ss[i]]
           Bad == {n \in 0 .. N : ~Upto(n)}
<1> SUFFICES ASSUME Bad # {} PROVE FALSE
  <2>1. N \in 0 .. N
    OBVIOUS
  <2>2. Upto(N) => \E f : f = [i \in 1 .. N |-> IF i = 1 THEN ss[i] ELSE f[i-1] \o ss[i]]
    OBVIOUS
  <2> HIDE DEF Upto
  <2> QED BY <2>1, <2>2
<1>1. PICK n \in Bad : \A m \in Bad : n <= m
  <2> HIDE DEF Upto
  <2>1. Bad \subseteq Nat
    OBVIOUS
  <2> HIDE DEF Bad
  <2> QED BY <2>1, Least
<1>2. Upto(0)
  <2>1. 1 .. 0 = {}
    OBVIOUS
  <2> QED BY <2>1
<1>3. n \in 1 .. N /\ Upto(n-1)
  <2> HIDE DEF Upto
  <2> QED BY <1>1, <1>2
<1>4. PICK g : g = [i \in 1 .. n-1 |-> IF i = 1 THEN ss[i] ELSE g[i-1] \o ss[i]]
  BY <1>3
<1> DEFINE h == [i \in 1 .. n |-> IF i = 1 THEN ss[i] ELSE g[i-1] \o ss[i]]
<1>5. \A i \in 1 .. n-1 : h[i] = g[i]
  <2>1. n \in Nat
    BY <1>3
  <2>2. ASSUME NEW i \in 1 .. n-1
        PROVE  h[i] = g[i]
    <3>1. h[i] = IF i = 1 THEN ss[i] ELSE g[i-1] \o ss[i]
      BY <2>1
    <3>2. g[i] = IF i = 1 THEN ss[i] ELSE g[i-1] \o ss[i]
      BY <1>4
    <3> QED BY <3>1, <3>2
  <2> QED BY <2>2
<1>6. ASSUME NEW i \in 1 .. n
      PROVE  h[i] = IF i = 1 THEN ss[i] ELSE h[i-1] \o ss[i]
  <2>1. h[i] = IF i = 1 THEN ss[i] ELSE g[i-1] \o ss[i]
    OBVIOUS
  <2>2. i # 1 => h[i-1] = g[i-1]
    <3>1. i # 1 => i-1 \in 1 .. n-1
      BY <1>3
    <3> HIDE DEF h
    <3> QED BY <3>1, <1>5
  <2> QED BY <2>1, <2>2
<1>7. h = [i \in 1 .. n |-> IF i = 1 THEN ss[i] ELSE h[i-1] \o ss[i]]
  <2>1. h = [i \in 1 .. n |-> h[i]]
    OBVIOUS
  <2> HIDE DEF h
  <2>2. [i \in 1 .. n |-> h[i]] = [i \in 1 .. n |-> IF i = 1 THEN ss[i] ELSE h[i-1] \o ss[i]]
    BY <1>6
  <2> QED BY <2>1, <2>2
<1>8. Upto(n)
  <2> HIDE DEF h
  <2> QED BY <1>7
<1> QED BY <1>8, <1>1

LEMMA SeqOfElements ==
    ASSUME NEW S, NEW T, NEW s \in Seq(S), ToSet(s) \subseteq T
    PROVE  s \in Seq(T)
<1>1. Len(s) \in Nat /\ DOMAIN s = 1 .. Len(s) /\ s \in [1 .. Len(s) -> S]
  BY LenProperties
<1>2. \A k \in 1 .. Len(s) : s[k] \in T
  BY <1>1 DEF ToSet
<1>3. s \in [1 .. Len(s) -> T]
  BY <1>1, <1>2
<1> QED BY <1>1, <1>3, SeqOfFunction

LEMMA ElementIn ==
    ASSUME NEW S, NEW s \in Seq(S), NEW x \in ToSet(s)
    PROVE  x \in S
  BY ElementOfSeq, LenProperties DEF ToSet

LEMMA ConcatElements ==
    ASSUME NEW S, NEW s \in Seq(S), NEW t \in Seq(S)
    PROVE  s \o t \in Seq(S) /\ ToSet(s \o t) = ToSet(s) \cup ToSet(t)
<1>1. s \o t \in Seq(S) /\ Range(s \o t) = Range(s) \cup Range(t)
  BY RangeConcatenation, ConcatProperties
<1>2. \A u : ToSet(u) = Range(u)
  BY DEF ToSet, Range
<1> QED BY <1>1, <1>2

LEMMA ConcatInjective ==
    ASSUME NEW S, NEW s \in Seq(S), NEW t \in Seq(S),
           IsInjective(s), IsInjective(t), ToSet(s) \cap ToSet(t) = {}
    PROVE  IsInjective(s \o t)
<1> DEFINE u == s \o t
<1>1. Len(s) \in Nat /\ DOMAIN s = 1 .. Len(s) /\ Len(t) \in Nat /\ DOMAIN t = 1 .. Len(t)
  BY LenProperties
<1>2. /\ DOMAIN u = 1 .. Len(s) + Len(t)
      /\ \A i \in 1 .. Len(s) + Len(t) : u[i] = IF i <= Len(s) THEN s[i] ELSE t[i - Len(s)]
  <2>1. u \in Seq(S) /\ Len(u) = Len(s) + Len(t)
    BY ConcatProperties
  <2>2. \A i \in 1 .. Len(s) + Len(t) : u[i] = IF i <= Len(s) THEN s[i] ELSE t[i - Len(s)]
    BY ConcatProperties
  <2> HIDE DEF u
  <2> QED BY <2>1, <2>2, LenProperties
<1> HIDE DEF u
<1>3. ASSUME NEW i \in DOMAIN u, NEW j \in DOMAIN u, u[i] = u[j]
      PROVE  i = j
  <2>1. CASE i <= Len(s) /\ j <= Len(s)
    BY <1>1, <1>2, <1>3, <2>1 DEF IsInjective
  <2>2. CASE ~(i <= Len(s)) /\ ~(j <= Len(s))
    <3>1. /\ i - Len(s) \in DOMAIN t /\ j - Len(s) \in DOMAIN t
          /\ t[i - Len(s)] = t[j - Len(s)]
      BY <1>1, <1>2, <1>3, <2>2
    <3>2. i - Len(s) = j - Len(s)
      BY <3>1 DEF IsInjective
    <3> QED BY <1>1, <1>2, <3>2
  <2>3. \A k, l \in DOMAIN u : k <= Len(s) /\ ~(l <= Len(s)) => u[k] # u[l]
    <3>1. \A k \in DOMAIN u : k <= Len(s) => u[k] \in ToSet(s)
      BY <1>1, <1>2 DEF ToSet
    <3>2. \A l \in DOMAIN u : ~(l <= Len(s)) => u[l] \in ToSet(t)
      <4>1. \A l \in DOMAIN u : ~(l <= Len(s)) => l - Len(s) \in DOMAIN t /\ u[l] = t[l - Len(s)]
        BY <1>1, <1>2
      <4> QED BY <4>1 DEF ToSet
    <3> QED BY <3>1, <3>2
  <2> QED BY <1>3, <2>1, <2>2, <2>3
<1>4. IsInjective(u)
  BY <1>3 DEF IsInjective
<1> QED BY <1>4 DEF u

\* Sequences without repetition that have nothing in common.
Apart(ss) ==
    /\ \A k \in DOMAIN ss : IsInjective(ss[k])
    /\ \A j, k \in DOMAIN ss : j # k => ToSet(ss[j]) \cap ToSet(ss[k]) = {}

\* Flattening a sequence of sequences keeps exactly their elements, and repeats none
\* that they do not repeat.
LEMMA FlattenElements ==
    ASSUME NEW S, NEW ss \in Seq(Seq(S))
    PROVE  /\ FlattenSeq(ss) \in Seq(S)
           /\ ToSet(FlattenSeq(ss)) = UNION {ToSet(ss[k]) : k \in DOMAIN ss}
           /\ Apart(ss) => IsInjective(FlattenSeq(ss))
<1> DEFINE N == Len(ss)
<1>1. N \in Nat /\ DOMAIN ss = 1 .. N /\ \A k \in 1 .. N : ss[k] \in Seq(S)
  BY ElementOfSeq
<1>2. CASE N = 0
  <2>1. ss = <<>>
    BY <1>2, EmptySeq
  <2>2. FlattenSeq(ss) = <<>>
    BY <1>2, <2>1 DEF FlattenSeq
  <2>3. <<>> \in Seq(S) /\ ToSet(<<>>) = {} /\ IsInjective(<<>>)
    BY DEF ToSet, IsInjective
  <2>4. DOMAIN ss = {}
    BY <1>1, <1>2
  <2> QED BY <2>2, <2>3, <2>4
<1>3. CASE N # 0
  <2> DEFINE f == CHOOSE g : g = [i \in 1 .. N |-> IF i = 1 THEN ss[i] ELSE g[i-1] \o ss[i]]
  <2>1. f = [i \in 1 .. N |-> IF i = 1 THEN ss[i] ELSE f[i-1] \o ss[i]]
    BY <1>1, FlattenExists
  <2>2. FlattenSeq(ss) = f[N]
    BY <1>3 DEF FlattenSeq
  <2> HIDE DEF f
  <2> DEFINE Good(i) == /\ f[i] \in Seq(S)
                        /\ ToSet(f[i]) = UNION {ToSet(ss[k]) : k \in 1 .. i}
                        /\ Apart(ss) => IsInjective(f[i])
             Bad == {i \in 1 .. N : ~Good(i)}
  <2>3. Good(1)
    <3>1. f[1] = ss[1] /\ 1 .. 1 = {1}
      BY <1>1, <1>3, <2>1
    <3> QED BY <3>1, <1>1, <1>3 DEF Apart
  <2>4. ASSUME NEW i \in 2 .. N, Good(i-1)
        PROVE  Good(i)
    <3>1. f[i] = f[i-1] \o ss[i]
      <4>1. i \in 1 .. N /\ i # 1
        BY <1>1
      <4>2. \A j \in 1 .. N : f[j] = IF j = 1 THEN ss[j] ELSE f[j-1] \o ss[j]
        BY <2>1
      <4> QED BY <4>1, <4>2
    <3>2. ss[i] \in Seq(S) /\ f[i-1] \in Seq(S)
      BY <1>1, <2>4
    <3>3. f[i] \in Seq(S) /\ ToSet(f[i]) = ToSet(f[i-1]) \cup ToSet(ss[i])
      BY <3>1, <3>2, ConcatElements
    <3>4. 1 .. i = 1 .. (i-1) \cup {i}
      BY <1>1
    <3>5. ASSUME Apart(ss)
          PROVE  IsInjective(f[i])
      <4>1. IsInjective(f[i-1]) /\ IsInjective(ss[i])
        BY <1>1, <2>4, <3>5 DEF Apart
      <4>2. \A k \in 1 .. (i-1) : ToSet(ss[k]) \cap ToSet(ss[i]) = {}
        <5>1. \A k \in 1 .. (i-1) : k \in DOMAIN ss /\ i \in DOMAIN ss /\ k # i
          BY <1>1
        <5> QED BY <3>5, <5>1 DEF Apart
      <4>3. ToSet(f[i-1]) \cap ToSet(ss[i]) = {}
        BY <2>4, <4>2
      <4> QED BY <3>1, <3>2, <4>1, <4>3, ConcatInjective
    <3> QED BY <3>3, <3>4, <3>5, <2>4
  <2>5. Bad = {}
    <3> SUFFICES ASSUME Bad # {} PROVE FALSE
      OBVIOUS
    <3> HIDE DEF Good
    <3>1. PICK i \in Bad : \A m \in Bad : i <= m
      <4>1. Bad \subseteq Nat
        BY <1>1
      <4> HIDE DEF Bad
      <4> QED BY <4>1, Least
    <3>2. i \in 2 .. N /\ i-1 \in 1 .. N
      BY <3>1, <2>3
    <3>3. Good(i-1)
      BY <3>1, <3>2
    <3> QED BY <3>1, <3>2, <3>3, <2>4
  <2>6. Good(N)
    <3> HIDE DEF Good
    <3> QED BY <2>5, <1>1, <1>3
  <2> QED BY <2>2, <2>6, <1>1
<1> QED BY <1>2, <1>3, <1>1

LEMMA FlattenFunction ==
    ASSUME NEW S, NEW n \in Nat, NEW ss \in [1 .. n -> Seq(S)]
    PROVE  /\ FlattenSeq(ss) \in Seq(S)
           /\ ToSet(FlattenSeq(ss)) = UNION {ToSet(ss[k]) : k \in 1 .. n}
           /\ Apart(ss) => IsInjective(FlattenSeq(ss))
  BY SeqOfFunction, FlattenElements

-----------------------------------------------------------------------------
(* RuleEngine: the sequences of a cycle. *)

Reverts == [point : Outputs, left : Nat \ {0}, value : BOOLEAN]
AgedReverts == [point : Outputs, left : Nat, value : BOOLEAN]
CoilSettings == [point : Outputs, value : BOOLEAN]
Calls == [rule : RuleIds \cup {Engine}, act : ActionRecords]
Due == [point : Outputs, left : {0}, value : BOOLEAN]

LEMMA RuleTyped ==
    ASSUME NEW i \in RuleIds
    PROVE  /\ Rules[i] \in RuleRecords
           /\ Rules[i].then \in Seq(ActionRecords) /\ Rules[i].else \in Seq(ActionRecords)
<1>1. Rules[i] \in RuleRecords
  BY RuleEngineAssumption, ElementOfSeq DEF RuleIds
<1> QED BY <1>1 DEF RuleRecords

\* What a rule calls for is what its branch says, and only if it is enabled.
LEMMA CalledElements ==
    ASSUME NEW r
    PROVE  /\ Called(r) \in Seq(Calls)
           /\ \A x \in ToSet(Called(r)) :
                /\ x.rule \in RuleIds /\ Rules[x.rule].enabled
                /\ x.act \in ToSet(Chosen(Rules[x.rule], r))
<1> DEFINE branch(i) == IF Rules[i].enabled THEN Chosen(Rules[i], r) ELSE <<>>
           tagged(i) == [k \in DOMAIN branch(i) |-> [rule |-> i, act |-> branch(i)[k]]]
           all == [i \in RuleIds |-> tagged(i)]
<1>1. ASSUME NEW i \in RuleIds
      PROVE  /\ branch(i) \in Seq(ActionRecords)
             /\ tagged(i) \in Seq(Calls)
             /\ \A x \in ToSet(tagged(i)) : x.rule = i /\ x.act \in ToSet(branch(i))
  <2>1. branch(i) \in Seq(ActionRecords)
    BY RuleTyped DEF Chosen
  <2> HIDE DEF branch
  <2>2. \A k \in DOMAIN branch(i) : branch(i)[k] \in ActionRecords
    BY <2>1
  <2>3. tagged(i) \in Seq(Calls)
    <3>1. Len(branch(i)) \in Nat /\ DOMAIN branch(i) = 1 .. Len(branch(i))
      BY <2>1, LenProperties
    <3>2. tagged(i) \in [1 .. Len(branch(i)) -> Calls]
      BY <2>2, <3>1 DEF Calls
    <3> HIDE DEF tagged
    <3> QED BY <3>1, <3>2, SeqOfFunction
  <2>4. \A x \in ToSet(tagged(i)) : x.rule = i /\ x.act \in ToSet(branch(i))
    BY DEF ToSet
  <2> QED BY <2>1, <2>3, <2>4
<1>2. RuleIds = 1 .. Len(Rules) /\ Len(Rules) \in Nat
  BY RuleEngineAssumption, LenProperties DEF RuleIds
<1>3. all \in Seq(Seq(Calls)) /\ DOMAIN all = RuleIds
  <2> HIDE DEF tagged
  <2>1. all \in [RuleIds -> Seq(Calls)]
    BY <1>1
  <2> HIDE DEF all
  <2> QED BY <2>1, <1>2, SeqOfFunction
<1>4. Called(r) = FlattenSeq(all)
  BY DEF Called
<1> HIDE DEF all
<1>5. /\ Called(r) \in Seq(Calls)
      /\ ToSet(Called(r)) = UNION {ToSet(all[k]) : k \in RuleIds}
  BY <1>3, <1>4, FlattenElements
<1>6. ASSUME NEW x \in ToSet(Called(r))
      PROVE  /\ x.rule \in RuleIds /\ Rules[x.rule].enabled
             /\ x.act \in ToSet(Chosen(Rules[x.rule], r))
  <2>1. PICK i \in RuleIds : x \in ToSet(all[i])
    BY <1>5
  <2>2. x \in ToSet(tagged(i))
    BY <2>1 DEF all
  <2>3. x.rule = i /\ x.act \in ToSet(branch(i))
    BY <1>1, <2>2
  <2>4. Rules[i].enabled /\ branch(i) = Chosen(Rules[i], r)
    <3>1. CASE ~Rules[i].enabled
      BY <2>3, <3>1 DEF ToSet
    <3>2. CASE Rules[i].enabled
      BY <3>2
    <3> QED BY <3>1, <3>2
  <2> QED BY <2>3, <2>4
<1> QED BY <1>5, <1>6

\* None of the calls before the first that raises raises.
LEMMA UpToRaisingElements ==
    ASSUME NEW calls \in Seq(Calls)
    PROVE  /\ Len(UpToRaising(calls)) \in 0 .. Len(calls)
           /\ \A k \in 1 .. Len(UpToRaising(calls)) : ~Raises(calls[k])
<1> DEFINE I == {i \in 1 .. Len(calls) : Raises(calls[i])}
           bad == SelectInSeq(calls, Raises)
<1>1. Len(calls) \in Nat /\ DOMAIN calls = 1 .. Len(calls)
  BY LenProperties
<1>2. bad = IF I # {} THEN Min(I) ELSE 0
  BY DEF SelectInSeq
<1>3. UpToRaising(calls) = IF bad = 0 THEN calls ELSE SubSeq(calls, 1, bad - 1)
  BY DEF UpToRaising
<1> HIDE DEF bad
<1>4. CASE I = {}
  <2>1. UpToRaising(calls) = calls
    BY <1>2, <1>3, <1>4
  <2> QED BY <1>1, <1>4, <2>1
<1>5. CASE I # {}
  <2>1. bad \in I /\ \A m \in I : bad <= m
    <3>1. I \subseteq Nat
      OBVIOUS
    <3> HIDE DEF I
    <3> QED BY <1>2, <1>5, <3>1, MinInSet
  <2>2. bad \in 1 .. Len(calls)
    BY <2>1
  <2>3. Len(SubSeq(calls, 1, bad - 1)) = bad - 1
    <3>1. \A i \in 1 .. bad - 1 : calls[i] \in Calls
      BY <2>2, <1>1, ElementOfSeq
    <3> QED BY <2>2, <3>1, SubSeqProperties
  <2>4. Len(UpToRaising(calls)) = bad - 1
    BY <1>3, <2>2, <2>3
  <2>5. \A k \in 1 .. bad - 1 : ~Raises(calls[k])
    <3>1. \A k \in 1 .. bad - 1 : k \in 1 .. Len(calls) /\ ~(bad <= k)
      BY <2>2, <1>1
    <3> QED BY <2>1, <3>1
  <2> QED BY <1>1, <2>2, <2>4, <2>5
<1> QED BY <1>4, <1>5

Harmless == {x \in Calls : ~Raises(x)}

\* The first calls of a cycle, none of which raises, as a sequence of their own.
LEMMA FirstCalls ==
    ASSUME NEW calls \in Seq(Calls), NEW n \in 0 .. Len(calls),
           \A k \in 1 .. n : ~Raises(calls[k])
    PROVE  /\ SubSeq(calls, 1, n) \in Seq(Harmless)
           /\ ToSet(SubSeq(calls, 1, n)) = {calls[k] : k \in 1 .. n}
<1> DEFINE acts == SubSeq(calls, 1, n)
<1>1. Len(calls) \in Nat /\ DOMAIN calls = 1 .. Len(calls)
  BY LenProperties
<1>2. \A k \in 1 .. n : calls[k] \in Calls
  BY <1>1, ElementOfSeq
<1>3. /\ acts \in Seq(Calls) /\ Len(acts) = n
      /\ \A i \in 1 .. n : acts[i] = calls[i]
  BY <1>1, <1>2, SubSeqProperties
<1> HIDE DEF acts
<1>4. DOMAIN acts = 1 .. n
  BY <1>3, LenProperties
<1>5. ToSet(acts) = {calls[k] : k \in 1 .. n}
  BY <1>3, <1>4 DEF ToSet
<1>6. ToSet(acts) \subseteq Harmless
  BY <1>2, <1>5 DEF Harmless
<1>7. acts \in Seq(Harmless)
  BY <1>3, <1>6, SeqOfElements
<1> QED BY <1>5, <1>7 DEF acts

\* A due revert is one call, of no rule.
RevertCall(p) ==
    [rule |-> Engine, act |-> [action |-> "set", point |-> p.point, value |-> p.value]]

LEMMA RevertCallsElements ==
    ASSUME NEW due \in Seq(Due)
    PROVE  /\ RevertCalls(due) \in Seq(Calls)
           /\ ToSet(RevertCalls(due)) = {RevertCall(p) : p \in ToSet(due)}
<1>1. Len(due) \in Nat /\ DOMAIN due = 1 .. Len(due) /\ \A k \in 1 .. Len(due) : due[k] \in Due
  BY LenProperties, ElementOfSeq
<1>2. ASSUME NEW p \in Due
      PROVE  RevertCall(p) \in Calls
  BY DEF Due, RevertCall, Calls, ActionRecords, Points
<1>3. RevertCalls(due) = [k \in 1 .. Len(due) |-> RevertCall(due[k])]
  BY <1>1 DEF RevertCalls, RevertCall
<1>4. RevertCalls(due) \in [1 .. Len(due) -> Calls]
  BY <1>1, <1>2, <1>3
<1>5. ToSet(RevertCalls(due)) = {RevertCall(due[k]) : k \in 1 .. Len(due)}
  BY <1>3 DEF ToSet
<1>6. ToSet(due) = {due[k] : k \in 1 .. Len(due)}
  BY <1>1 DEF ToSet
<1> QED BY <1>1, <1>4, <1>5, <1>6, SeqOfFunction

\* Actions that do not raise leave a write each, unless they only log, ...

LEMMA WritesOfElements ==
    ASSUME NEW acts \in Seq(Harmless)
    PROVE  /\ WritesOf(acts) \in Seq(CoilSettings)
           /\ \A w : w \in ToSet(WritesOf(acts)) <=>
                \E a \in ToSet(acts) : /\ a.act.action # "log_event"
                                       /\ w = [point |-> a.act.point, value |-> a.act.value]
<1> DEFINE n == Len(acts)
           one(a) == IF a.action = "log_event" THEN <<>>
                     ELSE <<[point |-> a.point, value |-> a.value]>>
           ss == [k \in 1 .. n |-> one(acts[k].act)]
<1>1. n \in Nat /\ DOMAIN acts = 1 .. n /\ \A k \in 1 .. n : acts[k] \in Harmless
  BY LenProperties, ElementOfSeq
<1>2. ASSUME NEW x \in Harmless
      PROVE  one(x.act) \in Seq(CoilSettings)
  <2>1. CASE x.act.action = "log_event"
    BY <2>1
  <2>2. CASE x.act.action # "log_event"
    <3>1. x.act \in ActionRecords /\ x.act.point \in Outputs
      BY <2>2 DEF Harmless, Calls, Raises
    <3>2. x.act.value \in BOOLEAN
      BY <2>2, <3>1 DEF ActionRecords
    <3> QED BY <2>2, <3>1, <3>2 DEF CoilSettings
  <2> QED BY <2>1, <2>2
<1>3. \A a, w : w \in ToSet(one(a)) <=>
        a.action # "log_event" /\ w = [point |-> a.point, value |-> a.value]
  BY DEF ToSet
<1>4. WritesOf(acts) = FlattenSeq(ss)
  BY <1>1 DEF WritesOf
<1> HIDE DEF one
<1>5. ss \in [1 .. n -> Seq(CoilSettings)]
  BY <1>1, <1>2
<1>6. /\ FlattenSeq(ss) \in Seq(CoilSettings)
      /\ ToSet(FlattenSeq(ss)) = UNION {ToSet(ss[k]) : k \in 1 .. n}
  <2> HIDE DEF ss, n
  <2> QED BY <1>1, <1>5, FlattenFunction
<1>7. \A w : w \in ToSet(WritesOf(acts)) <=> \E k \in 1 .. n : w \in ToSet(one(acts[k].act))
  BY <1>4, <1>6
<1>8. \A w : w \in ToSet(WritesOf(acts)) <=> \E a \in ToSet(acts) : w \in ToSet(one(a.act))
  <2>1. ToSet(acts) = {acts[k] : k \in 1 .. n}
    BY <1>1 DEF ToSet
  <2> HIDE DEF n
  <2> QED BY <1>7, <2>1
<1>9. WritesOf(acts) \in Seq(CoilSettings)
  BY <1>4, <1>6
<1> HIDE DEF ss, n
<1> QED BY <1>3, <1>8, <1>9

\* ... and a revert each, if they are pulses.
LEMMA PulsesOfElements ==
    ASSUME NEW acts \in Seq(Harmless)
    PROVE  /\ PulsesOf(acts) \in Seq(Reverts)
           /\ \A p : p \in ToSet(PulsesOf(acts)) <=>
                \E a \in ToSet(acts) :
                   /\ a.act.action = "pulse"
                   /\ p = [point |-> a.act.point, left |-> a.act.ms, value |-> ~a.act.value]
<1> DEFINE n == Len(acts)
           one(a) == IF a.action # "pulse" THEN <<>>
                     ELSE <<[point |-> a.point, left |-> a.ms, value |-> ~a.value]>>
           ss == [k \in 1 .. n |-> one(acts[k].act)]
<1>1. n \in Nat /\ DOMAIN acts = 1 .. n /\ \A k \in 1 .. n : acts[k] \in Harmless
  BY LenProperties, ElementOfSeq
<1>2. ASSUME NEW x \in Harmless
      PROVE  one(x.act) \in Seq(Reverts)
  <2>1. CASE x.act.action # "pulse"
    BY <2>1
  <2>2. CASE x.act.action = "pulse"
    <3>1. x.act \in ActionRecords /\ x.act.point \in Outputs
      BY <2>2 DEF Harmless, Calls, Raises
    <3>2. x.act.value \in BOOLEAN /\ x.act.ms \in Nat \ {0}
      BY <2>2, <3>1 DEF ActionRecords
    <3>3. (~x.act.value) \in BOOLEAN
      BY Zenon
    <3> QED BY <2>2, <3>1, <3>2, <3>3 DEF Reverts
  <2> QED BY <2>1, <2>2
<1>3. \A a, p : p \in ToSet(one(a)) <=>
        a.action = "pulse" /\ p = [point |-> a.point, left |-> a.ms, value |-> ~a.value]
  BY DEF ToSet
<1>4. PulsesOf(acts) = FlattenSeq(ss)
  BY <1>1 DEF PulsesOf
<1> HIDE DEF one
<1>5. ss \in [1 .. n -> Seq(Reverts)]
  BY <1>1, <1>2
<1>6. /\ FlattenSeq(ss) \in Seq(Reverts)
      /\ ToSet(FlattenSeq(ss)) = UNION {ToSet(ss[k]) : k \in 1 .. n}
  <2> HIDE DEF ss, n
  <2> QED BY <1>1, <1>5, FlattenFunction
<1>7. \A p : p \in ToSet(PulsesOf(acts)) <=> \E k \in 1 .. n : p \in ToSet(one(acts[k].act))
  BY <1>4, <1>6
<1>8. \A p : p \in ToSet(PulsesOf(acts)) <=> \E a \in ToSet(acts) : p \in ToSet(one(a.act))
  <2>1. ToSet(acts) = {acts[k] : k \in 1 .. n}
    BY <1>1 DEF ToSet
  <2> HIDE DEF n
  <2> QED BY <1>7, <2>1
<1>9. PulsesOf(acts) \in Seq(Reverts)
  BY <1>4, <1>6
<1> HIDE DEF ss, n
<1> QED BY <1>3, <1>8, <1>9

\* A revert keeps its output and its value while it ages.
LEMMA AgeTyped ==
    ASSUME NEW q \in Reverts, NEW t \in Nat
    PROVE  /\ Age(q, t) \in AgedReverts
           /\ Age(q, t).point = q.point /\ Age(q, t).value = q.value
  BY DEF Reverts, AgedReverts, Age

\* The reverts that are due, or that stay listed, are the listed ones with their age.
LEMMA AgedElements ==
    ASSUME pulses \in Seq(Reverts), NEW t \in Nat, NEW lefts \in SUBSET Nat
    PROVE  /\ Aged(t, lefts) \in Seq([point : Outputs, left : lefts, value : BOOLEAN])
           /\ \A p : p \in ToSet(Aged(t, lefts)) <=>
                \E q \in ToSet(pulses) : Age(q, t).left \in lefts /\ p = Age(q, t)
<1> DEFINE n == Len(pulses)
           S == [point : Outputs, left : lefts, value : BOOLEAN]
           one(q) == IF Age(q, t).left \in lefts THEN <<Age(q, t)>> ELSE <<>>
           ss == [k \in 1 .. n |-> one(pulses[k])]
<1>1. n \in Nat /\ DOMAIN pulses = 1 .. n /\ \A k \in 1 .. n : pulses[k] \in Reverts
  BY LenProperties, ElementOfSeq
<1>2. ASSUME NEW q \in Reverts
      PROVE  one(q) \in Seq(S)
  <2>1. CASE Age(q, t).left \in lefts
    <3>1. Age(q, t) \in S
      BY <2>1, AgeTyped DEF AgedReverts
    <3> HIDE DEF S
    <3> QED BY <3>1, <2>1
  <2>2. CASE Age(q, t).left \notin lefts
    BY <2>2
  <2> QED BY <2>1, <2>2
<1>3. \A q, p : p \in ToSet(one(q)) <=> Age(q, t).left \in lefts /\ p = Age(q, t)
  BY DEF ToSet
<1>4. Aged(t, lefts) = FlattenSeq(ss)
  BY <1>1 DEF Aged
<1> HIDE DEF one, S
<1>5. ss \in [1 .. n -> Seq(S)]
  BY <1>1, <1>2
<1>6. /\ FlattenSeq(ss) \in Seq(S)
      /\ ToSet(FlattenSeq(ss)) = UNION {ToSet(ss[k]) : k \in 1 .. n}
  <2> HIDE DEF ss, n
  <2> QED BY <1>1, <1>5, FlattenFunction
<1>7. \A p : p \in ToSet(Aged(t, lefts)) <=> \E k \in 1 .. n : p \in ToSet(one(pulses[k]))
  BY <1>4, <1>6
<1>8. \A p : p \in ToSet(Aged(t, lefts)) <=> \E q \in ToSet(pulses) : p \in ToSet(one(q))
  <2>1. ToSet(pulses) = {pulses[k] : k \in 1 .. n}
    BY <1>1 DEF ToSet
  <2> HIDE DEF n
  <2> QED BY <1>7, <2>1
<1>9. Aged(t, lefts) \in Seq([point : Outputs, left : lefts, value : BOOLEAN])
  BY <1>4, <1>6 DEF S
<1> HIDE DEF ss, n
<1> QED BY <1>3, <1>8, <1>9

\* SelectLastInSeq finds a write to o, if there is one.
LEMMA LastWrite ==
    ASSUME NEW S, NEW writes \in Seq(S), NEW o, NEW k,
           k = SelectLastInSeq(writes, LAMBDA w : w.point = o)
    PROVE  /\ o \notin Targets(writes) => k = 0
           /\ o \in Targets(writes) => k # 0 /\ writes[k] \in ToSet(writes) /\ writes[k].point = o
<1> DEFINE I == {i \in 1 .. Len(writes) : writes[i].point = o}
<1>1. Len(writes) \in Nat /\ DOMAIN writes = 1 .. Len(writes)
  BY LenProperties
<1>2. k = IF I # {} THEN Max(I) ELSE 0
  BY DEF SelectLastInSeq
<1>3. o \in Targets(writes) <=> I # {}
  BY <1>1 DEF Targets
<1>4. ASSUME I # {}
      PROVE  k \in I
  <2>1. I \subseteq 0 .. Len(writes)
    BY <1>1
  <2> HIDE DEF I
  <2> QED BY <1>1, <1>2, <1>4, <2>1, MaxInSet
<1>5. \A i \in I : i # 0 /\ writes[i] \in ToSet(writes) /\ writes[i].point = o
  BY <1>1 DEF ToSet
<1> HIDE DEF I
<1> QED BY <1>2, <1>3, <1>4, <1>5

-----------------------------------------------------------------------------
\* What a cycle does, without the sequences.  The calls made (acts) take back what is due
\* or are called for by rules that match; of the pulses among them those whose event was
\* filed too (filed) are listed; gone are the points whose reverts went with a cut cycle.
\* An output that was written to and answers shows what one of the calls wrote.
DueCall(a, t) == \E q \in ToSet(pulses) : Age(q, t).left = 0 /\ a = RevertCall(q)
RuleCall(a, r) ==
    a.rule \in RuleIds /\ Rules[a.rule].enabled /\ a.act \in ToSet(Chosen(Rules[a.rule], r))

WrittenBy(acts, o) == \E a \in acts : a.act.action # "log_event" /\ a.act.point = o

PulseRevert(a) == [point |-> a.act.point, left |-> a.act.ms, value |-> ~a.act.value]

CycleFacts(r, t, down, acts, filed, gone) ==
    /\ acts \subseteq Harmless /\ filed \subseteq acts /\ gone \subseteq Outputs
    /\ \A a \in acts : DueCall(a, t) \/ RuleCall(a, r)
    /\ \A a \in acts : a.act.action = "pulse" => a \in filed \/ a.act.point \in gone
    /\ \A q \in ToSet(pulses) : Age(q, t).left = 0 => RevertCall(q) \in acts \/ q.point \in gone
    /\ acted' = {a.rule : a \in acts} \ {Engine}
    /\ whole' \in BOOLEAN
    /\ lost' = Stranded(lost \cup gone)
    /\ pulses' \in Seq(Reverts)
    /\ \A p : p \in ToSet(pulses') <=>
         \/ \E q \in ToSet(pulses) : Age(q, t).left # 0 /\ p = Age(q, t)
         \/ \E a \in filed : a.act.action = "pulse" /\ p = PulseRevert(a)
    /\ faulted' \subseteq Outputs
    /\ coil' = [o \in Outputs |-> coil'[o]]
    /\ \A o \in Outputs :
         IF WrittenBy(acts, o)
           THEN IF Down(o, down) THEN o \in faulted' /\ coil'[o] = coil[o]
                ELSE \E a \in acts : /\ a.act.action # "log_event" /\ a.act.point = o
                                     /\ coil'[o] = a.act.value
           ELSE (o \in faulted' <=> o \in faulted) /\ coil'[o] = coil[o]

\* Where a cycle ends.
LEMMA EndsTyped ==
    ASSUME NEW calls \in Seq(Calls), NEW end \in Ends(calls)
    PROVE  /\ end.done \in 0 .. Len(calls) /\ end.filed \in 0 .. end.done
           /\ end.done \in {end.filed, end.filed + 1}
           /\ \A k \in 1 .. end.done : ~Raises(calls[k])
<1> DEFINE n == Len(UpToRaising(calls))
<1>1. n \in 0 .. Len(calls) /\ \A k \in 1 .. n : ~Raises(calls[k])
  BY UpToRaisingElements
<1>2. Len(calls) \in Nat
  BY LenProperties
<1>3. \/ end = [done |-> n, filed |-> n]
      \/ \E k \in 1 .. n : end = [done |-> k, filed |-> k - 1]
  BY DEF Ends
<1> HIDE DEF n
<1> QED BY <1>1, <1>2, <1>3

\* The calls of a cycle.
LEMMA CallsElements ==
    ASSUME pulses \in Seq(Reverts), NEW r, NEW t \in Nat
    PROVE  /\ RevertCalls(DueReverts(t)) \o Called(r) \in Seq(Calls)
           /\ \A a \in ToSet(RevertCalls(DueReverts(t)) \o Called(r)) :
                DueCall(a, t) \/ RuleCall(a, r)
           /\ \A q \in ToSet(pulses) : Age(q, t).left = 0 =>
                RevertCall(q) \in ToSet(RevertCalls(DueReverts(t)) \o Called(r))
<1> DEFINE due == DueReverts(t)
           first == RevertCalls(due)
           then == Called(r)
<1>1. /\ due \in Seq(Due)
      /\ \A p : p \in ToSet(due) <=> \E q \in ToSet(pulses) : Age(q, t).left = 0 /\ p = Age(q, t)
  <2>1. {0} \in SUBSET Nat
    OBVIOUS
  <2>2. /\ Aged(t, {0}) \in Seq([point : Outputs, left : {0}, value : BOOLEAN])
        /\ \A p : p \in ToSet(Aged(t, {0})) <=>
             \E q \in ToSet(pulses) : Age(q, t).left \in {0} /\ p = Age(q, t)
    BY <2>1, AgedElements
  <2> QED BY <2>2 DEF DueReverts, Due
<1> HIDE DEF due
<1>2. first \in Seq(Calls) /\ ToSet(first) = {RevertCall(p) : p \in ToSet(due)}
  BY <1>1, RevertCallsElements
<1>3. /\ then \in Seq(Calls)
      /\ \A x \in ToSet(then) : RuleCall(x, r)
  BY CalledElements DEF RuleCall
<1>4. \A q \in ToSet(pulses) : RevertCall(Age(q, t)) = RevertCall(q)
  <2>1. \A q \in ToSet(pulses) : q \in Reverts
    BY ElementIn
  <2>2. \A q \in ToSet(pulses) : Age(q, t).point = q.point /\ Age(q, t).value = q.value
    BY <2>1, AgeTyped
  <2> QED BY <2>2 DEF RevertCall
<1> HIDE DEF first, then
<1>5. first \o then \in Seq(Calls) /\ ToSet(first \o then) = ToSet(first) \cup ToSet(then)
  BY <1>2, <1>3, ConcatElements
<1>6. \A a \in ToSet(first) : DueCall(a, t)
  BY <1>1, <1>2, <1>4 DEF DueCall
<1>7. \A q \in ToSet(pulses) : Age(q, t).left = 0 => RevertCall(q) \in ToSet(first)
  <2>1. ASSUME NEW q \in ToSet(pulses), Age(q, t).left = 0
        PROVE  RevertCall(q) \in ToSet(first)
    <3>1. Age(q, t) \in ToSet(due)
      BY <1>1, <2>1
    <3>2. RevertCall(Age(q, t)) \in ToSet(first)
      BY <1>2, <3>1
    <3> QED BY <1>4, <3>2
  <2> QED BY <2>1
<1>8. /\ first \o then \in Seq(Calls)
      /\ \A a \in ToSet(first \o then) : DueCall(a, t) \/ RuleCall(a, r)
      /\ \A q \in ToSet(pulses) : Age(q, t).left = 0 => RevertCall(q) \in ToSet(first \o then)
  BY <1>3, <1>5, <1>6, <1>7
<1> QED BY <1>8 DEF first, then, due

\* Where the outputs of a sequence of writes end up.
LEMMA Driven ==
    ASSUME NEW acts \in Seq(Harmless), NEW down, NEW o \in Outputs,
           coil' = Drive(coil, WritesOf(acts), down),
           faulted' = Blame(WritesOf(acts), down)
    PROVE  IF WrittenBy(ToSet(acts), o)
             THEN IF Down(o, down) THEN o \in faulted' /\ coil'[o] = coil[o]
                  ELSE \E a \in ToSet(acts) : /\ a.act.action # "log_event" /\ a.act.point = o
                                              /\ coil'[o] = a.act.value
             ELSE (o \in faulted' <=> o \in faulted) /\ coil'[o] = coil[o]
<1> DEFINE writes == WritesOf(acts)
           k == SelectLastInSeq(writes, LAMBDA w : w.point = o)
<1>1. /\ writes \in Seq(CoilSettings)
      /\ \A w : w \in ToSet(writes) <=>
           \E a \in ToSet(acts) : /\ a.act.action # "log_event"
                                  /\ w = [point |-> a.act.point, value |-> a.act.value]
  BY WritesOfElements
<1>2. coil'[o] = IF k = 0 \/ Down(o, down) THEN coil[o] ELSE writes[k].value
  BY DEF Drive
<1>3. o \in faulted' <=> IF o \in Targets(writes) THEN Down(o, down) ELSE o \in faulted
  BY DEF Blame
<1> HIDE DEF writes
<1>4. /\ o \notin Targets(writes) => k = 0
      /\ o \in Targets(writes) => k # 0 /\ writes[k] \in ToSet(writes) /\ writes[k].point = o
  BY <1>1, LastWrite
<1> HIDE DEF k
<1>5. o \in Targets(writes) <=> \E w \in ToSet(writes) : w.point = o
  BY DEF Targets, ToSet
<1>6. o \in Targets(writes) <=> WrittenBy(ToSet(acts), o)
  <2>1. ASSUME NEW w \in ToSet(writes), w.point = o
        PROVE  WrittenBy(ToSet(acts), o)
    BY <1>1, <2>1 DEF WrittenBy
  <2>2. ASSUME NEW a \in ToSet(acts), a.act.action # "log_event", a.act.point = o
        PROVE  \E w \in ToSet(writes) : w.point = o
    <3>1. [point |-> a.act.point, value |-> a.act.value] \in ToSet(writes)
      BY <1>1, <2>2
    <3> QED BY <2>2, <3>1
  <2> QED BY <1>5, <2>1, <2>2 DEF WrittenBy
<1>7. k # 0 /\ writes[k] \in ToSet(writes) /\ writes[k].point = o =>
        \E a \in ToSet(acts) : /\ a.act.action # "log_event" /\ a.act.point = o
                               /\ writes[k].value = a.act.value
  BY <1>1
<1> QED BY <1>2, <1>3, <1>4, <1>6, <1>7

LEMMA CycleElements ==
    ASSUME pulses \in Seq(Reverts), NEW r, NEW t \in Nat, NEW down, EvaluateCycle(r, t, down)
    PROVE  \E acts, filed, gone : CycleFacts(r, t, down, acts, filed, gone)
<1> DEFINE calls == RevertCalls(DueReverts(t)) \o Called(r)
<1>1. /\ calls \in Seq(Calls)
      /\ \A a \in ToSet(calls) : DueCall(a, t) \/ RuleCall(a, r)
      /\ \A q \in ToSet(pulses) : Age(q, t).left = 0 => RevertCall(q) \in ToSet(calls)
  BY CallsElements
<1>2. PICK end \in Ends(calls) :
        /\ coil' = Drive(coil, WritesOf(SubSeq(calls, 1, end.done)), down)
        /\ faulted' = Blame(WritesOf(SubSeq(calls, 1, end.done)), down)
        /\ acted' = {SubSeq(calls, 1, end.done)[k].rule :
                       k \in DOMAIN SubSeq(calls, 1, end.done)} \ {Engine}
        /\ pulses' = StillPending(t) \o PulsesOf(SubSeq(calls, 1, end.filed))
        /\ whole' = (end.filed = Len(calls))
        /\ lost' = Stranded(lost \cup LostBy(calls, end))
  BY DEF EvaluateCycle
<1> HIDE DEF calls
<1> DEFINE done == SubSeq(calls, 1, end.done)
           seen == SubSeq(calls, 1, end.filed)
           acts == ToSet(done)
           filed == ToSet(seen)
           gone == LostBy(calls, end)
<1>3. Len(calls) \in Nat /\ DOMAIN calls = 1 .. Len(calls)
  BY <1>1, LenProperties
<1>4. /\ end.done \in 0 .. Len(calls) /\ end.filed \in 0 .. end.done
      /\ end.done \in {end.filed, end.filed + 1}
      /\ \A k \in 1 .. end.done : ~Raises(calls[k])
  BY <1>1, EndsTyped
<1>5. done \in Seq(Harmless) /\ acts = {calls[k] : k \in 1 .. end.done}
  BY <1>1, <1>4, FirstCalls
<1>6. seen \in Seq(Harmless) /\ filed = {calls[k] : k \in 1 .. end.filed}
  <2>1. end.filed \in 0 .. Len(calls) /\ \A k \in 1 .. end.filed : ~Raises(calls[k])
    BY <1>3, <1>4
  <2> QED BY <1>1, <2>1, FirstCalls
<1>7. /\ coil' = Drive(coil, WritesOf(done), down) /\ faulted' = Blame(WritesOf(done), down)
      /\ acted' = {done[k].rule : k \in DOMAIN done} \ {Engine}
      /\ pulses' = StillPending(t) \o PulsesOf(seen)
      /\ lost' = Stranded(lost \cup gone)
  BY <1>2
<1> HIDE DEF done, seen
<1>8. ToSet(calls) = {calls[k] : k \in 1 .. Len(calls)}
  BY <1>3 DEF ToSet
<1>9. acts \subseteq Harmless /\ filed \subseteq acts /\ acts \subseteq ToSet(calls)
  <2>1. acts \subseteq Harmless
    BY <1>5, ElementIn
  <2>2. 1 .. end.filed \subseteq 1 .. end.done /\ 1 .. end.done \subseteq 1 .. Len(calls)
    BY <1>3, <1>4
  <2> QED BY <1>5, <1>6, <1>8, <2>1, <2>2
<1>10. \A a \in acts : a.act.action = "pulse" => a \in filed \/ a.act.point \in gone
  <2>1. ASSUME NEW k \in 1 .. end.done, calls[k].act.action = "pulse"
        PROVE  calls[k] \in filed \/ calls[k].act.point \in gone
    <3>1. CASE k <= end.filed
      <4>1. k \in 1 .. end.filed
        BY <3>1, <1>4
      <4> QED BY <4>1, <1>6
    <3>2. CASE ~(k <= end.filed)
      <4>1. k \in DOMAIN calls /\ k <= end.done /\ k > end.filed
        BY <3>2, <1>3, <1>4
      <4> QED BY <4>1, <2>1 DEF LostBy
    <3> QED BY <3>1, <3>2
  <2> HIDE DEF gone, filed
  <2> QED BY <1>5, <2>1
<1>11. \A q \in ToSet(pulses) : Age(q, t).left = 0 => RevertCall(q) \in acts \/ q.point \in gone
  <2>1. ASSUME NEW q \in ToSet(pulses), Age(q, t).left = 0
        PROVE  RevertCall(q) \in acts \/ q.point \in gone
    <3>1. PICK k \in 1 .. Len(calls) : RevertCall(q) = calls[k]
      BY <1>1, <1>8, <2>1
    <3>2. CASE k <= end.done
      <4>1. k \in 1 .. end.done
        BY <3>2, <1>4
      <4> QED BY <4>1, <3>1, <1>5
    <3>3. CASE ~(k <= end.done)
      <4>1. calls[k].rule = Engine /\ calls[k].act.point = q.point
        BY <3>1 DEF RevertCall
      <4> QED BY <4>1, <3>3, <1>3 DEF LostBy
    <3> QED BY <3>2, <3>3
  <2> HIDE DEF gone, acts
  <2> QED BY <2>1
<1>12. gone \subseteq Outputs
  <2>1. ASSUME NEW k \in DOMAIN calls,
               IF k <= end.done THEN k > end.filed /\ calls[k].act.action = "pulse"
                                ELSE calls[k].rule = Engine
        PROVE  calls[k].act.point \in Outputs
    <3>1. CASE k <= end.done
      <4>1. k \in 1 .. end.done
        BY <3>1, <1>3, <1>4
      <4> QED BY <4>1, <3>1, <2>1, <1>4 DEF Raises
    <3>2. CASE ~(k <= end.done)
      <4>1. calls[k] \in ToSet(calls) /\ calls[k].rule = Engine
        BY <3>2, <2>1, <1>3, <1>8
      <4>2. ~RuleCall(calls[k], r)
        BY <4>1 DEF RuleCall, Engine, RuleIds
      <4>3. PICK q \in ToSet(pulses) : calls[k] = RevertCall(q)
        BY <1>1, <4>1, <4>2 DEF DueCall
      <4>4. q \in Reverts
        BY ElementIn
      <4> QED BY <4>3, <4>4 DEF RevertCall, Reverts
    <3> QED BY <3>1, <3>2
  <2> QED BY <2>1 DEF LostBy
<1>13. /\ pulses' \in Seq(Reverts)
       /\ \A p : p \in ToSet(pulses') <=>
            \/ \E q \in ToSet(pulses) : Age(q, t).left # 0 /\ p = Age(q, t)
            \/ \E a \in filed : a.act.action = "pulse" /\ p = PulseRevert(a)
  <2>1. /\ StillPending(t) \in Seq(Reverts)
        /\ \A p : p \in ToSet(StillPending(t)) <=>
             \E q \in ToSet(pulses) : Age(q, t).left \in Nat \ {0} /\ p = Age(q, t)
    BY AgedElements DEF StillPending, Reverts
  <2>2. \A q \in ToSet(pulses) : Age(q, t).left \in Nat
    <3>1. \A q \in ToSet(pulses) : q \in Reverts
      BY ElementIn
    <3> QED BY <3>1, AgeTyped DEF AgedReverts
  <2>3. /\ PulsesOf(seen) \in Seq(Reverts)
        /\ \A p : p \in ToSet(PulsesOf(seen)) <=>
             \E a \in filed : a.act.action = "pulse" /\ p = PulseRevert(a)
    BY <1>6, PulsesOfElements DEF PulseRevert
  <2> HIDE DEF filed
  <2>4. /\ pulses' \in Seq(Reverts)
        /\ ToSet(pulses') = ToSet(StillPending(t)) \cup ToSet(PulsesOf(seen))
    BY <1>7, <2>1, <2>3, ConcatElements
  <2> QED BY <2>1, <2>2, <2>3, <2>4
<1>14. acted' = {a.rule : a \in acts} \ {Engine}
  BY <1>7 DEF ToSet
<1>15. whole' \in BOOLEAN
  BY <1>2
<1>16. faulted' \subseteq Outputs /\ coil' = [o \in Outputs |-> coil'[o]]
  BY <1>7 DEF Blame, Drive
<1>17. \A o \in Outputs :
         IF WrittenBy(acts, o)
           THEN IF Down(o, down) THEN o \in faulted' /\ coil'[o] = coil[o]
                ELSE \E a \in acts : /\ a.act.action # "log_event" /\ a.act.point = o
                                     /\ coil'[o] = a.act.value
           ELSE (o \in faulted' <=> o \in faulted) /\ coil'[o] = coil[o]
  BY <1>5, <1>7, Driven
<1>18. \A a \in acts : DueCall(a, t) \/ RuleCall(a, r)
  BY <1>1, <1>9
<1> HIDE DEF acts, filed, gone
<1>19. CycleFacts(r, t, down, acts, filed, gone)
  BY <1>7, <1>9, <1>10, <1>11, <1>12, <1>13, <1>14, <1>15, <1>16, <1>17, <1>18 DEF CycleFacts
<1> QED BY <1>19

-----------------------------------------------------------------------------
(* RuleEngine: the theorems. *)

\* What is listed for an output that only pulses drive brings it to rest.
PulsesRest == \A p \in ToSet(pulses) : p.point \in PulseOutputs => p.value = SafeState[p.point]

EngineInvariant == TypeOK /\ PulsesRest /\ PulseCovered

LEMMA NothingRead == [i \in Inputs |-> None] \in Readings
<1> DEFINE r == [i \in Inputs |-> None]
           All == UNION {Domain[i] : i \in Inputs}
<1>1. r \in [Inputs -> All \cup {None}]
  <2> HIDE DEF All
  <2> QED OBVIOUS
<1>2. \A i \in Inputs : r[i] \in Domain[i] \cup {None}
  OBVIOUS
<1>3. r \in Readings
  <2> HIDE DEF r
  <2> QED BY <1>1, <1>2 DEF Readings
<1> QED BY <1>3

\* The invariant holds at the start, and after a reload.
LEMMA EngineStarts ==
    ASSUME Init
    PROVE  EngineInvariant
<1>1. [i \in Inputs |-> None] \in Readings
  BY NothingRead
<1>2. TypeOK
  <2>1. pulses \in Seq(Reverts)
    BY DEF Init
  <2> QED BY <1>1, <2>1, RuleEngineAssumption DEF Init, TypeOK, Reverts
<1>3. PulsesRest /\ PulseCovered
  BY DEF Init, PulsesRest, PulseCovered, PulseOutputs, ToSet
<1> QED BY <1>2, <1>3 DEF EngineInvariant

LEMMA EngineReloads ==
    ASSUME EngineInvariant, NEW down, Reload(down)
    PROVE  EngineInvariant'
<1>1. [i \in Inputs |-> None] \in Readings
  BY NothingRead
<1>2. TypeOK'
  <2>1. pulses' \in Seq(Reverts)
    BY DEF Reload
  <2>2. coil' \in [Outputs -> BOOLEAN]
    BY RuleEngineAssumption DEF EngineInvariant, TypeOK, Reload
  <2>3. /\ prevValues' \in Readings /\ whole' \in BOOLEAN
        /\ acted' \subseteq RuleIds /\ armed' \subseteq RisingRules /\ repeats' \subseteq RisingRules
        /\ faulted' \subseteq Outputs /\ lost' \subseteq Outputs
    BY <1>1 DEF EngineInvariant, TypeOK, Reload, Stranded
  <2> QED BY <2>1, <2>2, <2>3 DEF TypeOK, Reverts
<1>3. PulsesRest'
  BY DEF Reload, PulsesRest, ToSet
<1>4. PulseCovered'
  BY DEF Reload, PulseCovered, PulseOutputs
<1> QED BY <1>2, <1>3, <1>4 DEF EngineInvariant

\* A reload that raises leaves the list alone and drives some outputs to rest.
LEMMA EngineReloadRaises ==
    ASSUME EngineInvariant, NEW down, ReloadRaises(down)
    PROVE  EngineInvariant'
<1>1. PICK walked \in SUBSET Outputs :
        /\ coil' = [o \in Outputs |-> IF o \in walked /\ ~Down(o, down) THEN SafeState[o]
                                                                       ELSE coil[o]]
        /\ faulted' = {o \in Outputs : IF o \in walked THEN Down(o, down) ELSE o \in faulted}
  BY DEF ReloadRaises
<1>2. /\ lost' = Stranded(lost) /\ acted' = {}
      /\ UNCHANGED <<prevValues, pulses, armed, whole, repeats>>
  BY DEF ReloadRaises
<1>3. TypeOK'
  <2>1. coil' \in [Outputs -> BOOLEAN]
    BY <1>1, RuleEngineAssumption DEF EngineInvariant, TypeOK
  <2>2. faulted' \subseteq Outputs /\ lost' \subseteq Outputs
    BY <1>1, <1>2 DEF EngineInvariant, TypeOK, Stranded
  <2> QED BY <1>2, <2>1, <2>2 DEF EngineInvariant, TypeOK
<1>4. PulsesRest'
  BY <1>2 DEF EngineInvariant, PulsesRest
<1>5. PulseCovered'
  <2> SUFFICES ASSUME NEW d \in PulseOutputs, coil'[d] # SafeState[d], d \notin faulted' \cup lost'
               PROVE  \E k \in DOMAIN pulses' : pulses'[k].point = d
    BY DEF PulseCovered, PulseOutputs
  <2>1. d \in Outputs
    BY DEF PulseOutputs
  <2>2. d \notin walked /\ coil'[d] = coil[d]
    BY <1>1, <2>1
  <2>3. d \notin faulted \cup lost
    BY <1>1, <1>2, <2>1, <2>2 DEF Stranded
  <2> QED BY <1>2, <2>2, <2>3 DEF EngineInvariant, PulseCovered, PulseOutputs
<1> QED BY <1>3, <1>4, <1>5 DEF EngineInvariant

\* An action on an output that only pulses drive is a pulse away from rest.
LEMMA OnlyPulsed ==
    ASSUME NEW o \in PulseOutputs, NEW i \in RuleIds, NEW r,
           NEW a \in ToSet(Chosen(Rules[i], r)), a.action # "log_event", a.point = o
    PROVE  a.action = "pulse" /\ a.value # SafeState[o]
<1>1. a \in ActionsOf(i)
  BY DEF ActionsOf, Chosen
<1> QED BY <1>1 DEF PulseOutputs

LEMMA EngineCycles ==
    ASSUME EngineInvariant, NEW r \in Readings, NEW t \in Elapsed, NEW down,
           EvaluateCycle(r, t, down)
    PROVE  EngineInvariant'
<1>1. pulses \in Seq(Reverts) /\ t \in Nat
  BY RuleEngineAssumption DEF EngineInvariant, TypeOK, Reverts
<1>2. PICK acts, filed, gone : CycleFacts(r, t, down, acts, filed, gone)
  BY <1>1, CycleElements
<1>3. /\ filed \subseteq acts /\ gone \subseteq Outputs
      /\ \A a \in acts : DueCall(a, t) \/ RuleCall(a, r)
      /\ \A a \in acts : a.act.action = "pulse" => a \in filed \/ a.act.point \in gone
      /\ \A q \in ToSet(pulses) : Age(q, t).left = 0 => RevertCall(q) \in acts \/ q.point \in gone
  BY <1>2 DEF CycleFacts
<1>4. \A a \in acts : /\ a.rule \in RuleIds \cup {Engine} /\ a.act \in ActionRecords
                      /\ a.act.action # "log_event" => a.act.point \in Outputs
  BY <1>2 DEF CycleFacts, Harmless, Calls, Raises
<1>5. \A q \in ToSet(pulses) : q \in Reverts
  BY <1>1, ElementIn
<1>6. /\ acted' = {a.rule : a \in acts} \ {Engine}
      /\ whole' \in BOOLEAN /\ faulted' \subseteq Outputs
      /\ lost' = Stranded(lost \cup gone)
      /\ pulses' \in Seq(Reverts)
      /\ coil' = [o \in Outputs |-> coil'[o]]
  BY <1>2 DEF CycleFacts
<1>7. \A p : p \in ToSet(pulses') <=>
        \/ \E q \in ToSet(pulses) : Age(q, t).left # 0 /\ p = Age(q, t)
        \/ \E a \in filed : a.act.action = "pulse" /\ p = PulseRevert(a)
  BY <1>2 DEF CycleFacts
<1>8. \A o \in Outputs :
        IF WrittenBy(acts, o)
          THEN IF Down(o, down) THEN o \in faulted' /\ coil'[o] = coil[o]
               ELSE \E a \in acts : /\ a.act.action # "log_event" /\ a.act.point = o
                                    /\ coil'[o] = a.act.value
          ELSE (o \in faulted' <=> o \in faulted) /\ coil'[o] = coil[o]
  BY <1>2 DEF CycleFacts
<1>9. TypeOK'
  <2>1. ASSUME NEW o \in Outputs
        PROVE  coil'[o] \in BOOLEAN
    <3>1. \A a \in acts : a.act.action # "log_event" => a.act.value \in BOOLEAN
      BY <1>4 DEF ActionRecords
    <3>2. coil[o] \in BOOLEAN
      BY DEF EngineInvariant, TypeOK
    <3> QED BY <1>8, <3>1, <3>2
  <2>2. coil' \in [Outputs -> BOOLEAN]
    BY <1>6, <2>1
  <2>3. prevValues' \in Readings
    BY DEF EvaluateCycle, EngineInvariant, TypeOK
  <2>4. acted' \subseteq RuleIds
    BY <1>4, <1>6
  <2>5. armed' \subseteq RisingRules /\ repeats' \subseteq RisingRules
    BY DEF EvaluateCycle, EngineInvariant, TypeOK
  <2>6. lost' \subseteq Outputs
    BY <1>3, <1>6 DEF EngineInvariant, TypeOK, Stranded
  <2> QED BY <1>6, <2>2, <2>3, <2>4, <2>5, <2>6 DEF TypeOK, Reverts
<1>10. PulsesRest'
  <2> SUFFICES ASSUME NEW p \in ToSet(pulses'), p.point \in PulseOutputs
               PROVE  p.value = SafeState[p.point]
    BY DEF PulsesRest, PulseOutputs
  <2>1. CASE \E q \in ToSet(pulses) : p = Age(q, t)
    <3>1. PICK q \in ToSet(pulses) : p = Age(q, t)
      BY <2>1
    <3>2. p.point = q.point /\ p.value = q.value
      BY <1>1, <1>5, <3>1, AgeTyped
    <3> QED BY <3>2 DEF EngineInvariant, PulsesRest
  <2>2. ASSUME NEW a \in filed, a.act.action = "pulse", p = PulseRevert(a)
        PROVE  p.value = SafeState[p.point]
    <3>1. a \in acts /\ p.point = a.act.point /\ p.value = ~a.act.value
      BY <1>3, <2>2 DEF PulseRevert
    <3>2. ~DueCall(a, t)
      BY <2>2 DEF DueCall, RevertCall
    <3>3. a.rule \in RuleIds /\ a.act \in ToSet(Chosen(Rules[a.rule], r))
      BY <1>3, <3>1, <3>2 DEF RuleCall
    <3>4. a.act.value # SafeState[p.point] /\ p.point \in Outputs
      BY <2>2, <3>1, <3>3, OnlyPulsed DEF PulseOutputs
    <3>5. a.act.value \in BOOLEAN /\ SafeState[p.point] \in BOOLEAN
      BY <1>4, <2>2, <3>1, <3>4, RuleEngineAssumption DEF ActionRecords
    <3> QED BY <3>1, <3>4, <3>5
  <2> QED BY <1>7, <2>1, <2>2
<1>11. PulseCovered'
  <2> SUFFICES ASSUME NEW o \in PulseOutputs, coil'[o] # SafeState[o], o \notin faulted' \cup lost'
               PROVE  \E p \in ToSet(pulses') : p.point = o
    BY DEF PulseCovered, PulseOutputs, ToSet
  <2>1. o \in Outputs
    BY DEF PulseOutputs
  <2>2. o \notin lost /\ o \notin gone
    BY <1>6 DEF Stranded
  <2>3. CASE WrittenBy(acts, o)
    \* It was written to and answered: not by a due revert, which brings it to rest,
    \* but by a pulse, which is listed now.
    <3>1. PICK a \in acts : /\ a.act.action # "log_event" /\ a.act.point = o
                            /\ coil'[o] = a.act.value
      BY <1>8, <2>1, <2>3
    <3>2. ~DueCall(a, t)
      <4>1. \A q \in ToSet(pulses) : q.point = o => q.value = SafeState[o]
        BY DEF EngineInvariant, PulsesRest
      <4> QED BY <3>1, <4>1 DEF DueCall, RevertCall
    <3>3. a.rule \in RuleIds /\ a.act \in ToSet(Chosen(Rules[a.rule], r))
      BY <1>3, <3>2 DEF RuleCall
    <3>4. a.act.action = "pulse"
      BY <3>1, <3>3, OnlyPulsed
    <3>5. a \in filed
      BY <1>3, <2>2, <3>1, <3>4
    <3>6. PulseRevert(a) \in ToSet(pulses') /\ PulseRevert(a).point = o
      BY <1>7, <3>1, <3>4, <3>5 DEF PulseRevert
    <3> QED BY <3>6
  <2>4. CASE ~WrittenBy(acts, o)
    \* It shows what it showed, and the revert it waited for is not due.
    <3>1. coil'[o] = coil[o] /\ o \notin faulted
      BY <1>8, <2>1, <2>4
    <3>2. PICK q \in ToSet(pulses) : q.point = o
      BY <2>2, <3>1 DEF EngineInvariant, PulseCovered, ToSet
    <3>3. Age(q, t).left # 0
      <4>1. ASSUME RevertCall(q) \in acts
            PROVE  FALSE
        <5>1. RevertCall(q).act.action # "log_event" /\ RevertCall(q).act.point = o
          BY <3>2 DEF RevertCall
        <5> QED BY <2>4, <4>1, <5>1 DEF WrittenBy
      <4> QED BY <1>3, <2>2, <3>2, <4>1
    <3>4. Age(q, t) \in ToSet(pulses') /\ Age(q, t).point = o
      BY <1>1, <1>5, <1>7, <3>2, <3>3, AgeTyped
    <3> QED BY <3>4
  <2> QED BY <2>3, <2>4
<1> QED BY <1>9, <1>10, <1>11 DEF EngineInvariant

LEMMA EngineInductive ==
    ASSUME EngineInvariant, [Next]_vars
    PROVE  EngineInvariant'
<1>1. CASE RunCycle
  BY <1>1, EngineCycles DEF RunCycle
<1>2. CASE \E down \in SUBSET Devices : Reload(down) \/ ReloadRaises(down)
  BY <1>2, EngineReloads, EngineReloadRaises
<1>3. CASE UNCHANGED vars
  BY <1>3 DEF vars, history, EngineInvariant, TypeOK, PulsesRest, PulseCovered
<1> QED BY <1>1, <1>2, <1>3 DEF Next

\* Readings, coils and the list of reverts stay well formed through cycles that an
\* exception cuts short, and no listed revert is overdue after a cycle.
THEOREM EngineTypeCorrect == Spec => []TypeOK
<1>1. Init => EngineInvariant
  BY EngineStarts
<1>2. EngineInvariant /\ [Next]_vars => EngineInvariant'
  BY EngineInductive
<1>3. EngineInvariant => TypeOK
  BY DEF EngineInvariant
<1> QED BY <1>1, <1>2, <1>3, PTL DEF Spec

\* A pulsed output is at rest, or its revert is listed, or the latest write to it failed,
\* or its revert went with a cycle that an exception cut short: for any rules, any number
\* of overlapping pulses, cycles however late, and events that cannot be filed anywhere.
THEOREM PulsesAreTakenBack == Spec => []PulseCovered
<1>1. Init => EngineInvariant
  BY EngineStarts
<1>2. EngineInvariant /\ [Next]_vars => EngineInvariant'
  BY EngineInductive
<1>3. EngineInvariant => PulseCovered
  BY DEF EngineInvariant
<1> QED BY <1>1, <1>2, <1>3, PTL DEF Spec

-----------------------------------------------------------------------------
\* The previous value that makes an edge was seen after the rule last acted, or a cycle
\* was cut short since and has not remembered its readings (rule_engine.py:72).
Witnessed ==
    \A i \in RisingRules :
        (\A c \in Rules[i].when : prevValues[c.point] = Low) => i \in armed \cup repeats

LEMMA RisingInput ==
    ASSUME NEW i \in RisingRules
    PROVE  \E c \in Rules[i].when : c.point \in Inputs
<1>1. PICK c \in Rules[i].when : Rules[i].when = {c}
  BY RuleEngineAssumption DEF RisingRules
<1>2. c.point \in Inputs
  BY RuleTyped DEF RisingRules, RuleRecords, Conditions
<1> QED BY <1>2

LEMMA WitnessedStarts ==
    ASSUME Init
    PROVE  Witnessed
BY RisingInput, RuleEngineAssumption DEF Init, Witnessed

LEMMA WitnessedInductive ==
    ASSUME Witnessed, [Next]_vars
    PROVE  Witnessed'
<1>1. ASSUME NEW r, NEW t, NEW down, EvaluateCycle(r, t, down)
      PROVE  Witnessed'
  <2>1. /\ prevValues' = IF whole' THEN r ELSE prevValues
        /\ repeats' = IF whole' THEN {} ELSE repeats \cup (acted' \cap RisingRules)
        /\ armed' = (armed \ acted') \cup
                      {i \in RisingRules : \A c \in Rules[i].when : r[c.point] = Low}
    BY <1>1 DEF EvaluateCycle
  <2> SUFFICES ASSUME NEW i \in RisingRules, \A c \in Rules[i].when : prevValues'[c.point] = Low
               PROVE  i \in armed' \cup repeats'
    BY DEF Witnessed, RisingRules
  <2>2. CASE whole'
    BY <2>1, <2>2
  <2>3. CASE ~whole'
    <3>1. i \in armed \cup repeats
      BY <2>1, <2>3 DEF Witnessed
    <3> QED BY <2>1, <2>3, <3>1
  <2> QED BY <2>2, <2>3
<1>2. ASSUME NEW down, Reload(down)
      PROVE  Witnessed'
  <2>1. ASSUME NEW i \in RisingRules
        PROVE  \E c \in Rules[i].when : prevValues'[c.point] # Low
    BY <1>2, RisingInput, RuleEngineAssumption DEF Reload
  <2> QED BY <2>1 DEF Witnessed, RisingRules
<1>3. ASSUME NEW down, ReloadRaises(down)
      PROVE  Witnessed'
  BY <1>3 DEF ReloadRaises, Witnessed, RisingRules
<1>4. CASE UNCHANGED vars
  BY <1>4 DEF vars, history, Witnessed, RisingRules
<1> QED BY <1>1, <1>2, <1>3, <1>4 DEF Next, RunCycle

\* A rule on a rising edge that acts in a step was armed before it, or repeats itself.
LEMMA ActsOnlyArmed ==
    ASSUME EngineInvariant, Witnessed, [Next]_vars, ~UNCHANGED vars,
           NEW i \in RisingRules, i \in acted'
    PROVE  i \in armed \cup repeats
<1>1. ASSUME NEW r \in Readings, NEW t \in Elapsed, NEW down, EvaluateCycle(r, t, down)
      PROVE  i \in armed \cup repeats
  <2>1. pulses \in Seq(Reverts) /\ t \in Nat
    BY RuleEngineAssumption DEF EngineInvariant, TypeOK, Reverts
  <2>2. PICK acts, filed, gone : CycleFacts(r, t, down, acts, filed, gone)
    BY <1>1, <2>1, CycleElements
  <2>3. PICK a \in acts : a.rule = i /\ a.rule # Engine
    BY <2>2 DEF CycleFacts
  <2>4. a.act \in ToSet(Chosen(Rules[i], r))
    BY <2>2, <2>3 DEF CycleFacts, DueCall, RuleCall, RevertCall
  <2>5. EvaluateWhen(Rules[i], r)
    <3>1. ToSet(Rules[i].else) = {}
      BY DEF RisingRules, ToSet
    <3> QED BY <2>4, <3>1 DEF Chosen
  <2>6. PICK c \in Rules[i].when : Rules[i].when = {c}
    BY RuleEngineAssumption DEF RisingRules
  <2>7. EvaluateCondition(c, r)
    BY <2>5, <2>6 DEF EvaluateWhen
  <2>8. c.op = "rising"
    BY DEF RisingRules
  <2>9. prevValues[c.point] = Low
    BY <2>7, <2>8 DEF EvaluateCondition
  <2> QED BY <2>6, <2>9 DEF Witnessed
<1>2. ASSUME NEW down, Reload(down) \/ ReloadRaises(down)
      PROVE  FALSE
  BY <1>2 DEF Reload, ReloadRaises
<1> QED BY <1>1, <1>2 DEF Next, RunCycle

\* One press, one action: between two actions of a rule on a rising edge its input was
\* read Low, whatever readings went stale and however often the engine was reloaded,
\* unless the cycle of the earlier action and all since were cut short.
THEOREM OnePressActsOnce == Spec => OncePerPress
<1> DEFINE Inv == EngineInvariant /\ Witnessed
<1>1. Init => Inv
  BY EngineStarts, WitnessedStarts
<1>2. Inv /\ [Next]_vars => Inv'
  BY EngineInductive, WitnessedInductive
<1>3. Inv /\ [Next]_vars
        => [\A i \in RisingRules : i \in acted' => i \in armed \cup repeats]_vars
  BY ActsOnlyArmed
<1> QED BY <1>1, <1>2, <1>3, PTL DEF Spec, OncePerPress

-----------------------------------------------------------------------------
(* ConfigIntake: the sequences of a document. *)

LEMMA SequenceElements ==
    ASSUME NEW s, IsSeq(s)
    PROVE  /\ Len(s) \in Nat /\ DOMAIN s = 1 .. Len(s)
           /\ s \in [1 .. Len(s) -> ToSet(s)]
           /\ ToSet(s) = {s[k] : k \in 1 .. Len(s)}
  BY LenProperties DEF IsSeq, ToSet

LEMMA SomeSequence ==
    ASSUME NEW S, NEW s \in Seq(S)
    PROVE  IsSeq(s)
  BY SeqOfElements DEF IsSeq

LEMMA AmongElements ==
    ASSUME NEW points, IsSeq(points), NEW those
    PROVE  /\ IsSeq(Among(points, those))
           /\ ToSet(Among(points, those)) = ToSet(points) \cap those
           /\ IsInjective(points) => IsInjective(Among(points, those))
<1> DEFINE n == Len(points)
           S == ToSet(points)
           one(p) == IF p \in those THEN <<p>> ELSE <<>>
           ss == [k \in 1 .. n |-> one(points[k])]
<1>1. /\ n \in Nat /\ DOMAIN points = 1 .. n /\ \A k \in 1 .. n : points[k] \in S
      /\ S = {points[k] : k \in 1 .. n}
  BY SequenceElements
<1>2. \A p \in S : one(p) \in Seq(S)
  <2> HIDE DEF S
  <2> QED OBVIOUS
<1>3. \A p, q : q \in ToSet(one(p)) <=> p \in those /\ q = p
  BY DEF ToSet
<1>4. Among(points, those) = FlattenSeq(ss)
  BY <1>1 DEF Among
<1> HIDE DEF one, S
<1>5. ss \in [1 .. n -> Seq(S)]
  BY <1>1, <1>2
<1>6. /\ FlattenSeq(ss) \in Seq(S)
      /\ ToSet(FlattenSeq(ss)) = UNION {ToSet(ss[k]) : k \in 1 .. n}
      /\ Apart(ss) => IsInjective(FlattenSeq(ss))
  <2> HIDE DEF ss, n
  <2> QED BY <1>1, <1>5, FlattenFunction
<1>7. \A q : q \in ToSet(Among(points, those)) <=> \E k \in 1 .. n : q \in ToSet(one(points[k]))
  BY <1>4, <1>6
<1>8. ToSet(Among(points, those)) = S \cap those
  <2> HIDE DEF n
  <2> QED BY <1>1, <1>3, <1>7
<1>9. IsSeq(Among(points, those))
  <2> HIDE DEF ss
  <2> QED BY <1>4, <1>6, SomeSequence
<1>10. ASSUME IsInjective(points)
       PROVE  Apart(ss)
  <2>1. \A k \in 1 .. n : IsInjective(one(points[k]))
    BY DEF one, IsInjective
  <2>2. \A j, k \in 1 .. n : j # k => ToSet(one(points[j])) \cap ToSet(one(points[k])) = {}
    <3> SUFFICES ASSUME NEW j \in 1 .. n, NEW k \in 1 .. n, NEW q,
                        q \in ToSet(one(points[j])), q \in ToSet(one(points[k]))
                 PROVE  j = k
      OBVIOUS
    <3>1. q = points[j] /\ q = points[k]
      BY <1>3
    <3> HIDE DEF n, ss
    <3> QED BY <1>1, <1>10, <3>1 DEF IsInjective
  <2> QED BY <2>1, <2>2 DEF Apart
<1>11. IsInjective(points) => IsInjective(Among(points, those))
  <2> HIDE DEF ss
  <2> QED BY <1>4, <1>6, <1>10
<1> QED BY <1>8, <1>9, <1>11 DEF S

LEMMA OfKindElements ==
    ASSUME NEW d, IsSeq(d.points), NEW kind
    PROVE  /\ IsSeq(OfKind(d, kind))
           /\ ToSet(OfKind(d, kind)) = {p \in ToSet(d.points) : p.kind = kind}
           /\ IsInjective(d.points) => IsInjective(OfKind(d, kind))
  BY AmongElements DEF OfKind

LEMMA SiblingsElements ==
    ASSUME NEW d, IsSeq(d.points), NEW b
    PROVE  /\ IsSeq(Siblings(d, b))
           /\ ToSet(Siblings(d, b)) =
                {p \in ToSet(d.points) : p.kind = "digital_out" /\ p.unit = b.unit}
           /\ IsInjective(d.points) => IsInjective(Siblings(d, b))
  BY AmongElements DEF Siblings

LEMMA PlanElements ==
    ASSUME NEW d, IsSeq(d.points), IsSeq(d.devices)
    PROVE  /\ IsSeq(Plan(d)) /\ ToSet(Plan(d)) \subseteq ToSet(d.points)
           /\ IsSeq(Polled(d)) /\ ToSet(Polled(d)) \subseteq ToSet(d.points)
<1> DEFINE n == Len(d.devices)
           S == ToSet(d.points)
           part(k) == Among(d.points, {p \in ToSet(d.points) : p.unit = d.devices[k].unit})
           ss == [k \in 1 .. n |-> part(k)]
<1>1. n \in Nat /\ DOMAIN d.devices = 1 .. n
  BY SequenceElements
<1>2. ASSUME NEW k \in 1 .. n
      PROVE  part(k) \in Seq(S)
  <2>1. IsSeq(part(k)) /\ ToSet(part(k)) \subseteq S
    BY AmongElements
  <2> HIDE DEF part, S
  <2> QED BY <2>1, SeqOfElements DEF IsSeq
<1>3. Plan(d) = FlattenSeq(ss)
  BY <1>1 DEF Plan
<1> HIDE DEF part, S
<1>4. ss \in [1 .. n -> Seq(S)]
  BY <1>2
<1>5. Plan(d) \in Seq(S)
  <2> HIDE DEF ss, n
  <2> QED BY <1>1, <1>3, <1>4, FlattenFunction
<1>6. IsSeq(Plan(d)) /\ ToSet(Plan(d)) \subseteq S
  <2> HIDE DEF ss
  <2> QED BY <1>5, SomeSequence, ElementIn
<1>7. IsSeq(Polled(d)) /\ ToSet(Polled(d)) \subseteq ToSet(Plan(d))
  BY <1>6, AmongElements DEF Polled
<1> QED BY <1>6, <1>7 DEF S

\* dict(...) keeps the last point of an id: one of the points, with that id.
LEMMA LastOfElement ==
    ASSUME NEW points, IsSeq(points), NEW id, \E p \in ToSet(points) : p.id = id
    PROVE  LastOf(points, id) \in ToSet(points) /\ LastOf(points, id).id = id
<1> DEFINE I == {i \in 1 .. Len(points) : points[i].id = id}
           k == SelectLastInSeq(points, LAMBDA p : p.id = id)
<1>1. /\ Len(points) \in Nat /\ DOMAIN points = 1 .. Len(points)
      /\ ToSet(points) = {points[i] : i \in 1 .. Len(points)}
  BY SequenceElements
<1>2. k = IF I # {} THEN Max(I) ELSE 0
  BY DEF SelectLastInSeq
<1>3. I # {}
  BY <1>1
<1>4. k \in I
  <2>1. I \subseteq 0 .. Len(points)
    BY <1>1
  <2> HIDE DEF I
  <2> QED BY <1>1, <1>2, <1>3, <2>1, MaxInSet
<1>5. LastOf(points, id) = points[k]
  BY DEF LastOf
<1> HIDE DEF k
<1> QED BY <1>1, <1>4, <1>5

\* With one point to an id it is that point.
LEMMA DistinctValues ==
    ASSUME NEW n \in Nat, NEW T, NEW f \in [1 .. n -> T],
           \A x \in T : \E k \in 1 .. n : f[k] = x, Cardinality(T) = n
    PROVE  \A j, k \in 1 .. n : f[j] = f[k] => j = k
<1>1. f \in Surjection(1 .. n, T)
  BY DEF Surjection
<1>2. IsFiniteSet(1 .. n) /\ Cardinality(1 .. n) = n
  BY FS_Interval
<1>3. f \in Injection(1 .. n, T)
  BY <1>1, <1>2, FS_SurjSameCardinalityImpliesInj
<1> QED BY <1>3 DEF Injection, IsInjective

LEMMA OnePointToAnId ==
    ASSUME NEW d, IsSeq(d.points), DistinctIds(d), NEW p \in ToSet(d.points)
    PROVE  /\ LastOf(d.points, p.id) = p
           /\ \A q \in ToSet(d.points) : q.id = p.id => q = p
<1> DEFINE n == Len(d.points)
           f == [k \in 1 .. n |-> d.points[k].id]
<1>1. n \in Nat /\ ToSet(d.points) = {d.points[k] : k \in 1 .. n}
  BY SequenceElements
<1>2. Cardinality(Ids(d)) = n
  BY DEF DistinctIds
<1>3. f \in [1 .. n -> Ids(d)] /\ \A x \in Ids(d) : \E k \in 1 .. n : f[k] = x
  BY <1>1 DEF Ids
<1>4. \A j, k \in 1 .. n : f[j] = f[k] => j = k
  <2> HIDE DEF f, n
  <2> QED BY <1>1, <1>2, <1>3, DistinctValues
<1>5. \A q \in ToSet(d.points) : q.id = p.id => q = p
  BY <1>1, <1>4
<1> QED BY <1>5, LastOfElement

-----------------------------------------------------------------------------
\* Migration gives each button a rule and each register a rule, and nothing else.
LEMMA SynthesizedElements ==
    ASSUME NEW d, IsSeq(d.points)
    PROVE  /\ IsSeq(SynthesizedRules(d))
           /\ \A r : r \in ToSet(SynthesizedRules(d)) <=>
                \/ \E b \in ToSet(OfKind(d, "digital_in")) : r = ButtonRule(d, b)
                \/ \E g \in ToSet(OfKind(d, "register")) : r = FaultRule(g)
<1> DEFINE buttons == OfKind(d, "digital_in")
           registers == OfKind(d, "register")
           B == {ButtonRule(d, b) : b \in ToSet(buttons)}
           F == {FaultRule(g) : g \in ToSet(registers)}
           bs == [k \in DOMAIN buttons |-> ButtonRule(d, buttons[k])]
           fs == [k \in DOMAIN registers |-> FaultRule(registers[k])]
<1>1. /\ Len(buttons) \in Nat /\ DOMAIN buttons = 1 .. Len(buttons)
      /\ ToSet(buttons) = {buttons[k] : k \in 1 .. Len(buttons)}
  <2>1. IsSeq(buttons)
    BY OfKindElements
  <2> HIDE DEF buttons
  <2> QED BY <2>1, SequenceElements
<1>2. /\ Len(registers) \in Nat /\ DOMAIN registers = 1 .. Len(registers)
      /\ ToSet(registers) = {registers[k] : k \in 1 .. Len(registers)}
  <2>1. IsSeq(registers)
    BY OfKindElements
  <2> HIDE DEF registers
  <2> QED BY <2>1, SequenceElements
<1>3. SynthesizedRules(d) = bs \o fs
  BY DEF SynthesizedRules
<1> HIDE DEF buttons, registers
<1>4. /\ bs \in [1 .. Len(buttons) -> B] /\ fs \in [1 .. Len(registers) -> F]
      /\ ToSet(bs) = B /\ ToSet(fs) = F
  BY <1>1, <1>2 DEF ToSet
<1> HIDE DEF bs, fs
<1>5. bs \in Seq(B \cup F) /\ fs \in Seq(B \cup F)
  <2> HIDE DEF B, F
  <2>1. bs \in Seq(B) /\ fs \in Seq(F)
    BY <1>1, <1>2, <1>4, SeqOfFunction
  <2> QED BY <1>4, <2>1, SeqOfElements
<1>6. IsSeq(SynthesizedRules(d)) /\ ToSet(SynthesizedRules(d)) = B \cup F
  <2>1. /\ bs \o fs \in Seq(B \cup F) /\ ToSet(bs \o fs) = ToSet(bs) \cup ToSet(fs)
    <3> HIDE DEF B, F
    <3> QED BY <1>5, ConcatElements
  <2>2. IsSeq(bs \o fs)
    <3> HIDE DEF B, F
    <3> QED BY <2>1, SomeSequence
  <2> HIDE DEF B, F
  <2> QED BY <1>3, <1>4, <2>1, <2>2
<1> QED BY <1>6 DEF buttons, registers

LEMMA SynthesizedTyped ==
    ASSUME NEW d, IsSeq(d.points), NEW r \in ToSet(SynthesizedRules(d))
    PROVE  r.enabled = TRUE /\ IsSeq(r.then) /\ r.else = <<>> /\ Len(r.when) = 1
<1>1. CASE \E b \in ToSet(OfKind(d, "digital_in")) : r = ButtonRule(d, b)
  <2>1. PICK b : r = ButtonRule(d, b)
    BY <1>1
  <2>2. IsSeq(r.then)
    <3> DEFINE x == [action |-> "pulse", point |-> Siblings(d, b)[1].id, ms |-> 500]
               y == [action |-> "log_event", event_type |-> "maintenance_request"]
    <3>1. r.then = <<x, y>>
      BY <2>1 DEF ButtonRule
    <3> HIDE DEF x, y
    <3>2. <<x, y>> \in Seq({x, y})
      OBVIOUS
    <3> QED BY <3>1, <3>2, SomeSequence
  <2> QED BY <2>1, <2>2 DEF ButtonRule
<1>2. CASE \E g \in ToSet(OfKind(d, "register")) : r = FaultRule(g)
  <2>1. PICK g : r = FaultRule(g)
    BY <1>2
  <2>2. IsSeq(r.then)
    <3> DEFINE y == [action |-> "log_event", event_type |-> "machine_fault"]
    <3>1. r.then = <<y>>
      BY <2>1 DEF FaultRule
    <3> HIDE DEF y
    <3>2. <<y>> \in Seq({y})
      OBVIOUS
    <3> QED BY <3>1, <3>2, SomeSequence
  <2> QED BY <2>1, <2>2 DEF FaultRule
<1> QED BY <1>1, <1>2, SynthesizedElements

MigratedPoint(p, interval) ==
    [id |-> p.id, unit |-> p.unit, kind |-> p.kind, fn |-> Function[p.kind],
     addr |-> p.addr, count |-> 1, debounce |-> DebounceMs(p, interval)]

LEMMA MigratedElements ==
    ASSUME NEW d, Shaped(d), d.schema = 1
    PROVE  /\ Shaped(Migrated(d)) /\ Migrated(d).schema = 2 /\ Migrated(d).transport = "rtu"
           /\ Migrated(d).devices = d.devices /\ Migrated(d).interval = d.interval
           /\ Migrated(d).rules = SynthesizedRules(d)
           /\ Len(Migrated(d).points) = Len(d.points)
           /\ \A k \in 1 .. Len(d.points) :
                Migrated(d).points[k] = MigratedPoint(d.points[k], d.interval)
           /\ \A q : q \in ToSet(Migrated(d).points) <=>
                \E p \in ToSet(d.points) : q = MigratedPoint(p, d.interval)
<1> DEFINE n == Len(d.points)
           one(p) == MigratedPoint(p, d.interval)
           points == [k \in 1 .. n |-> one(d.points[k])]
           P == {one(p) : p \in ToSet(d.points)}
           rules == SynthesizedRules(d)
<1>1. IsSeq(d.points) /\ IsSeq(d.devices)
  BY DEF Shaped
<1>2. /\ n \in Nat /\ DOMAIN d.points = 1 .. n
      /\ ToSet(d.points) = {d.points[k] : k \in 1 .. n}
  BY <1>1, SequenceElements
<1>3. Migrated(d) = [schema |-> 2, transport |-> "rtu", interval |-> d.interval,
                     devices |-> d.devices, points |-> points, rules |-> rules]
  BY <1>2 DEF Migrated, MigratedPoint
<1>4. IsSeq(rules) /\ \A r \in ToSet(rules) : /\ r.enabled = TRUE /\ IsSeq(r.then)
                                              /\ r.else = <<>>
  BY <1>1, SynthesizedElements, SynthesizedTyped
<1> HIDE DEF one, rules
<1>5. /\ points \in [1 .. n -> P] /\ \A k \in 1 .. n : points[k] = one(d.points[k])
      /\ DOMAIN points = 1 .. n
  BY <1>2
<1>6. ToSet(points) = P
  <2>1. ToSet(points) = {points[k] : k \in 1 .. n}
    BY <1>5 DEF ToSet
  <2>2. P = {one(d.points[k]) : k \in 1 .. n}
    <3> HIDE DEF n
    <3> QED BY <1>2
  <2> HIDE DEF points, P, n
  <2> QED BY <1>5, <2>1, <2>2
<1>7. IsSeq(points) /\ Len(points) = n
  <2> HIDE DEF points, P, n
  <2> QED BY <1>2, <1>5, SeqOfFunction, SomeSequence
<1>8. IsSeq(<<>>)
  <2>1. <<>> \in Seq({})
    OBVIOUS
  <2> QED BY <2>1, SomeSequence
<1> HIDE DEF points
<1>9. /\ Migrated(d).schema = 2 /\ Migrated(d).transport = "rtu"
      /\ Migrated(d).devices = d.devices /\ Migrated(d).interval = d.interval
      /\ Migrated(d).rules = rules /\ Migrated(d).points = points
  BY <1>3
<1>10. Shaped(Migrated(d))
  <2> DEFINE m == Migrated(d)
  <2>1. m.schema = 2 /\ IsSeq(m.devices) /\ IsSeq(m.points) /\ IsSeq(m.rules)
    BY <1>1, <1>4, <1>7, <1>9
  <2>2. \A r \in ToSet(m.rules) : r.enabled \in BOOLEAN /\ IsSeq(r.then) /\ IsSeq(r.else)
    BY <1>4, <1>8, <1>9
  <2> HIDE DEF m
  <2>3. Shaped(m)
    BY <2>1, <2>2 DEF Shaped
  <2> QED BY <2>3 DEF m
<1> QED BY <1>5, <1>6, <1>7, <1>9, <1>10 DEF one, rules

-----------------------------------------------------------------------------
\* What a cycle under a document does comes from the branches of its enabled rules.
LEMMA ActionsElements ==
    ASSUME NEW r, IsSeq(r.then), IsSeq(r.else)
    PROVE  Actions(r) = ToSet(r.then) \cup ToSet(r.else)
<1> DEFINE S == ToSet(r.then) \cup ToSet(r.else)
<1>1. r.then \in Seq(S) /\ r.else \in Seq(S)
  BY SeqOfElements DEF IsSeq
<1> HIDE DEF S
<1> QED BY <1>1, ConcatElements DEF Actions

Rulewise(d) == Shaped(d) /\ d.schema = 2

LEMMA RulewiseElements ==
    ASSUME NEW d, Rulewise(d)
    PROVE  /\ IsSeq(d.devices) /\ IsSeq(d.points)
           /\ Len(d.rules) \in Nat /\ DOMAIN d.rules = 1 .. Len(d.rules)
           /\ ToSet(d.rules) = {d.rules[k] : k \in DOMAIN d.rules}
           /\ \A r \in ToSet(d.rules) :
                /\ r.enabled \in BOOLEAN /\ IsSeq(r.then) /\ IsSeq(r.else)
                /\ Actions(r) = ToSet(r.then) \cup ToSet(r.else)
<1>1. IsSeq(d.rules)
  BY DEF Rulewise, Shaped
<1> QED BY <1>1, SequenceElements, ActionsElements DEF Rulewise, Shaped

LEMMA BranchElements ==
    ASSUME NEW d, Rulewise(d), NEW r \in ToSet(d.rules), NEW now
    PROVE  /\ IsSeq(Branch(d, r, now))
           /\ \A a \in ToSet(Branch(d, r, now)) :
                /\ r.enabled
                /\ \/ a \in Actions(r)
                   \/ /\ \E c \in ToSet(r.when) : CannotCompare(d, c, now)
                      /\ a = [raises |-> r.when]
<1>1. r.enabled \in BOOLEAN /\ IsSeq(r.then) /\ IsSeq(r.else)
  BY RulewiseElements
<1>2. Actions(r) = ToSet(r.then) \cup ToSet(r.else)
  BY RulewiseElements
<1>3. CASE ~r.enabled
  <2>1. Branch(d, r, now) = <<>>
    BY <1>3 DEF Branch
  <2>2. IsSeq(<<>>) /\ ToSet(<<>>) = {}
    BY DEF IsSeq, ToSet
  <2> QED BY <2>1, <2>2
<1>4. CASE r.enabled /\ \E c \in ToSet(r.when) : CannotCompare(d, c, now)
  <2> DEFINE a == [raises |-> r.when]
  <2>1. Branch(d, r, now) = <<a>>
    BY <1>4 DEF Branch
  <2> HIDE DEF a
  <2>2. <<a>> \in Seq({a}) /\ ToSet(<<a>>) = {a}
    BY DEF ToSet
  <2>3. IsSeq(<<a>>)
    BY <2>2, SomeSequence
  <2> QED BY <1>4, <2>1, <2>2, <2>3 DEF a
<1>5. CASE r.enabled /\ ~ \E c \in ToSet(r.when) : CannotCompare(d, c, now)
  <2>1. Branch(d, r, now) = IF Matches(d, r, now) THEN r.then ELSE r.else
    BY <1>5 DEF Branch
  <2> QED BY <1>1, <1>2, <1>5, <2>1
<1> QED BY <1>3, <1>4, <1>5

LEMMA ScriptElements ==
    ASSUME NEW d, Rulewise(d), NEW now
    PROVE  /\ IsSeq(Script(d, now))
           /\ \A x \in ToSet(Script(d, now)) :
                /\ x.by \in DOMAIN d.rules
                /\ x.act \in ToSet(Branch(d, d.rules[x.by], now))
<1> DEFINE n == Len(d.rules)
           branch(k) == Branch(d, d.rules[k], now)
           tagged(k) == [j \in DOMAIN branch(k) |-> [by |-> k, act |-> branch(k)[j]]]
           all == [k \in 1 .. n |-> tagged(k)]
           S == UNION {ToSet(tagged(k)) : k \in 1 .. n}
<1>1. n \in Nat /\ DOMAIN d.rules = 1 .. n /\ \A k \in 1 .. n : d.rules[k] \in ToSet(d.rules)
  BY RulewiseElements
<1>2. ASSUME NEW k \in 1 .. n
      PROVE  /\ IsSeq(tagged(k))
             /\ \A x \in ToSet(tagged(k)) : x.by = k /\ x.act \in ToSet(branch(k))
  <2>1. IsSeq(branch(k))
    BY <1>1, BranchElements
  <2> HIDE DEF branch
  <2>2. Len(branch(k)) \in Nat /\ DOMAIN branch(k) = 1 .. Len(branch(k))
    BY <2>1, SequenceElements
  <2> DEFINE T == ToSet(tagged(k))
  <2>3. tagged(k) \in [1 .. Len(branch(k)) -> T]
    BY <2>2 DEF ToSet
  <2>4. IsSeq(tagged(k))
    <3> HIDE DEF T, tagged
    <3> QED BY <2>2, <2>3, SeqOfFunction, SomeSequence
  <2>5. \A x \in ToSet(tagged(k)) : x.by = k /\ x.act \in ToSet(branch(k))
    BY DEF ToSet
  <2> QED BY <2>4, <2>5
<1>3. Script(d, now) = FlattenSeq(all)
  BY <1>1 DEF Script
<1>4. \A k \in 1 .. n : tagged(k) \in Seq(S)
  <2> HIDE DEF tagged
  <2>1. ASSUME NEW k \in 1 .. n
        PROVE  ToSet(tagged(k)) \subseteq S
    OBVIOUS
  <2> HIDE DEF S
  <2> QED BY <1>2, <2>1, SeqOfElements DEF IsSeq
<1> HIDE DEF tagged, S
<1>5. all \in [1 .. n -> Seq(S)]
  BY <1>4
<1>6. /\ FlattenSeq(all) \in Seq(S)
      /\ ToSet(FlattenSeq(all)) = UNION {ToSet(all[k]) : k \in 1 .. n}
  <2> HIDE DEF all, n
  <2> QED BY <1>1, <1>5, FlattenFunction
<1>7. IsSeq(Script(d, now))
  <2> HIDE DEF all
  <2> QED BY <1>3, <1>6, SomeSequence
<1>8. ASSUME NEW x \in ToSet(Script(d, now))
      PROVE  x.by \in 1 .. n /\ x.act \in ToSet(branch(x.by))
  <2>1. PICK k \in 1 .. n : x \in ToSet(all[k])
    <3> HIDE DEF all, n
    <3> QED BY <1>3, <1>6
  <2>2. x \in ToSet(tagged(k))
    BY <2>1
  <2> HIDE DEF branch
  <2> QED BY <1>2, <2>2
<1> QED BY <1>1, <1>7, <1>8

LEMMA PerformedElements ==
    ASSUME NEW d, NEW script, IsSeq(script)
    PROVE  /\ ToSet(Performed(d, script)) \subseteq ToSet(script)
           /\ (\A x \in ToSet(script) : Works(d, x.act)) => Performed(d, script) = script
<1> DEFINE n == Len(script)
           I == {i \in 1 .. n : ~Works(d, script[i].act)}
           bad == SelectInSeq(script, LAMBDA x : ~Works(d, x.act))
<1>1. n \in Nat /\ DOMAIN script = 1 .. n /\ ToSet(script) = {script[k] : k \in 1 .. n}
  BY SequenceElements
<1>2. bad = IF I # {} THEN Min(I) ELSE 0
  BY DEF SelectInSeq
<1>3. Performed(d, script) = IF bad = 0 THEN script ELSE SubSeq(script, 1, bad)
  BY DEF Performed
<1> HIDE DEF bad
<1>4. CASE I = {}
  BY <1>2, <1>3, <1>4
<1>5. CASE I # {}
  <2>1. bad \in I
    <3>1. I \subseteq Nat
      OBVIOUS
    <3> HIDE DEF I
    <3> QED BY <1>2, <1>5, <3>1, MinInSet
  <2>2. bad \in 1 .. n /\ ~Works(d, script[bad].act) /\ script[bad] \in ToSet(script)
    BY <1>1, <2>1
  <2>3. /\ Len(SubSeq(script, 1, bad)) = bad /\ IsSeq(SubSeq(script, 1, bad))
        /\ \A i \in 1 .. bad : SubSeq(script, 1, bad)[i] = script[i]
    <3>1. \A i \in 1 .. bad : script[i] \in ToSet(script)
      BY <1>1, <2>2
    <3>2. script \in Seq(ToSet(script)) /\ 1 \in 1 .. bad + 1 /\ bad \in Nat
      BY <2>2 DEF IsSeq
    <3>3. /\ Len(SubSeq(script, 1, bad)) = bad
          /\ SubSeq(script, 1, bad) \in Seq(ToSet(script))
          /\ \A i \in 1 .. bad : SubSeq(script, 1, bad)[i] = script[i]
      BY <1>1, <2>2, <3>1, <3>2, SubSeqProperties
    <3> QED BY <3>3, SomeSequence
  <2>4. ToSet(SubSeq(script, 1, bad)) \subseteq ToSet(script)
    <3> DEFINE acts == SubSeq(script, 1, bad)
    <3>1. ToSet(acts) = {acts[i] : i \in 1 .. bad}
      <4> HIDE DEF acts
      <4> QED BY <2>3, SequenceElements DEF acts
    <3>2. \A i \in 1 .. bad : acts[i] \in ToSet(script)
      BY <1>1, <2>2, <2>3
    <3> HIDE DEF acts
    <3>3. ToSet(acts) \subseteq ToSet(script)
      BY <3>1, <3>2
    <3> QED BY <3>3 DEF acts
  <2> QED BY <1>3, <2>2, <2>4
<1> QED BY <1>4, <1>5

LEMMA EndingTyped ==
    ASSUME NEW d, NEW script, IsSeq(script)
    PROVE  /\ Ending(d, Performed(d, script)) \in {"done", "raised", "unwhitelisted"}
           /\ (\A x \in ToSet(script) : Works(d, x.act))
                => Ending(d, Performed(d, script)) = "done"
<1>1. \A q : Ending(d, q) \in {"done", "raised", "unwhitelisted"}
  BY DEF Ending
<1>2. ASSUME \A x \in ToSet(script) : Works(d, x.act)
      PROVE  Ending(d, Performed(d, script)) = "done"
  <2>1. Performed(d, script) = script
    BY <1>2, PerformedElements
  <2>2. script # <<>> => Last(script) \in ToSet(script)
    <3>1. script \in Seq(ToSet(script))
      BY DEF IsSeq
    <3>2. script # <<>> => Len(script) \in 1 .. Len(script)
      BY <3>1, LenProperties, EmptySeq
    <3> QED BY <3>2, SequenceElements DEF Last
  <2>3. CASE script = <<>>
    BY <2>1, <2>3 DEF Ending
  <2>4. CASE script # <<>>
    <3>1. Works(d, Last(script).act) /\ ~Unknown(Last(script).act)
      BY <1>2, <2>2, <2>4 DEF Works, Unknown
    <3> QED BY <2>1, <2>4, <3>1 DEF Ending
  <2> QED BY <2>3, <2>4
<1> QED BY <1>1, <1>2

-----------------------------------------------------------------------------
\* A document validate_io has let through.
Vetted(d) == Rulewise(d) /\ ~CannotTell(d) /\ ~Rejects(d)

\* What is read has the id it is kept under, and a value.
LEMMA PolledPoint ==
    ASSUME NEW d, Rulewise(d), NEW id \in PolledIds(d)
    PROVE  /\ LastOf(Polled(d), id) \in ToSet(Polled(d))
           /\ LastOf(Polled(d), id) \in ToSet(d.points)
<1>1. IsSeq(Polled(d)) /\ ToSet(Polled(d)) \subseteq ToSet(d.points)
  BY RulewiseElements, PlanElements
<1>2. \E p \in ToSet(Polled(d)) : p.id = id
  BY DEF PolledIds
<1> QED BY <1>1, <1>2, LastOfElement

\* Every action an enabled rule of a vetted and tidy document can perform works: the
\* checks of validators.py stand in front of every look-up of the rule engine.
LEMMA TidyActionsWork ==
    ASSUME NEW d, Vetted(d), Tidy(d), NEW r \in ToSet(d.rules), r.enabled, NEW a \in Actions(r)
    PROVE  Works(d, a)
<1>1. /\ Has(a, "action") /\ a.action \in {"set", "pulse", "log_event"}
      /\ a.action = "set" => Has(a, "value")
      /\ a.action = "pulse" => Has(a, "ms")
      /\ a.action = "log_event" => Has(a, "event_type")
      /\ Writing(a) /\ a.point \in Ids(d) => LastOf(d.points, a.point).kind = "digital_out"
  BY DEF Tidy
<1>2. ASSUME Writing(a)
      PROVE  Writable(d, a)
  <2>1. Has(a, "point")
    BY <1>2 DEF Vetted, CannotTell, Enabled
  <2>2. a.point \in Ids(d)
    BY <2>1 DEF Vetted, Rejects, Dangling
  <2>3. LastOf(d.points, a.point) \in ToSet(d.points)
    <3>1. IsSeq(d.points) /\ \E p \in ToSet(d.points) : p.id = a.point
      BY <2>2, RulewiseElements DEF Vetted, Ids
    <3> QED BY <3>1, LastOfElement
  <2>4. LastOf(d.points, a.point).fn = "write_coil"
    BY <1>1, <1>2, <2>2, <2>3 DEF Tidy
  <2> QED BY <2>1, <2>2, <2>4 DEF Writable
<1> QED BY <1>1, <1>2 DEF Works, Writes, Writing

\* No condition of a tidy document raises either: every point is one value.
LEMMA TidyCompares ==
    ASSUME NEW d, Rulewise(d), Tidy(d), NEW c, NEW now, DOMAIN now = PolledIds(d)
    PROVE  ~CannotCompare(d, c, now)
<1> SUFFICES ASSUME CannotCompare(d, c, now) PROVE FALSE
  OBVIOUS
<1>1. c.point \in PolledIds(d)
  BY DEF CannotCompare, Trusted, Has
<1>2. LastOf(Polled(d), c.point).count = 1
  BY <1>1, PolledPoint DEF Tidy
<1> QED BY <1>2 DEF CannotCompare, Several

LEMMA TidyScriptWorks ==
    ASSUME NEW d, Vetted(d), Tidy(d), NEW now, DOMAIN now = PolledIds(d),
           NEW x \in ToSet(Script(d, now))
    PROVE  Works(d, x.act)
<1>1. Rulewise(d)
  BY DEF Vetted
<1>2. x.by \in DOMAIN d.rules /\ x.act \in ToSet(Branch(d, d.rules[x.by], now))
  BY <1>1, ScriptElements
<1>3. d.rules[x.by] \in ToSet(d.rules)
  BY <1>1, <1>2, RulewiseElements
<1>4. d.rules[x.by].enabled /\ x.act \in Actions(d.rules[x.by])
  BY <1>1, <1>2, <1>3, BranchElements, TidyCompares
<1> QED BY <1>3, <1>4, TidyActionsWork

\* ... and the walk of a reload finds a coil for each output.
LEMMA TidyWalks ==
    ASSUME NEW d, IsSeq(d.points), Tidy(d)
    PROVE  Walkable(d)
<1> SUFFICES ASSUME NEW p \in ToSet(OfKind(d, "digital_out"))
             PROVE  LastOf(d.points, p.id).fn = "write_coil"
  BY DEF Walkable
<1>1. p \in ToSet(d.points) /\ p.kind = "digital_out"
  BY OfKindElements
<1>2. LastOf(d.points, p.id) = p
  BY <1>1, OnePointToAnId DEF Tidy
<1> QED BY <1>1, <1>2 DEF Tidy

\* Whatever was let through can be built.
LEMMA VettedBuilds ==
    ASSUME NEW d, Vetted(d)
    PROVE  Builds(d)
<1>1. ~Unattached(d) /\ ~Unhosted(d)
  BY DEF Vetted, Rejects
<1>2. \A p \in ToSet(d.points) : \E e \in ToSet(d.devices) : p.unit = e.unit
  BY <1>1 DEF Unattached, Units
<1>3. d.transport = "tcp" => \A e \in ToSet(d.devices) : Has(e, "host")
  BY <1>1 DEF Unhosted, Hosted
<1> QED BY <1>2, <1>3 DEF Builds, Vetted, Rulewise

\* What a rule writes is credited to it: an enabled rule with an action on that coil.
CreditedTo(d, w) ==
    \E k \in DOMAIN d.rules : \E a \in Actions(d.rules[k]) :
        /\ d.rules[k].enabled /\ Writes(d, a)
        /\ w = <<Coil(d, LastOf(d.points, a.point)), k>>

LEMMA WritesAreCredited ==
    ASSUME NEW d, Rulewise(d), NEW now,
           NEW w \in CoilWrites(d, Performed(d, Script(d, now)))
    PROVE  CreditedTo(d, w)
<1> DEFINE performed == Performed(d, Script(d, now))
<1>1. PICK x \in ToSet(performed) : /\ Writes(d, x.act)
                                    /\ w = <<Coil(d, LastOf(d.points, x.act.point)), x.by>>
  BY DEF CoilWrites
<1>2. x \in ToSet(Script(d, now))
  BY ScriptElements, PerformedElements
<1>3. x.by \in DOMAIN d.rules /\ x.act \in ToSet(Branch(d, d.rules[x.by], now))
  BY <1>2, ScriptElements
<1>4. d.rules[x.by] \in ToSet(d.rules)
  BY <1>3, RulewiseElements
<1>5. d.rules[x.by].enabled /\ x.act \in Actions(d.rules[x.by])
  <2>1. x.act # [raises |-> d.rules[x.by].when]
    BY <1>1 DEF Writes, Writing, Has
  <2> QED BY <1>3, <1>4, <2>1, BranchElements
<1> QED BY <1>1, <1>3, <1>5 DEF CreditedTo

-----------------------------------------------------------------------------
LEMMA AtMostOne ==
    ASSUME NEW S, IsFiniteSet(S), ~(Cardinality(S) > 1), NEW x \in S, NEW y \in S
    PROVE  x = y
<1> SUFFICES ASSUME x # y PROVE FALSE
  OBVIOUS
<1>1. IsFiniteSet({x}) /\ Cardinality({x}) = 1
  BY FS_Singleton
<1>2. IsFiniteSet({x} \cup {y}) /\ Cardinality({x} \cup {y}) = 2
  <2> DEFINE X == {x}
  <2>1. IsFiniteSet(X) /\ Cardinality(X) = 1 /\ y \notin X
    BY <1>1
  <2> HIDE DEF X
  <2>2. IsFiniteSet(X \cup {y}) /\ Cardinality(X \cup {y}) = 2
    BY <2>1, FS_AddElement
  <2> QED BY <2>2 DEF X
<1>3. {x} \cup {y} \in SUBSET S
  OBVIOUS
<1>4. Cardinality({x} \cup {y}) <= Cardinality(S) /\ Cardinality(S) \in Nat
  BY <1>3, FS_Subset, FS_CardinalityType
<1> QED BY <1>2, <1>4

LEMMA FiniteValues ==
    ASSUME NEW n \in Nat, NEW T, NEW f \in [1 .. n -> T], \A x \in T : \E k \in 1 .. n : f[k] = x
    PROVE  IsFiniteSet(T)
<1>1. f \in Surjection(1 .. n, T)
  BY DEF Surjection
<1>2. IsFiniteSet(1 .. n)
  BY FS_Interval
<1> QED BY <1>1, <1>2, FS_Surjection

LEMMA FiniteElements ==
    ASSUME NEW s, IsSeq(s)
    PROVE  IsFiniteSet(ToSet(s))
  BY SequenceElements, FiniteValues

\* One rule id to a point of a vetted document ...
LEMMA OneWriter ==
    ASSUME NEW d, Vetted(d), NEW id, NEW x \in WriterIds(d, id), NEW y \in WriterIds(d, id)
    PROVE  x = y
<1> DEFINE n == Len(d.rules)
           T == {r.id : r \in ToSet(d.rules)}
           f == [k \in 1 .. n |-> d.rules[k].id]
<1>1. n \in Nat /\ ToSet(d.rules) = {d.rules[k] : k \in 1 .. n}
  BY RulewiseElements DEF Vetted
<1>2. f \in [1 .. n -> T] /\ \A v \in T : \E k \in 1 .. n : f[k] = v
  BY <1>1
<1>3. IsFiniteSet(T)
  <2> HIDE DEF f, T, n
  <2> QED BY <1>1, <1>2, FiniteValues
<1>4. WriterIds(d, id) \in SUBSET T
  BY DEF WriterIds, Enabled
<1>5. IsFiniteSet(WriterIds(d, id))
  <2> HIDE DEF T
  <2> QED BY <1>3, <1>4, FS_Subset
<1>6. PICK r \in Enabled(d) : id \in Written(r)
  BY DEF WriterIds
<1>7. ~(Cardinality(WriterIds(d, id)) > 1)
  BY <1>6 DEF Vetted, Rejects, Contended
<1> QED BY <1>5, <1>7, AtMostOne

\* ... and one device to a line and slave of a separate one.
LEMMA OneDeviceToASlave ==
    ASSUME NEW d, IsSeq(d.devices), Separate(d),
           NEW e \in ToSet(d.devices), NEW g \in ToSet(d.devices),
           Line(d, e) = Line(d, g), Slave(e) = Slave(g)
    PROVE  e = g
<1> DEFINE n == Len(d.devices)
           T == {<<Line(d, x), Slave(x)>> : x \in ToSet(d.devices)}
           f == [i \in 1 .. n |-> <<Line(d, d.devices[i]), Slave(d.devices[i])>>]
<1>1. n \in Nat /\ ToSet(d.devices) = {d.devices[i] : i \in 1 .. n}
  BY SequenceElements
<1>2. f \in [1 .. n -> T] /\ \A v \in T : \E i \in 1 .. n : f[i] = v
  BY <1>1
<1>3. Cardinality(T) = n
  BY DEF Separate
<1>4. \A i, j \in 1 .. n : f[i] = f[j] => i = j
  <2> HIDE DEF f, T, n
  <2> QED BY <1>1, <1>2, <1>3, DistinctValues
<1>5. PICK i, j \in 1 .. n : e = d.devices[i] /\ g = d.devices[j]
  BY <1>1
<1>6. f[i] = f[j]
  BY <1>5
<1> QED BY <1>4, <1>5, <1>6

\* Whoever writes a coil of a vetted and separate document is one rule.
LEMMA SeparateOneMaster ==
    ASSUME NEW d, Vetted(d), Separate(d), NEW w, NEW x, CreditedTo(d, w), CreditedTo(d, x),
           w[1] = x[1]
    PROVE  w[2] = x[2]
<1>1. PICK k \in DOMAIN d.rules : \E a \in Actions(d.rules[k]) :
        /\ d.rules[k].enabled /\ Writes(d, a)
        /\ w = <<Coil(d, LastOf(d.points, a.point)), k>>
  BY DEF CreditedTo
<1>2. PICK a \in Actions(d.rules[k]) :
        /\ d.rules[k].enabled /\ Writes(d, a)
        /\ w = <<Coil(d, LastOf(d.points, a.point)), k>>
  BY <1>1
<1>3. PICK l \in DOMAIN d.rules : \E b \in Actions(d.rules[l]) :
        /\ d.rules[l].enabled /\ Writes(d, b)
        /\ x = <<Coil(d, LastOf(d.points, b.point)), l>>
  BY DEF CreditedTo
<1>4. PICK b \in Actions(d.rules[l]) :
        /\ d.rules[l].enabled /\ Writes(d, b)
        /\ x = <<Coil(d, LastOf(d.points, b.point)), l>>
  BY <1>3
<1> DEFINE p == LastOf(d.points, a.point)
           q == LastOf(d.points, b.point)
<1>5. IsSeq(d.points) /\ IsSeq(d.devices)
  BY RulewiseElements DEF Vetted
<1>6. d.rules[k] \in ToSet(d.rules) /\ d.rules[l] \in ToSet(d.rules)
  BY RulewiseElements DEF Vetted
<1>7. ASSUME NEW r \in ToSet(d.rules), NEW c \in Actions(r), Writes(d, c)
      PROVE  /\ LastOf(d.points, c.point) \in ToSet(d.points)
             /\ LastOf(d.points, c.point).id = c.point
             /\ LastOf(d.points, c.point).kind = "digital_out"
  <2>1. c.point \in Ids(d) /\ Writing(c)
    BY <1>7 DEF Writes, Writable
  <2>2. \E v \in ToSet(d.points) : v.id = c.point
    BY <2>1 DEF Ids
  <2>3. /\ LastOf(d.points, c.point) \in ToSet(d.points)
        /\ LastOf(d.points, c.point).id = c.point
    BY <1>5, <2>2, LastOfElement
  <2>4. LastOf(d.points, c.point).fn = "write_coil"
    BY <1>7 DEF Writes, Writable
  <2> QED BY <2>3, <2>4 DEF Separate
<1>8. /\ p \in ToSet(d.points) /\ p.id = a.point /\ p.kind = "digital_out"
      /\ q \in ToSet(d.points) /\ q.id = b.point /\ q.kind = "digital_out"
  BY <1>2, <1>4, <1>6, <1>7
<1>9. Coil(d, p) = Coil(d, q)
  BY <1>2, <1>4
<1> HIDE DEF p, q
<1>10. \A v \in ToSet(d.points) :
         DeviceOf(d, v) \in ToSet(d.devices) /\ DeviceOf(d, v).unit = v.unit
  <2>1. \A v \in ToSet(d.points) : \E e \in ToSet(d.devices) : e.unit = v.unit
    BY DEF Vetted, Rejects, Unattached, Units
  <2> QED BY <2>1 DEF DeviceOf
<1>11. p.unit = q.unit /\ p.addr = q.addr
  <2>1. /\ Line(d, DeviceOf(d, p)) = Line(d, DeviceOf(d, q))
        /\ Slave(DeviceOf(d, p)) = Slave(DeviceOf(d, q)) /\ p.addr = q.addr
    BY <1>9 DEF Coil
  <2>2. DeviceOf(d, p) = DeviceOf(d, q)
    BY <1>5, <1>8, <1>10, <2>1, OneDeviceToASlave
  <2> QED BY <1>8, <1>10, <2>1, <2>2
<1>12. p = q
  <2> DEFINE outputs == OfKind(d, "digital_out")
  <2>1. IsSeq(outputs) /\ p \in ToSet(outputs) /\ q \in ToSet(outputs)
    BY <1>5, <1>8, OfKindElements
  <2>2. \A i, j \in DOMAIN outputs :
          outputs[i].unit = outputs[j].unit /\ outputs[i].addr = outputs[j].addr => i = j
    BY DEF Vetted, Rejects, Aliased
  <2> HIDE DEF outputs
  <2>3. PICK i, j \in DOMAIN outputs : p = outputs[i] /\ q = outputs[j]
    BY <2>1 DEF ToSet
  <2> QED BY <1>11, <2>2, <2>3
<1>13. /\ d.rules[k].id \in WriterIds(d, a.point)
       /\ d.rules[l].id \in WriterIds(d, a.point)
  BY <1>2, <1>4, <1>6, <1>8, <1>12 DEF WriterIds, Enabled, Written, Writes
<1>14. k = l
  <2>1. d.rules[k].id = d.rules[l].id
    BY <1>13, OneWriter
  <2>2. Writer(d.rules[k]) /\ Writer(d.rules[l])
    BY <1>2, <1>4 DEF Writer, Writes
  <2> QED BY <2>1, <2>2 DEF Separate
<1> QED BY <1>2, <1>4, <1>14

-----------------------------------------------------------------------------
(* ConfigIntake: the theorems. *)

Live == {"running", "replaced", "stuck"}

\* The document in hand is the one handed in, or what migration makes of it.
Handed ==
    /\ given \in Documents
    /\ doc = given \/ (given.schema = 1 /\ ~Refuses(given) /\ doc = Migrated(given))

\* A stage is reached only past the checks in front of it.
Passed ==
    /\ stage \in Live \cup {"accepted", "unbuilt"} /\ doc.schema = 2 => Vetted(doc)
    /\ stage \in Live => doc.schema = 2
    /\ stage = "unbuilt" => ~Builds(doc)
    /\ stage = "refused" => doc.schema = 1 /\ Refuses(doc)
    /\ stage = "rejected" => doc.schema = 2 /\ Rejects(doc)
    /\ stage = "stumbled" => doc.schema = 2 /\ CannotTell(doc)

Calm ==
    /\ stage \notin Live => outcome = "none" /\ wrote = {}
    /\ stage \in Live /\ Tidy(doc) => outcome \in {"none", "done"} /\ stage # "stuck"

Credited == \A w \in wrote : CreditedTo(doc, w)

IntakeInvariant == Handed /\ IntakeTypeOK /\ Passed /\ Calm /\ Credited

LEMMA DocumentShaped ==
    ASSUME Handed
    PROVE  Shaped(given) /\ Shaped(doc)
  BY IntakeAssumption, MigratedElements DEF Handed

LEMMA IntakeStarts ==
    ASSUME IntakeInit
    PROVE  IntakeInvariant
<1>1. Handed
  BY DEF IntakeInit, Handed
<1>2. given.schema \in {1, 2} /\ doc.schema \in {1, 2}
  BY <1>1, DocumentShaped DEF Shaped
<1> QED BY <1>1, <1>2
        DEF IntakeInit, Fresh, IntakeInvariant, IntakeTypeOK, Passed, Calm, Credited, Live

\* The steps up to the building of an engine.
LEMMA IntakeMigrates ==
    ASSUME IntakeInvariant, Migrate
    PROVE  IntakeInvariant'
<1>1. doc = given
  <2>1. given.schema = 1 => Migrated(given).schema = 2
    BY DocumentShaped, MigratedElements DEF IntakeInvariant
  <2> QED BY <2>1 DEF IntakeInvariant, Handed, Migrate
<1>2. Handed'
  BY <1>1 DEF IntakeInvariant, Handed, Migrate
<1>3. doc'.schema = 2
  BY <1>1, DocumentShaped, MigratedElements DEF IntakeInvariant, Migrate
<1>4. wrote' = {}
  BY DEF IntakeInvariant, Calm, Live, Migrate
<1> QED BY <1>2, <1>3, <1>4
        DEF IntakeInvariant, IntakeTypeOK, Passed, Calm, Credited, Live, Migrate

LEMMA IntakeDecides ==
    ASSUME IntakeInvariant, Refuse \/ Accept \/ Reject \/ Stumble
    PROVE  IntakeInvariant'
<1>1. /\ UNCHANGED <<given, doc, prev, outcome, wrote>> /\ stage = "given"
      /\ stage' \in {"refused", "accepted", "rejected", "stumbled"}
  BY DEF Refuse, Accept, Reject, Stumble, Goes
<1>2. Handed'
  BY <1>1 DEF IntakeInvariant, Handed
<1>3. stage' = "accepted" /\ doc.schema = 2 => Vetted(doc)
  <2>1. Shaped(doc)
    BY DocumentShaped DEF IntakeInvariant
  <2> QED BY <2>1 DEF Refuse, Accept, Reject, Stumble, Goes, Vetted, Rulewise
<1>4. Passed'
  BY <1>1, <1>3 DEF Passed, Live, Refuse, Accept, Reject, Stumble, Goes
<1>5. IntakeTypeOK'
  BY <1>1 DEF IntakeInvariant, IntakeTypeOK
<1>6. Calm' /\ Credited'
  BY <1>1 DEF IntakeInvariant, Calm, Credited, Live
<1> QED BY <1>2, <1>4, <1>5, <1>6 DEF IntakeInvariant

LEMMA IntakeBuilds ==
    ASSUME IntakeInvariant, Build \/ CannotBuild
    PROVE  IntakeInvariant'
<1>1. /\ UNCHANGED <<given, doc, outcome, wrote>> /\ stage = "accepted"
      /\ outcome = "none" /\ wrote = {}
  BY DEF Build, CannotBuild, Goes, IntakeInvariant, Calm, Live
<1>2. Handed'
  BY <1>1 DEF IntakeInvariant, Handed
<1>3. Passed'
  <2>1. doc.schema = 2 => Vetted(doc)
    BY <1>1 DEF IntakeInvariant, Passed
  <2>2. CASE Build
    BY <1>1, <2>1, <2>2 DEF Passed, Live, Build, Goes, Builds
  <2>3. CASE CannotBuild
    BY <1>1, <2>1, <2>3 DEF Passed, Live, CannotBuild, Goes
  <2> QED BY <2>2, <2>3
<1>4. IntakeTypeOK'
  <2>1. CASE Build
    <3>1. prev' \in [Ids(doc) -> Values \cup {Nothing}]
      BY <2>1 DEF Build
    <3>2. stage' = "running" /\ doc' = doc
      BY <2>1 DEF Build, Goes
    <3> QED BY <1>1, <3>1, <3>2 DEF IntakeInvariant, IntakeTypeOK
  <2>2. CASE CannotBuild
    BY <1>1, <2>2 DEF IntakeInvariant, IntakeTypeOK, CannotBuild, Goes
  <2> QED BY <2>1, <2>2
<1>5. Calm' /\ Credited'
  BY <1>1 DEF Calm, Credited, Live, Build, CannotBuild, Goes
<1> QED BY <1>2, <1>3, <1>4, <1>5 DEF IntakeInvariant

LEMMA IntakeCycles ==
    ASSUME IntakeInvariant, stage = "running",
           NEW readings \in [ToSet(Polled(doc)) -> Values \cup {Nothing}], Cycle(readings)
    PROVE  IntakeInvariant'
<1> DEFINE now == Results(doc, readings)
           script == Script(doc, now)
           performed == Performed(doc, script)
<1>1. Vetted(doc) /\ Rulewise(doc)
  BY DEF IntakeInvariant, Passed, Live, Vetted
<1>2. /\ outcome' = Ending(doc, performed)
      /\ prev' = IF outcome' = "done"
                 THEN [id \in Ids(doc) |-> IF Has(now, id) THEN now[id] ELSE prev[id]]
                 ELSE prev
      /\ wrote' = wrote \cup CoilWrites(doc, performed)
      /\ UNCHANGED <<given, doc, stage>>
  BY DEF Cycle
<1>3. DOMAIN now = PolledIds(doc) /\ \A id \in PolledIds(doc) : now[id] \in Values \cup {Nothing}
  BY <1>1, PolledPoint DEF Results
<1> HIDE DEF now
<1>4. IsSeq(script)
  BY <1>1, ScriptElements
<1>5. Handed'
  BY <1>2 DEF IntakeInvariant, Handed
<1>6. IntakeTypeOK'
  <2>1. outcome' \in {"done", "raised", "unwhitelisted"}
    <3> HIDE DEF script
    <3> QED BY <1>2, <1>4, EndingTyped
  <2>2. prev \in [Ids(doc) -> Values \cup {Nothing}]
    BY DEF IntakeInvariant, IntakeTypeOK
  <2>3. prev' \in [Ids(doc) -> Values \cup {Nothing}]
    <3>1. \A id \in Ids(doc) : (IF Has(now, id) THEN now[id] ELSE prev[id]) \in Values \cup {Nothing}
      BY <1>3, <2>2 DEF Has
    <3> HIDE DEF performed
    <3> QED BY <1>2, <2>2, <3>1
  <2> HIDE DEF performed
  <2> QED BY <1>2, <2>1, <2>3 DEF IntakeInvariant, IntakeTypeOK
<1>7. Passed'
  BY <1>2 DEF IntakeInvariant, Passed
<1>8. Calm'
  <2>1. Tidy(doc) => outcome' = "done"
    <3>1. Tidy(doc) => \A x \in ToSet(script) : Works(doc, x.act)
      BY <1>1, <1>3, TidyScriptWorks
    <3> HIDE DEF script
    <3> QED BY <1>2, <1>4, <3>1, EndingTyped
  <2> QED BY <1>2, <2>1 DEF Calm, Live
<1>9. Credited'
  <2>1. \A w \in CoilWrites(doc, performed) : CreditedTo(doc, w)
    BY <1>1, WritesAreCredited
  <2> HIDE DEF performed
  <2> QED BY <1>2, <2>1 DEF IntakeInvariant, Credited
<1> QED BY <1>5, <1>6, <1>7, <1>8, <1>9 DEF IntakeInvariant

LEMMA IntakeReplaces ==
    ASSUME IntakeInvariant, Replace
    PROVE  IntakeInvariant'
<1>1. /\ UNCHANGED <<given, doc, prev, outcome, wrote>> /\ stage = "running"
      /\ stage' = IF Walkable(doc) THEN "replaced" ELSE "stuck"
  BY DEF Replace
<1>2. Tidy(doc) => Walkable(doc)
  <2>1. IsSeq(doc.points)
    BY DocumentShaped DEF IntakeInvariant, Shaped
  <2> QED BY <2>1, TidyWalks
<1>3. Handed' /\ IntakeTypeOK' /\ Credited'
  BY <1>1 DEF IntakeInvariant, Handed, IntakeTypeOK, Credited
<1>4. Passed' /\ Calm'
  BY <1>1, <1>2 DEF IntakeInvariant, Passed, Calm, Live
<1> QED BY <1>3, <1>4 DEF IntakeInvariant

LEMMA IntakeInductive ==
    ASSUME IntakeInvariant, [IntakeNext]_intakeVars
    PROVE  IntakeInvariant'
<1>1. CASE UNCHANGED intakeVars
  BY <1>1 DEF intakeVars, IntakeInvariant, Handed, IntakeTypeOK, Passed, Calm, Credited
<1> QED BY <1>1, IntakeMigrates, IntakeDecides, IntakeBuilds, IntakeCycles, IntakeReplaces
        DEF IntakeNext

\* The running rule engine keeps a previous value, or none, for every point of its
\* document, whichever cycles it has skipped.
THEOREM IntakeTypeCorrect == IntakeSpec => []IntakeTypeOK
<1>1. IntakeInvariant => IntakeTypeOK
  BY DEF IntakeInvariant
<1> QED BY <1>1, IntakeStarts, IntakeInductive, PTL DEF IntakeSpec

\* Every document that validate_io accepts can be built, and if it is tidy no cycle
\* and no walk of its outputs ever raises: for all documents and all readings.
THEOREM WhatIsAcceptedRuns == IntakeSpec => []AcceptedRuns
<1>1. IntakeInvariant => AcceptedRuns
  <2> SUFFICES ASSUME IntakeInvariant PROVE AcceptedRuns
    OBVIOUS
  <2>1. stage = "unbuilt" => doc.schema = 1
    <3>1. doc.schema \in {1, 2}
      BY DocumentShaped DEF IntakeInvariant, Shaped
    <3> QED BY <3>1, VettedBuilds DEF IntakeInvariant, Passed
  <2>2. stage \in Live /\ Tidy(doc) => outcome \in {"none", "done"} /\ stage # "stuck"
    BY DEF IntakeInvariant, Calm
  <2> QED BY <2>1, <2>2 DEF AcceptedRuns, Live
<1> QED BY <1>1, IntakeStarts, IntakeInductive, PTL DEF IntakeSpec

\* No coil has two masters: the writes any two rules have made by any time, through
\* whichever names, units and slave_ids, went to different coils, under any accepted
\* document that keeps its writers, outputs and slaves separate.
THEOREM NoCoilHasTwoMasters == IntakeSpec => []OneMaster
<1>1. IntakeInvariant => OneMaster
  BY SeparateOneMaster DEF IntakeInvariant, Passed, Credited, OneMaster, Live
<1> QED BY <1>1, IntakeStarts, IntakeInductive, PTL DEF IntakeSpec

-----------------------------------------------------------------------------
(* ConfigIntake: what migration lets through. *)

LEMMA DistinctCount ==
    ASSUME NEW n \in Nat, NEW T, NEW f \in [1 .. n -> T],
           \A x \in T : \E k \in 1 .. n : f[k] = x, \A j, k \in 1 .. n : f[j] = f[k] => j = k
    PROVE  Cardinality(T) = n
<1>1. f \in Surjection(1 .. n, T) /\ f \in Injection(1 .. n, T)
  BY DEF Surjection, Injection, IsInjective
<1>2. IsFiniteSet(1 .. n) /\ Cardinality(1 .. n) = n
  BY FS_Interval
<1> QED BY <1>1, <1>2, FS_Surjection

\* A list without repetition is as long as the set of its elements.
LEMMA InjectiveLength ==
    ASSUME NEW s, IsSeq(s), IsInjective(s)
    PROVE  Cardinality(ToSet(s)) = Len(s)
<1>1. /\ Len(s) \in Nat /\ DOMAIN s = 1 .. Len(s) /\ s \in [1 .. Len(s) -> ToSet(s)]
      /\ ToSet(s) = {s[k] : k \in 1 .. Len(s)}
  BY SequenceElements
<1>2. \A j, k \in 1 .. Len(s) : s[j] = s[k] => j = k
  BY <1>1 DEF IsInjective
<1>3. \A x \in ToSet(s) : \E k \in 1 .. Len(s) : s[k] = x
  BY <1>1
<1> QED BY <1>1, <1>2, <1>3, DistinctCount

LEMMA DistinctIdsInjective ==
    ASSUME NEW d, IsSeq(d.points), DistinctIds(d)
    PROVE  /\ IsInjective(d.points)
           /\ \A j, k \in 1 .. Len(d.points) : d.points[j].id = d.points[k].id => j = k
<1> DEFINE n == Len(d.points)
           f == [k \in 1 .. n |-> d.points[k].id]
<1>1. /\ n \in Nat /\ DOMAIN d.points = 1 .. n
      /\ ToSet(d.points) = {d.points[k] : k \in 1 .. n}
  BY SequenceElements
<1>2. Cardinality(Ids(d)) = n
  BY DEF DistinctIds
<1>3. f \in [1 .. n -> Ids(d)] /\ \A x \in Ids(d) : \E k \in 1 .. n : f[k] = x
  BY <1>1 DEF Ids
<1>4. \A j, k \in 1 .. n : f[j] = f[k] => j = k
  <2> HIDE DEF f, n
  <2> QED BY <1>1, <1>2, <1>3, DistinctValues
<1> QED BY <1>1, <1>4 DEF IsInjective

\* A document of version 1 that is migrated.
Migratable(d) == Shaped(d) /\ d.schema = 1 /\ DistinctIds(d) /\ ~Refuses(d)

LEMMA MigratableTyped ==
    ASSUME NEW d, Shaped(d), d.schema = 1, DistinctIds(d)
    PROVE  /\ IsSeq(d.points) /\ IsSeq(d.devices) /\ IsInjective(d.points)
           /\ Rulewise(Migrated(d)) /\ DistinctIds(Migrated(d))
           /\ Ids(Migrated(d)) = Ids(d) /\ Units(Migrated(d)) = Units(d)
           /\ IsSeq(Migrated(d).points) /\ IsInjective(Migrated(d).points)
<1>1. IsSeq(d.points) /\ IsSeq(d.devices)
  BY DEF Shaped
<1>2. Rulewise(Migrated(d))
  BY MigratedElements DEF Rulewise
<1>3. Units(Migrated(d)) = Units(d)
  BY MigratedElements DEF Units
<1>4. Ids(Migrated(d)) = Ids(d)
  <2>1. \A p : MigratedPoint(p, d.interval).id = p.id
    BY DEF MigratedPoint
  <2>2. \A q : q \in ToSet(Migrated(d).points) <=>
          \E p \in ToSet(d.points) : q = MigratedPoint(p, d.interval)
    BY MigratedElements
  <2>3. \A i : (\E q \in ToSet(Migrated(d).points) : q.id = i)
                 <=> \E p \in ToSet(d.points) : p.id = i
    BY <2>1, <2>2
  <2> QED BY <2>3 DEF Ids
<1>5. DistinctIds(Migrated(d))
  BY <1>4, MigratedElements DEF DistinctIds
<1>6. IsSeq(Migrated(d).points)
  BY <1>2 DEF Rulewise, Shaped
<1> QED BY <1>1, <1>2, <1>3, <1>4, <1>5, <1>6, DistinctIdsInjective

\* A button that is not refused has one lamp, and its rule is there and writes it.
Lamp(d, b) == Siblings(d, b)[1]

LEMMA ButtonHasALamp ==
    ASSUME NEW d, Migratable(d), NEW b \in ToSet(OfKind(d, "digital_in"))
    PROVE  /\ ToSet(Siblings(d, b)) = {Lamp(d, b)}
           /\ Lamp(d, b) \in ToSet(d.points)
           /\ Lamp(d, b).kind = "digital_out" /\ Lamp(d, b).unit = b.unit
<1>1. IsSeq(d.points)
  BY MigratableTyped DEF Migratable
<1>2. Len(Siblings(d, b)) = 1
  BY DEF Migratable, Refuses
<1>3. IsSeq(Siblings(d, b))
  BY <1>1, SiblingsElements
<1>4. ToSet(Siblings(d, b)) = {Lamp(d, b)}
  <2>1. ToSet(Siblings(d, b)) = {Siblings(d, b)[k] : k \in 1 .. 1}
    BY <1>2, <1>3, SequenceElements
  <2> QED BY <2>1 DEF Lamp
<1> QED BY <1>1, <1>4, SiblingsElements

LEMMA ButtonRuleWrites ==
    ASSUME NEW d, Migratable(d), NEW b \in ToSet(OfKind(d, "digital_in"))
    PROVE  b.id \in WriterIds(Migrated(d), Lamp(d, b).id)
<1> DEFINE r == ButtonRule(d, b)
           a == [action |-> "pulse", point |-> Lamp(d, b).id, ms |-> 500]
<1>1. r \in ToSet(Migrated(d).rules)
  BY MigratableTyped, MigratedElements, SynthesizedElements DEF Migratable
<1>2. r.enabled = TRUE /\ r.id = b.id
  BY DEF ButtonRule
<1>3. a \in ToSet(r.then)
  BY DEF ButtonRule, ToSet, Lamp
<1> HIDE DEF r
<1>4. a \in Actions(r)
  BY <1>1, <1>3, MigratableTyped, RulewiseElements DEF Migratable
<1>5. Lamp(d, b).id \in Written(r)
  BY <1>4 DEF Written, Writing, Has
<1> QED BY <1>1, <1>2, <1>5 DEF WriterIds, Enabled

\* What the rules of a migrated document do: a button pulses its lamp, else they log.
PulseOfLamp(d, b) == [action |-> "pulse", point |-> Lamp(d, b).id, ms |-> 500]
Logs(a) == \E e : a = [action |-> "log_event", event_type |-> e]

LEMMA MigratedActions ==
    ASSUME NEW d, Migratable(d), NEW r \in ToSet(Migrated(d).rules), NEW a \in Actions(r)
    PROVE  \/ Logs(a)
           \/ \E b \in ToSet(OfKind(d, "digital_in")) :
                r = ButtonRule(d, b) /\ a = PulseOfLamp(d, b)
<1>1. a \in ToSet(r.then) \cup ToSet(r.else)
  BY MigratableTyped, RulewiseElements DEF Migratable
<1>2. CASE \E b \in ToSet(OfKind(d, "digital_in")) : r = ButtonRule(d, b)
  <2>1. PICK b \in ToSet(OfKind(d, "digital_in")) : r = ButtonRule(d, b)
    BY <1>2
  <2>2. /\ r.else = <<>>
        /\ r.then = <<PulseOfLamp(d, b),
                      [action |-> "log_event", event_type |-> "maintenance_request"]>>
    BY <2>1 DEF ButtonRule, PulseOfLamp, Lamp
  <2>3. a = PulseOfLamp(d, b) \/ Logs(a)
    BY <1>1, <2>2 DEF ToSet, Logs
  <2> QED BY <2>1, <2>3
<1>3. CASE \E g \in ToSet(OfKind(d, "register")) : r = FaultRule(g)
  <2>1. PICK g \in ToSet(OfKind(d, "register")) : r = FaultRule(g)
    BY <1>3
  <2>2. /\ r.else = <<>>
        /\ r.then = <<[action |-> "log_event", event_type |-> "machine_fault"]>>
    BY <2>1 DEF FaultRule
  <2> QED BY <1>1, <2>2 DEF ToSet, Logs
<1> QED BY <1>2, <1>3, MigratableTyped, MigratedElements, SynthesizedElements DEF Migratable

\* The writers of a point are the rules of the buttons whose lamp it is.
LEMMA MigratedWriters ==
    ASSUME NEW d, Migratable(d), NEW id, NEW x \in WriterIds(Migrated(d), id)
    PROVE  \E b \in ToSet(OfKind(d, "digital_in")) :
             x = b.id /\ id = Lamp(d, b).id
<1>1. PICK r \in Enabled(Migrated(d)) : id \in Written(r) /\ x = r.id
  BY DEF WriterIds
<1>2. PICK a \in Actions(r) : Writing(a) /\ a.point = id
  BY <1>1 DEF Written
<1>3. ~Logs(a)
  BY <1>2 DEF Logs, Writing
<1>4. PICK b \in ToSet(OfKind(d, "digital_in")) : r = ButtonRule(d, b) /\ a = PulseOfLamp(d, b)
  BY <1>1, <1>3, MigratedActions DEF Enabled
<1> QED BY <1>1, <1>2, <1>4 DEF ButtonRule, PulseOfLamp

LEMMA MigratedCanTell ==
    ASSUME NEW d, Migratable(d)
    PROVE  ~CannotTell(Migrated(d))
<1> SUFFICES ASSUME NEW r \in Enabled(Migrated(d)), NEW a \in Actions(r), Writing(a)
             PROVE  Has(a, "point")
  BY DEF CannotTell
<1>1. ~Logs(a)
  BY DEF Logs, Writing
<1>2. PICK b : a = PulseOfLamp(d, b)
  BY <1>1, MigratedActions DEF Enabled
<1> QED BY <1>2 DEF PulseOfLamp, Has

\* With one output to a unit and address it is one point.
LEMMA OutputsApart ==
    ASSUME NEW d, Migratable(d), ~Aliased(Migrated(d)),
           NEW p \in ToSet(d.points), NEW q \in ToSet(d.points),
           p.kind = "digital_out", q.kind = "digital_out", p.unit = q.unit, p.addr = q.addr
    PROVE  p = q
<1> DEFINE outputs == OfKind(Migrated(d), "digital_out")
           mp == MigratedPoint(p, d.interval)
           mq == MigratedPoint(q, d.interval)
<1>1. /\ mp.id = p.id /\ mp.kind = p.kind /\ mp.unit = p.unit /\ mp.addr = p.addr
      /\ mq.id = q.id /\ mq.kind = q.kind /\ mq.unit = q.unit /\ mq.addr = q.addr
  BY DEF MigratedPoint
<1>2. mp \in ToSet(Migrated(d).points) /\ mq \in ToSet(Migrated(d).points)
  BY MigratedElements DEF Migratable
<1> HIDE DEF mp, mq
<1>3. mp \in ToSet(outputs) /\ mq \in ToSet(outputs)
  BY <1>1, <1>2, MigratableTyped, OfKindElements DEF Migratable
<1>4. \A i, j \in DOMAIN outputs :
        outputs[i].unit = outputs[j].unit /\ outputs[i].addr = outputs[j].addr => i = j
  BY DEF Aliased
<1> HIDE DEF outputs
<1>5. PICK i, j \in DOMAIN outputs : mp = outputs[i] /\ mq = outputs[j]
  BY <1>3 DEF ToSet
<1>6. p.id = q.id
  BY <1>1, <1>4, <1>5
<1> QED BY <1>6, MigratableTyped, OnePointToAnId DEF Migratable

\* A vetted migration comes from a document of the topology.
LEMMA VettedTopology ==
    ASSUME NEW d, Migratable(d), Vetted(Migrated(d))
    PROVE  Topology(d)
<1> DEFINE m == Migrated(d)
<1>1. IsSeq(d.points) /\ IsSeq(d.devices) /\ DistinctIds(d)
  BY MigratableTyped DEF Migratable
<1>2. \A j, k \in DOMAIN d.devices : d.devices[j].unit = d.devices[k].unit => j = k
  <2> DEFINE n == Len(d.devices)
             f == [k \in 1 .. n |-> d.devices[k].unit]
  <2>1. /\ n \in Nat /\ DOMAIN d.devices = 1 .. n
        /\ ToSet(d.devices) = {d.devices[k] : k \in 1 .. n}
    BY <1>1, SequenceElements
  <2>2. n \in Nat
    BY <2>1
  <2>3. Cardinality(Units(d)) = n
    BY MigratableTyped, MigratedElements DEF Vetted, Rejects, Ambiguous, Migratable
  <2>4. f \in [1 .. n -> Units(d)] /\ \A x \in Units(d) : \E k \in 1 .. n : f[k] = x
    BY <2>1 DEF Units
  <2>5. \A j, k \in 1 .. n : f[j] = f[k] => j = k
    <3> HIDE DEF f, n
    <3> QED BY <2>2, <2>3, <2>4, DistinctValues
  <2> QED BY <2>1, <2>5
<1>3. ASSUME NEW p \in ToSet(d.points)
      PROVE  p.unit \in Units(d)
  <2>1. MigratedPoint(p, d.interval) \in ToSet(m.points) /\ Units(m) = Units(d)
    BY MigratableTyped, MigratedElements DEF Migratable
  <2>2. MigratedPoint(p, d.interval).unit \in Units(m)
    BY <2>1 DEF Vetted, Rejects, Unattached
  <2> QED BY <2>1, <2>2 DEF MigratedPoint
<1>4. ASSUME NEW b \in ToSet(OfKind(d, "digital_in"))
      PROVE  /\ {p \in ToSet(OfKind(d, "digital_in")) : p.unit = b.unit} = {b}
             /\ {p \in ToSet(OfKind(d, "digital_out")) : p.unit = b.unit} = {Lamp(d, b)}
  <2>1. {p \in ToSet(OfKind(d, "digital_out")) : p.unit = b.unit} = ToSet(Siblings(d, b))
    BY <1>1, OfKindElements, SiblingsElements
  <2>2. ASSUME NEW c \in ToSet(OfKind(d, "digital_in")), c.unit = b.unit
        PROVE  c = b
    <3>1. Lamp(d, c) = Lamp(d, b)
      BY <2>2 DEF Lamp, Siblings
    <3>2. /\ b.id \in WriterIds(m, Lamp(d, b).id)
          /\ c.id \in WriterIds(m, Lamp(d, b).id)
      BY <3>1, ButtonRuleWrites
    <3>3. b.id = c.id
      BY <3>2, OneWriter
    <3>4. b \in ToSet(d.points) /\ c \in ToSet(d.points) /\ b.id = c.id
      BY <1>1, <3>3, OfKindElements
    <3> QED BY <1>1, <3>4, OnePointToAnId
  <2> QED BY <2>1, <2>2, ButtonHasALamp
<1>5. ASSUME NEW b \in ToSet(OfKind(d, "digital_in")), NEW kind \in {"digital_in", "digital_out"}
      PROVE  Cardinality({p \in ToSet(OfKind(d, kind)) : p.unit = b.unit}) = 1
  <2>1. \E x : {p \in ToSet(OfKind(d, kind)) : p.unit = b.unit} = {x}
    BY <1>4
  <2> QED BY <2>1, FS_Singleton
<1>6. \A p, q \in ToSet(OfKind(d, "digital_out")) : p.unit = q.unit /\ p.addr = q.addr => p = q
  BY <1>1, OfKindElements, OutputsApart DEF Vetted, Rejects
<1> QED BY <1>2, <1>3, <1>5, <1>6 DEF Topology

\* Of the rules that write each has an id of its own: they are the buttons' rules.  A
\* register's rule may have the id of one of them.
LEMMA SynthesizedApart ==
    ASSUME NEW d, Migratable(d),
           NEW j \in DOMAIN SynthesizedRules(d), NEW k \in DOMAIN SynthesizedRules(d),
           SynthesizedRules(d)[j].id = SynthesizedRules(d)[k].id,
           Writer(SynthesizedRules(d)[j]), Writer(SynthesizedRules(d)[k])
    PROVE  j = k
<1> DEFINE buttons == OfKind(d, "digital_in")
           registers == OfKind(d, "register")
           R == ToSet(SynthesizedRules(d))
           bs == [i \in DOMAIN buttons |-> ButtonRule(d, buttons[i])]
           fs == [i \in DOMAIN registers |-> FaultRule(registers[i])]
<1>1. IsSeq(d.points) /\ DistinctIds(d)
  BY MigratableTyped DEF Migratable
<1>2. /\ IsSeq(buttons) /\ IsInjective(buttons) /\ ToSet(buttons) \subseteq ToSet(d.points)
      /\ IsSeq(registers)
  BY <1>1, OfKindElements, DistinctIdsInjective
<1>3. ASSUME NEW g \in ToSet(registers)
      PROVE  ~Writer(FaultRule(g))
  <2> DEFINE r == FaultRule(g)
  <2>1. r \in ToSet(Migrated(d).rules)
    BY <1>1, SynthesizedElements, MigratedElements DEF Migratable
  <2>2. r.else = <<>> /\ r.then = <<[action |-> "log_event", event_type |-> "machine_fault"]>>
    BY DEF FaultRule
  <2> HIDE DEF r
  <2>3. ASSUME NEW a \in Actions(r)
        PROVE  ~Writing(a)
    <3>1. a \in ToSet(r.then) \cup ToSet(r.else)
      BY <2>1, MigratableTyped, RulewiseElements DEF Migratable
    <3> QED BY <2>2, <3>1 DEF ToSet, Writing
  <2>4. ~Writer(r)
    BY <2>3 DEF Writer
  <2> QED BY <2>4 DEF r
<1>4. SynthesizedRules(d) = bs \o fs
  BY DEF SynthesizedRules
<1> HIDE DEF buttons, registers
<1>5. /\ Len(buttons) \in Nat /\ DOMAIN buttons = 1 .. Len(buttons)
      /\ ToSet(buttons) = {buttons[i] : i \in 1 .. Len(buttons)}
  BY <1>2, SequenceElements
<1>6. /\ Len(registers) \in Nat /\ DOMAIN registers = 1 .. Len(registers)
      /\ ToSet(registers) = {registers[i] : i \in 1 .. Len(registers)}
  BY <1>2, SequenceElements
<1> DEFINE B == {ButtonRule(d, b) : b \in ToSet(buttons)}
           F == {FaultRule(g) : g \in ToSet(registers)}
<1>7. /\ bs \in [1 .. Len(buttons) -> B] /\ fs \in [1 .. Len(registers) -> F]
      /\ \A i \in 1 .. Len(buttons) : bs[i] = ButtonRule(d, buttons[i])
      /\ \A r \in F : ~Writer(r)
  BY <1>3, <1>5, <1>6
<1> HIDE DEF bs, fs, B, F
<1>8. /\ bs \in Seq(B \cup F) /\ Len(bs) = Len(buttons)
      /\ fs \in Seq(B \cup F) /\ Len(fs) = Len(registers)
  <2>1. /\ bs \in [1 .. Len(buttons) -> B \cup F] /\ fs \in [1 .. Len(registers) -> B \cup F]
    BY <1>7
  <2> QED BY <1>5, <1>6, <2>1, SeqOfFunction
<1>9. ASSUME NEW i \in DOMAIN SynthesizedRules(d), Writer(SynthesizedRules(d)[i])
      PROVE  i \in 1 .. Len(buttons) /\ SynthesizedRules(d)[i].id = buttons[i].id
  <2> DEFINE u == bs \o fs
  <2>1. u \in Seq(B \cup F) /\ Len(u) = Len(bs) + Len(fs)
    BY <1>8, ConcatProperties
  <2>2. /\ \A n \in 1 .. Len(bs) + Len(fs) :
              u[n] = IF n <= Len(bs) THEN bs[n] ELSE fs[n - Len(bs)]
    BY <1>8, ConcatProperties
  <2>3. i \in 1 .. Len(bs) + Len(fs) /\ u[i] = SynthesizedRules(d)[i]
    <3>1. DOMAIN u = 1 .. Len(u)
      BY <2>1, LenProperties
    <3> QED BY <1>4, <2>1, <3>1
  <2> HIDE DEF u
  <2>4. CASE i <= Len(bs)
    <3>1. i \in 1 .. Len(buttons) /\ SynthesizedRules(d)[i] = ButtonRule(d, buttons[i])
      BY <1>5, <1>7, <1>8, <2>2, <2>3, <2>4
    <3> QED BY <3>1 DEF ButtonRule
  <2>5. CASE ~(i <= Len(bs))
    <3>1. i - Len(bs) \in 1 .. Len(registers) /\ SynthesizedRules(d)[i] = fs[i - Len(bs)]
      BY <1>5, <1>6, <1>8, <2>2, <2>3, <2>5
    <3>2. SynthesizedRules(d)[i] \in F
      BY <1>7, <3>1
    <3> QED BY <1>7, <1>9, <3>2
  <2> QED BY <2>4, <2>5
<1>10. /\ j \in 1 .. Len(buttons) /\ k \in 1 .. Len(buttons)
       /\ buttons[j].id = buttons[k].id
  BY <1>9
<1>11. buttons[j] = buttons[k]
  <2>1. buttons[j] \in ToSet(d.points) /\ buttons[k] \in ToSet(d.points)
    BY <1>2, <1>5, <1>10
  <2> QED BY <1>1, <1>10, <2>1, OnePointToAnId
<1> QED BY <1>2, <1>5, <1>10, <1>11 DEF IsInjective

LEMMA MigratedTidy ==
    ASSUME NEW d, Migratable(d), Topology(d)
    PROVE  Tidy(Migrated(d))
<1> DEFINE m == Migrated(d)
<1>1. /\ IsSeq(d.points) /\ IsSeq(d.devices) /\ DistinctIds(d)
      /\ Rulewise(m) /\ DistinctIds(m) /\ IsSeq(m.points)
  BY MigratableTyped DEF Migratable
<1>2. /\ m.transport = "rtu" /\ m.devices = d.devices /\ m.rules = SynthesizedRules(d)
      /\ \A q : q \in ToSet(m.points) <=>
           \E p \in ToSet(d.points) : q = MigratedPoint(p, d.interval)
  BY MigratedElements DEF Migratable
<1>3. \A j, k \in DOMAIN m.rules :
        (/\ m.rules[j].id = m.rules[k].id
         /\ Writer(m.rules[j]) /\ Writer(m.rules[k])) => j = k
  BY <1>2, SynthesizedApart
<1>4. ASSUME NEW q \in ToSet(m.points)
      PROVE  q.count = 1 /\ (q.kind = "digital_out" <=> q.fn = "write_coil")
  <2>1. PICK p \in ToSet(d.points) : q = MigratedPoint(p, d.interval)
    BY <1>2
  <2>2. p.kind \in {"digital_in", "digital_out", "register"}
    BY DEF Migratable, Shaped
  <2>3. q.count = 1 /\ q.kind = p.kind /\ q.fn = Function[p.kind]
    BY <2>1 DEF MigratedPoint
  <2>4. /\ Function["digital_in"] # "write_coil" /\ Function["digital_out"] = "write_coil"
        /\ Function["register"] # "write_coil"
    BY DEF Function
  <2> QED BY <2>2, <2>3, <2>4
<1>5. ASSUME NEW r \in ToSet(m.rules), NEW a \in Actions(r)
      PROVE  /\ Has(a, "action") /\ a.action \in {"set", "pulse", "log_event"}
             /\ a.action = "set" => Has(a, "value")
             /\ a.action = "pulse" => Has(a, "ms")
             /\ a.action = "log_event" => Has(a, "event_type")
             /\ Writing(a) /\ a.point \in Ids(m) => LastOf(m.points, a.point).kind = "digital_out"
  <2>1. CASE Logs(a)
    BY <2>1 DEF Logs, Has, Writing
  <2>2. ASSUME NEW b \in ToSet(OfKind(d, "digital_in")), a = PulseOfLamp(d, b)
        PROVE  /\ a.action = "pulse" /\ Has(a, "action") /\ Has(a, "ms")
               /\ LastOf(m.points, a.point).kind = "digital_out"
    <3> DEFINE q == MigratedPoint(Lamp(d, b), d.interval)
    <3>1. q \in ToSet(m.points) /\ q.id = a.point /\ q.kind = "digital_out"
      BY <1>2, <2>2, ButtonHasALamp DEF MigratedPoint, PulseOfLamp
    <3> HIDE DEF q, m
    <3>2. LastOf(m.points, a.point) = q
      BY <1>1, <3>1, OnePointToAnId
    <3> QED BY <2>2, <3>1, <3>2 DEF PulseOfLamp, Has
  <2> QED BY <2>1, <2>2, MigratedActions
<1>6. Cardinality({<<Line(m, e), Slave(e)>> : e \in ToSet(m.devices)}) = Len(m.devices)
  <2> DEFINE n == Len(d.devices)
             T == {<<Line(m, e), Slave(e)>> : e \in ToSet(d.devices)}
             f == [k \in 1 .. n |-> <<Line(m, d.devices[k]), Slave(d.devices[k])>>]
  <2>1. /\ n \in Nat /\ DOMAIN d.devices = 1 .. n
        /\ ToSet(d.devices) = {d.devices[k] : k \in 1 .. n}
    BY <1>1, SequenceElements
  <2>2. n \in Nat
    BY <2>1
  <2>3. f \in [1 .. n -> T] /\ \A x \in T : \E k \in 1 .. n : f[k] = x
    BY <2>1
  <2>4. \A e \in ToSet(d.devices) : Slave(e) = e.unit
    BY DEF Migratable, Shaped, Slave
  <2>5. \A j, k \in 1 .. n : f[j] = f[k] => j = k
    <3>1. \A j, k \in 1 .. n : d.devices[j].unit = d.devices[k].unit => j = k
      BY <2>1 DEF Topology
    <3> QED BY <2>1, <2>4, <3>1
  <2>6. Cardinality(T) = n
    <3> HIDE DEF f, T, n
    <3> QED BY <2>2, <2>3, <2>5, DistinctCount
  <2> QED BY <1>2, <2>6
<1> HIDE DEF m
<1>7. Separate(m)
  BY <1>3, <1>4, <1>6 DEF Separate
<1>8. Tidy(m)
  BY <1>1, <1>4, <1>5, <1>7 DEF Tidy
<1> QED BY <1>8 DEF m

\* A document of the topology is not refused ...
LEMMA TopologyIsMigrated ==
    ASSUME NEW d, Shaped(d), d.schema = 1, DistinctIds(d), Topology(d)
    PROVE  Migratable(d)
<1> SUFFICES ASSUME NEW b \in ToSet(OfKind(d, "digital_in"))
             PROVE  Len(Siblings(d, b)) = 1
  BY DEF Migratable, Refuses
<1>1. IsSeq(d.points) /\ IsInjective(d.points)
  BY MigratableTyped
<1>2. Cardinality({p \in ToSet(OfKind(d, "digital_out")) : p.unit = b.unit}) = 1
  BY DEF Topology
<1>3. {p \in ToSet(OfKind(d, "digital_out")) : p.unit = b.unit} = ToSet(Siblings(d, b))
  BY <1>1, OfKindElements, SiblingsElements
<1>4. IsSeq(Siblings(d, b)) /\ IsInjective(Siblings(d, b))
  BY <1>1, SiblingsElements
<1> QED BY <1>2, <1>3, <1>4, InjectiveLength

\* ... and what it migrates to is not rejected.
LEMMA TopologyIsAccepted ==
    ASSUME NEW d, Migratable(d), Topology(d)
    PROVE  ~Rejects(Migrated(d))
<1> DEFINE m == Migrated(d)
<1>1. /\ IsSeq(d.points) /\ IsSeq(d.devices) /\ DistinctIds(d)
      /\ Rulewise(m) /\ DistinctIds(m) /\ Ids(m) = Ids(d) /\ Units(m) = Units(d)
      /\ IsSeq(m.points) /\ IsInjective(m.points)
  BY MigratableTyped DEF Migratable
<1>2. /\ m.transport = "rtu" /\ m.devices = d.devices /\ m.rules = SynthesizedRules(d)
      /\ \A q : q \in ToSet(m.points) <=>
           \E p \in ToSet(d.points) : q = MigratedPoint(p, d.interval)
  BY MigratedElements DEF Migratable
<1>3. ~TooManyConditions(m)
  <2>1. \A r \in ToSet(m.rules) : Len(r.when) = 1
    BY <1>1, <1>2, SynthesizedTyped
  <2>2. ASSUME NEW r \in ToSet(m.rules)
        PROVE  ~(Len(r.when) > 1)
    <3>1. Len(r.when) = 1
      BY <2>1
    <3> QED BY <3>1
  <2> QED BY <2>2, Zenon DEF TooManyConditions
<1>4. ~Reserved(m)
  <2>1. \A q \in ToSet(m.points) : q.kind # "analog_in"
    BY <1>2 DEF MigratedPoint, Migratable, Shaped
  <2>2. IsSeq(OfKind(m, "analog_in")) /\ ToSet(OfKind(m, "analog_in")) = {}
    BY <1>1, <2>1, OfKindElements
  <2>3. OfKind(m, "analog_in") = <<>>
    BY <2>2 DEF IsSeq
  <2> QED BY <2>3 DEF Reserved
<1>5. ~Dangling(m)
  <2>1. ASSUME NEW r \in ToSet(m.rules), NEW c \in ToSet(r.when)
        PROVE  c.point \in Ids(d)
    <3>1. CASE \E b \in ToSet(OfKind(d, "digital_in")) : r = ButtonRule(d, b)
      <4>1. PICK b \in ToSet(OfKind(d, "digital_in")) : r = ButtonRule(d, b)
        BY <3>1
      <4>2. c = [point |-> b.id, op |-> "rising"]
        BY <4>1, <2>1 DEF ButtonRule, ToSet
      <4> QED BY <1>1, <4>2, OfKindElements DEF Ids
    <3>2. CASE \E g \in ToSet(OfKind(d, "register")) : r = FaultRule(g)
      <4>1. PICK g \in ToSet(OfKind(d, "register")) : r = FaultRule(g)
        BY <3>2
      <4>2. c = [point |-> g.id, op |-> ">", value |-> 0]
        BY <4>1, <2>1 DEF FaultRule, ToSet
      <4> QED BY <1>1, <4>2, OfKindElements DEF Ids
    <3> QED BY <1>1, <1>2, <3>1, <3>2, SynthesizedElements
  <2>2. ASSUME NEW r \in ToSet(m.rules), NEW a \in Actions(r), Has(a, "point")
        PROVE  a.point \in Ids(d)
    <3>1. ~Logs(a)
      BY <2>2 DEF Logs, Has
    <3>2. PICK b \in ToSet(OfKind(d, "digital_in")) : a = PulseOfLamp(d, b)
      BY <3>1, MigratedActions
    <3> QED BY <3>2, ButtonHasALamp DEF PulseOfLamp, Ids
  <2> QED BY <1>1, <2>1, <2>2 DEF Dangling
<1>6. ~Contended(m)
  <2> SUFFICES ASSUME NEW id PROVE ~(Cardinality(WriterIds(m, id)) > 1)
    BY DEF Contended
  <2>1. ASSUME NEW x \in WriterIds(m, id), NEW y \in WriterIds(m, id)
        PROVE  x = y
    <3>1. PICK b \in ToSet(OfKind(d, "digital_in")) : x = b.id /\ id = Lamp(d, b).id
      BY MigratedWriters
    <3>2. PICK c \in ToSet(OfKind(d, "digital_in")) : y = c.id /\ id = Lamp(d, c).id
      BY MigratedWriters
    <3>3. Lamp(d, b) = Lamp(d, c)
      <4>1. Lamp(d, b) \in ToSet(d.points) /\ Lamp(d, c) \in ToSet(d.points)
        BY ButtonHasALamp
      <4> QED BY <1>1, <3>1, <3>2, <4>1, OnePointToAnId
    <3>4. b.unit = c.unit
      BY <3>3, ButtonHasALamp
    <3> DEFINE same == {p \in ToSet(OfKind(d, "digital_in")) : p.unit = b.unit}
    <3>5. Cardinality(same) = 1
      BY DEF Topology
    <3>6. IsFiniteSet(same)
      <4>1. IsFiniteSet(ToSet(OfKind(d, "digital_in")))
        BY <1>1, OfKindElements, FiniteElements
      <4> QED BY <4>1, FS_Subset
    <3>7. b = c
      <4>1. b \in same /\ c \in same
        BY <3>4
      <4> HIDE DEF same
      <4> QED BY <3>5, <3>6, <4>1, AtMostOne
    <3> QED BY <3>1, <3>2, <3>7
  <2>2. WriterIds(m, id) = {} \/ \E x : WriterIds(m, id) = {x}
    BY <2>1
  <2>3. Cardinality(WriterIds(m, id)) \in {0, 1}
    <3>1. CASE WriterIds(m, id) = {}
      BY <3>1, FS_EmptySet
    <3>2. CASE \E x : WriterIds(m, id) = {x}
      BY <3>2, FS_Singleton
    <3> QED BY <2>2, <3>1, <3>2
  <2> QED BY <2>3
<1>7. ~Ambiguous(m)
  <2> DEFINE n == Len(d.devices)
             f == [k \in 1 .. n |-> d.devices[k].unit]
  <2>1. /\ n \in Nat /\ DOMAIN d.devices = 1 .. n
        /\ ToSet(d.devices) = {d.devices[k] : k \in 1 .. n}
    BY <1>1, SequenceElements
  <2>2. n \in Nat
    BY <2>1
  <2>3. f \in [1 .. n -> Units(d)] /\ \A x \in Units(d) : \E k \in 1 .. n : f[k] = x
    BY <2>1 DEF Units
  <2>4. \A j, k \in 1 .. n : f[j] = f[k] => j = k
    BY <2>1 DEF Topology
  <2>5. Cardinality(Units(d)) = n
    <3> HIDE DEF f, n
    <3> QED BY <2>2, <2>3, <2>4, DistinctCount
  <2> QED BY <1>1, <1>2, <2>5 DEF Ambiguous
<1>8. ~Unattached(m)
  BY <1>1, <1>2 DEF Unattached, Topology, MigratedPoint
<1>9. ~Aliased(m)
  <2> DEFINE outputs == OfKind(m, "digital_out")
  <2>1. /\ IsInjective(outputs)
        /\ ToSet(outputs) = {q \in ToSet(m.points) : q.kind = "digital_out"}
    BY <1>1, OfKindElements
  <2>2. ASSUME NEW x \in ToSet(outputs), NEW y \in ToSet(outputs), x.unit = y.unit, x.addr = y.addr
        PROVE  x = y
    <3>1. PICK p \in ToSet(d.points) : x = MigratedPoint(p, d.interval)
      BY <1>2, <2>1
    <3>2. PICK q \in ToSet(d.points) : y = MigratedPoint(q, d.interval)
      BY <1>2, <2>1
    <3>3. /\ p.kind = "digital_out" /\ q.kind = "digital_out"
          /\ p.unit = q.unit /\ p.addr = q.addr
      BY <2>1, <2>2, <3>1, <3>2 DEF MigratedPoint
    <3>4. p = q
      BY <1>1, <3>3, OfKindElements DEF Topology
    <3> QED BY <3>1, <3>2, <3>4
  <2> HIDE DEF outputs
  <2>3. \A j, k \in DOMAIN outputs :
          outputs[j].unit = outputs[k].unit /\ outputs[j].addr = outputs[k].addr => j = k
    BY <2>1, <2>2 DEF IsInjective, ToSet
  <2> QED BY <2>3 DEF Aliased, outputs
<1>10. ~Unhosted(m)
  BY <1>2 DEF Unhosted
<1> QED BY <1>3, <1>4, <1>5, <1>6, <1>7, <1>8, <1>9, <1>10 DEF Rejects

LEMMA WholeMultiple ==
    ASSUME NEW a \in Nat, NEW b \in Nat \ {0}
    PROVE  (a * b) \div b = a
  OBVIOUS

\* debounce.py:30 divides by what the migration has multiplied with.
LEMMA MigratedDebounces ==
    ASSUME Migratable(given), doc = Migrated(given)
    PROVE  DebounceKept
<1> SUFFICES ASSUME NEW k \in DOMAIN given.points, given.points[k].kind = "digital_in"
             PROVE  doc.points[k].debounce \div doc.interval = Reads(given.points[k])
  BY DEF DebounceKept
<1>1. /\ k \in 1 .. Len(given.points) /\ given.points[k] \in ToSet(given.points)
      /\ given.interval \in Nat \ {0}
  BY SequenceElements DEF Migratable, Shaped
<1>2. doc.points[k].debounce = Reads(given.points[k]) * given.interval
  <2>1. doc.points[k] = MigratedPoint(given.points[k], given.interval)
    BY <1>1, MigratedElements DEF Migratable
  <2> QED BY <2>1 DEF MigratedPoint, DebounceMs
<1>3. doc.interval = given.interval
  BY MigratedElements DEF Migratable
<1>4. Reads(given.points[k]) \in Nat
  BY <1>1 DEF Migratable, Shaped, Reads
<1> QED BY <1>1, <1>2, <1>3, <1>4, WholeMultiple

\* Migration and validation let through the documents of the topology and no others,
\* and make each of them tidy, with its debounce as it was: for all legacy documents.
THEOREM ExactlyTheTopologyMigrates == IntakeSpec => []MigratesExactly
<1>1. IntakeInvariant => MigratesExactly
  <2> SUFFICES ASSUME IntakeInvariant, given.schema = 1, DistinctIds(given)
               PROVE  /\ doc.schema = 2 /\ stage \notin {"given", "rejected"}
                           => Topology(given) /\ Tidy(doc) /\ DebounceKept
                      /\ stage \in {"refused", "rejected"} => ~Topology(given)
    BY DEF MigratesExactly
  <2>1. Shaped(given)
    BY DocumentShaped DEF IntakeInvariant
  <2>2. doc.schema = 2 => ~Refuses(given) /\ doc = Migrated(given)
    BY DEF IntakeInvariant, Handed
  <2>3. ASSUME doc.schema = 2, stage \notin {"given", "rejected"}
        PROVE  Topology(given) /\ Tidy(doc) /\ DebounceKept
    <3>1. Migratable(given) /\ doc = Migrated(given)
      BY <2>1, <2>2, <2>3 DEF Migratable
    <3>2. Vetted(doc)
      BY <2>3, <3>1, MigratedCanTell DEF IntakeInvariant, IntakeTypeOK, Passed, Live
    <3> QED BY <3>1, <3>2, VettedTopology, MigratedTidy, MigratedDebounces
  <2>4. ASSUME stage \in {"refused", "rejected"}, Topology(given)
        PROVE  FALSE
    <3>1. Migratable(given)
      BY <2>1, <2>4, TopologyIsMigrated
    <3>2. CASE stage = "refused"
      <4>1. doc.schema = 1 /\ Refuses(doc)
        BY <3>2 DEF IntakeInvariant, Passed
      <4>2. doc = given
        BY <2>1, <4>1, MigratedElements DEF IntakeInvariant, Handed
      <4> QED BY <3>1, <4>1, <4>2 DEF Migratable
    <3>3. CASE stage = "rejected"
      <4>1. doc = Migrated(given) /\ Rejects(doc)
        BY <2>2, <3>3 DEF IntakeInvariant, Passed
      <4> QED BY <2>4, <3>1, <4>1, TopologyIsAccepted
    <3> QED BY <2>4, <3>2, <3>3
  <2> QED BY <2>3, <2>4
<1> QED BY <1>1, IntakeStarts, IntakeInductive, PTL DEF IntakeSpec
=============================================================================
