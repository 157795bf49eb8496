--------------------------- MODULE DecisionProofs ---------------------------
(***************************************************************************)
(* What the program decides is right for inputs of any size.               *)
(*                                                                         *)
(* The guard, for any number of rules, any answers and any suppressions:   *)
(* the decision is the strictest one, and it fails closed.                 *)
(*                                                                         *)
(* The pure parts of Algorithms, for every input InputsAssumption admits.  *)
(* Each is a loop, a fold over a sequence, in most cases over the result   *)
(* of a sort.  SetInduction is induction over the rounds of a loop,        *)
(* FoldExists makes a fold its rounds, SortOfTotalOrder says what a sort   *)
(* gives; for each loop then come the invariant of its rounds, that a      *)
(* round keeps it, and the theorem.                                        *)
(***************************************************************************)
EXTENDS Guard, Algorithms, WellFoundedInduction, FiniteSetTheorems, FunctionTheorems, TLAPS

-----------------------------------------------------------------------------
(* The guard *)

\* The response is made from the decision, after the last rule.
Answered == answer # "pending" => i = NumRules + 1 /\ answer = ProtocolAction(decision.action)

Inv == TypeOK /\ DecisionIsStrictest /\ Answered

\* What a rule is taken to say is a decision that names the rule.
LEMMA RuleDecisionType ==
    ASSUME TypeOK, NEW r \in Rules
    PROVE  /\ RuleDecision(r) \in Decisions
           /\ RuleDecision(r).rule = r
<1>1. r \in 0 .. NumRules
  BY ConstantsAssumption DEF Rules
<1>2. CASE answers[r] = Err
  BY <1>1, <1>2 DEF RuleDecision, errorDecision, Decisions, Actions, Severities
<1>3. CASE answers[r] # Err
  <2>1. answers[r] \in RuleAnswers
    BY <1>3, ConstantsAssumption DEF TypeOK
  <2> QED
    BY <1>1, <1>3, <2>1 DEF RuleDecision, RuleAnswers, Decisions, Actions, Severities
<1> QED BY <1>2, <1>3

\* Ranks are small numbers.
LEMMA RankType ==
    ASSUME NEW x
    PROVE  actionRank(x) \in 0 .. 3 /\ severityRank(x) \in 0 .. 3
BY DEF actionRank, severityRank

\* Replaces keeps the stricter of two decisions, and the older of equals, as
\* long as the older one has a known action.
LEMMA ReplacesStrict ==
    ASSUME NEW d \in Decisions, NEW e \in Decisions, Weaker(DefaultAllow, d)
    PROVE  /\ Replaces(e, d) => Weaker(d, e) /\ ~Weaker(e, d)
           /\ ~Replaces(e, d) => Weaker(e, d)
<1>1. actionRank(d.action) # 0
  <2>1. actionRank("allow") = 1
    BY DEF actionRank
  <2> QED
    BY <2>1, RankType DEF Weaker, DefaultAllow
<1>2. actionRank(e.action) = actionRank(d.action) => e.action = d.action
  <2>1. \A x : /\ actionRank(x) = 3 => x = "block"
               /\ actionRank(x) = 2 => x = "warn"
               /\ actionRank(x) = 1 => x = "allow"
    BY DEF actionRank
  <2>2. actionRank(d.action) \in 1 .. 3
    BY <1>1, RankType
  <2> QED
    BY <2>1, <2>2
<1>3. e.action = d.action => actionRank(e.action) = actionRank(d.action)
  OBVIOUS
<1> DEFINE ad == actionRank(d.action)  ae == actionRank(e.action)
           sd == severityRank(d.severity)  se == severityRank(e.severity)
<1>4. ad \in 0 .. 3 /\ ae \in 0 .. 3 /\ sd \in 0 .. 3 /\ se \in 0 .. 3
  BY RankType
<1>5. Replaces(e, d) <=> ae > ad \/ (ae = ad /\ se > sd)
  BY <1>2, <1>3 DEF Replaces, stricter
<1>6. /\ Weaker(d, e) <=> ad < ae \/ (ad = ae /\ sd <= se)
      /\ Weaker(e, d) <=> ae < ad \/ (ae = ad /\ se <= sd)
  BY DEF Weaker
<1> HIDE DEF ad, ae, sd, se
<1> QED BY <1>4, <1>5, <1>6

\* Weaker orders decisions by action, then severity.
LEMMA WeakerOrder ==
    ASSUME NEW a, NEW b, NEW c
    PROVE  /\ Weaker(a, a)
           /\ Weaker(a, b) /\ Weaker(b, c) => Weaker(a, c)
           /\ Weaker(a, b) /\ ~Weaker(c, b) => ~Weaker(c, a)
           /\ ~Weaker(a, b) => Weaker(b, a)
<1> DEFINE ra == actionRank(a.action)  rb == actionRank(b.action)  rc == actionRank(c.action)
           sa == severityRank(a.severity)  sb == severityRank(b.severity)  sc == severityRank(c.severity)
<1>1. /\ ra \in 0 .. 3 /\ rb \in 0 .. 3 /\ rc \in 0 .. 3
      /\ sa \in 0 .. 3 /\ sb \in 0 .. 3 /\ sc \in 0 .. 3
  BY RankType
<1>2. /\ Weaker(a, a) <=> ra < ra \/ (ra = ra /\ sa <= sa)
      /\ Weaker(a, b) <=> ra < rb \/ (ra = rb /\ sa <= sb)
      /\ Weaker(b, a) <=> rb < ra \/ (rb = ra /\ sb <= sa)
      /\ Weaker(b, c) <=> rb < rc \/ (rb = rc /\ sb <= sc)
      /\ Weaker(a, c) <=> ra < rc \/ (ra = rc /\ sa <= sc)
      /\ Weaker(c, b) <=> rc < rb \/ (rc = rb /\ sc <= sb)
      /\ Weaker(c, a) <=> rc < ra \/ (rc = ra /\ sc <= sa)
  BY DEF Weaker
<1> HIDE DEF ra, rb, rc, sa, sb, sc
<1> QED BY <1>1, <1>2

LEMMA InitInv == Init => Inv
<1> SUFFICES ASSUME Init PROVE Inv
  OBVIOUS
<1>1. TypeOK
  BY ConstantsAssumption
  DEF Init, TypeOK, DefaultAllow, Decisions, Actions, Severities, Rules
<1>2. Heard(i) = {}
  BY ConstantsAssumption DEF Init, Heard, Rules
<1>3. Weaker(DefaultAllow, DefaultAllow)
  BY WeakerOrder
<1>4. DecisionIsStrictest
  BY <1>2, <1>3 DEF Init, DecisionIsStrictest
<1> QED BY <1>1, <1>4 DEF Init, Inv, Answered

\* The tool call is fixed, so what a rule says does not change.
LEMMA FixedInput ==
    ASSUME UNCHANGED input
    PROVE  /\ \A r \in Rules : RuleDecision(r)' = RuleDecision(r)
           /\ \A r \in Rules : suppressionApplies(r)' = suppressionApplies(r)
BY DEF input, RuleDecision, errorDecision, suppressionApplies, pathMatches

LEMMA HeardNext ==
    ASSUME TypeOK, UNCHANGED input, i \in Rules, i' = i + 1
    PROVE  Heard(i)' = IF suppressionApplies(i) THEN Heard(i) ELSE Heard(i) \cup {i}
<1>1. \A r \in Rules : r < i + 1 <=> r < i \/ r = i
  BY ConstantsAssumption DEF Rules
<1> QED BY <1>1, FixedInput DEF Heard

LEMMA NextInv == Inv /\ [Next]_vars => Inv'
<1> SUFFICES ASSUME Inv, [Next]_vars PROVE Inv'
  OBVIOUS
<1> USE DEF Inv
<1>1. CASE Suppress
  <2>1. TypeOK'
    BY <1>1, ConstantsAssumption DEF Suppress, TypeOK, input, Rules
  <2>2. Heard(i)' = Heard(i)
    BY <1>1, HeardNext DEF Suppress
  <2>3. \A r \in Heard(i) : RuleDecision(r)' = RuleDecision(r)
    BY <1>1, FixedInput DEF Suppress, Heard
  <2>4. decision' = decision
    BY <1>1 DEF Suppress
  <2>5. DecisionIsStrictest'
    BY <2>2, <2>3, <2>4 DEF DecisionIsStrictest
  <2>6. Answered'
    BY <1>1, ConstantsAssumption DEF Suppress, Answered, TypeOK, Rules
  <2> QED BY <2>1, <2>5, <2>6
<1>2. CASE EvaluateRule
  <2> DEFINE new == RuleDecision(i)
  <2>1. new \in Decisions /\ new.rule = i /\ i \in Rules /\ decision \in Decisions
    BY <1>2, RuleDecisionType DEF EvaluateRule, TypeOK
  <2>2. decision' = IF Replaces(new, decision) THEN new ELSE decision
    BY <1>2 DEF EvaluateRule
  <2>3. TypeOK'
    <3>1. decision' \in Decisions
      BY <2>1, <2>2
    <3>2. warned' \subseteq Rules
      BY <1>2 DEF EvaluateRule, TypeOK
    <3> QED BY <1>2, <3>1, <3>2, ConstantsAssumption DEF EvaluateRule, TypeOK, input, Rules
  <2>4. Heard(i)' = Heard(i) \cup {i}
    BY <1>2, HeardNext DEF EvaluateRule
  <2>5. \A r \in Heard(i) \cup {i} : RuleDecision(r)' = RuleDecision(r)
    BY <1>2, FixedInput DEF EvaluateRule, Heard
  <2>6. Weaker(DefaultAllow, decision)
    BY DEF DecisionIsStrictest
  <2>7. /\ Replaces(new, decision) => Weaker(decision, new) /\ ~Weaker(new, decision)
        /\ ~Replaces(new, decision) => Weaker(new, decision)
    BY <2>1, <2>6, ReplacesStrict
  <2> HIDE DEF new
  <2>8. Weaker(DefaultAllow, decision')
    BY <2>2, <2>6, <2>7, WeakerOrder
  <2>9. ASSUME NEW r \in Heard(i) \cup {i}
        PROVE  /\ Weaker(RuleDecision(r), decision')
               /\ r < decision'.rule => ~Weaker(decision', RuleDecision(r))
    <3>1. CASE r \in Heard(i)
      <4>1. /\ Weaker(RuleDecision(r), decision)
            /\ r < decision.rule => ~Weaker(decision, RuleDecision(r))
        BY <3>1 DEF DecisionIsStrictest
      <4>2. CASE Replaces(new, decision)
        BY <2>2, <2>7, <4>1, <4>2, WeakerOrder
      <4>3. CASE ~Replaces(new, decision)
        BY <2>2, <4>1, <4>3
      <4> QED BY <4>2, <4>3
    <3>2. CASE r = i
      <4>1. RuleDecision(r) = new
        BY <3>2 DEF new
      <4>2. CASE Replaces(new, decision)
        BY <2>1, <2>2, <3>2, <4>1, <4>2, WeakerOrder, ConstantsAssumption DEF Rules
      <4>3. CASE ~Replaces(new, decision)
        <5>1. decision.rule < i
          <6>1. decision = DefaultAllow => decision.rule = 0
            BY DEF DefaultAllow
          <6>2. \A q \in Heard(i) : q < i /\ RuleDecision(q).rule = q
            BY RuleDecisionType DEF Heard
          <6> QED BY <2>1, <6>1, <6>2, ConstantsAssumption DEF DecisionIsStrictest, Rules
        <5>2. ~(r < decision.rule)
          BY <2>1, <3>2, <5>1, ConstantsAssumption DEF Rules, Decisions
        <5> QED BY <2>2, <2>7, <4>1, <4>3, <5>2
      <4> QED BY <4>2, <4>3
    <3> QED BY <3>1, <3>2
  <2>10. decision' = DefaultAllow \/ \E r \in Heard(i) \cup {i} : decision' = RuleDecision(r)
    BY <2>2 DEF DecisionIsStrictest, new
  <2>11. DecisionIsStrictest'
    BY <2>4, <2>5, <2>8, <2>9, <2>10 DEF DecisionIsStrictest
  <2>12. Answered'
    BY <1>2, ConstantsAssumption DEF EvaluateRule, Answered, TypeOK, Rules
  <2> QED BY <2>3, <2>11, <2>12
<1>3. CASE Respond
  <2>1. TypeOK'
    <3>1. answer' \in {"none", "warn", "block"}
      BY <1>3 DEF Respond, ProtocolAction
    <3> QED BY <1>3, <3>1 DEF Respond, TypeOK, input
  <2>2. i' = i /\ decision' = decision /\ UNCHANGED input
    BY <1>3 DEF Respond
  <2>3. Heard(i)' = Heard(i)
    BY <2>2, FixedInput DEF Heard
  <2>4. \A r \in Heard(i) : RuleDecision(r)' = RuleDecision(r)
    BY <2>2, FixedInput DEF Heard
  <2>5. DecisionIsStrictest'
    BY <2>2, <2>3, <2>4 DEF DecisionIsStrictest
  <2>6. Answered'
    BY <1>3 DEF Respond, Answered
  <2> QED BY <2>1, <2>5, <2>6
<1>4. CASE UNCHANGED vars
  <2>1. i' = i /\ decision' = decision /\ UNCHANGED input
    BY <1>4 DEF vars
  <2>2. Heard(i)' = Heard(i)
    BY <2>1, FixedInput DEF Heard
  <2>3. \A r \in Heard(i) : RuleDecision(r)' = RuleDecision(r)
    BY <2>1, FixedInput DEF Heard
  <2>4. DecisionIsStrictest'
    BY <2>1, <2>2, <2>3 DEF DecisionIsStrictest
  <2> QED BY <1>4, <2>4 DEF vars, input, TypeOK, Answered
<1> QED BY <1>1, <1>2, <1>3, <1>4 DEF Next, Done

LEMMA InvHolds == Spec => []Inv
BY InitInv, NextInv, PTL DEF Spec

\* Evaluate returns the strictest decision of the rules that are not suppressed,
\* in whatever order they come (guard.go:77-102).
THEOREM StrictestDecisionWins == Spec => []DecisionIsStrictest
<1>1. Inv => DecisionIsStrictest
  BY DEF Inv
<1> QED BY <1>1, InvHolds, PTL

\* The host is told to block exactly if a rule that is not suppressed blocks the
\* call or fails on a destructive tool (orchestrator.go:102-135).
THEOREM GuardFailsClosed == Spec => []FailsClosed
<1>1. Inv => FailsClosed
  <2> SUFFICES ASSUME Inv, answer # "pending"
               PROVE  answer = "block" <=>
                        \E r \in Rules :
                          /\ ~suppressionApplies(r)
                          /\ \/ answers[r] = Err /\ tool \in Destructive
                             \/ answers[r] # Err /\ answers[r].action = "block"
    BY DEF FailsClosed
  <2>1. i = NumRules + 1 /\ (answer = "block" <=> decision.action = "block")
    BY DEF Inv, Answered, ProtocolAction
  <2>2. Heard(i) = {r \in Rules : ~suppressionApplies(r)}
    BY <2>1, ConstantsAssumption DEF Heard, Rules
  <2>3. \A r \in Rules : RuleDecision(r).action = "block" <=>
                             \/ answers[r] = Err /\ tool \in Destructive
                             \/ answers[r] # Err /\ answers[r].action = "block"
    BY DEF RuleDecision, errorDecision
  <2>4. ASSUME NEW r \in Heard(i), RuleDecision(r).action = "block"
        PROVE  decision.action = "block"
    <3>1. Weaker(RuleDecision(r), decision)
      BY DEF Inv, DecisionIsStrictest
    <3>2. actionRank("block") = 3
      BY DEF actionRank
    <3>3. actionRank(decision.action) = 3
      BY <2>4, <3>1, <3>2, RankType DEF Weaker
    <3> QED BY <3>3 DEF actionRank
  <2>5. decision.action = "block" => \E r \in Heard(i) : RuleDecision(r).action = "block"
    BY DEF Inv, DecisionIsStrictest, DefaultAllow
  <2> QED BY <2>1, <2>2, <2>3, <2>4, <2>5
<1> QED BY <1>1, InvHolds, PTL

-----------------------------------------------------------------------------
(* Loops and sorts *)

\* Induction: a set that has 0, and k + 1 whenever it has k < n, has n. The least
\* number it does not have would be a counterexample.
LEMMA SetInduction ==
  ASSUME NEW n \in Nat, NEW T, 0 \in T, \A k \in 0 .. n - 1 : k \in T => k + 1 \in T
  PROVE  n \in T
<1> SUFFICES ASSUME NEW m \in 0 .. n, m \notin T PROVE FALSE
  OBVIOUS
<1> DEFINE Less == OpToRel(<, Nat)
           B == {k \in 0 .. n : k \notin T}
<1>1. IsWellFoundedOn(Less, Nat)
  BY NatLessThanWellFounded
<1>2. \A x, y \in Nat : x < y => <<x, y>> \in Less
  BY DEF OpToRel
<1>3. B \subseteq Nat /\ B # {}
  OBVIOUS
<1> HIDE DEF Less, B
<1>4. PICK x \in B : \A y \in B : ~(<<y, x>> \in Less)
  BY <1>1, <1>3, WFMin
<1>5. x \in 0 .. n /\ x \notin T
  BY <1>4 DEF B
<1>6. x # 0 /\ x - 1 \in 0 .. n - 1 /\ x - 1 \in Nat /\ x - 1 < x
  BY <1>5
<1>7. x - 1 \notin B
  BY <1>2, <1>3, <1>4, <1>5, <1>6
<1>8. x - 1 \in T
  BY <1>6, <1>7 DEF B
<1>9. (x - 1) + 1 \in T
  BY <1>6, <1>8
<1> QED BY <1>5, <1>9

\* A nonempty part of an interval has a largest member.
LEMMA MaxOfInterval ==
  ASSUME NEW n \in Nat, NEW A \in SUBSET (0 .. n), A # {}
  PROVE  Max(A) \in A /\ \A y \in A : y <= Max(A)
<1> DEFINE T == {m \in 0 .. n : \A C \in SUBSET (0 .. m) : C # {} => \E x \in C : \A y \in C : x >= y}
<1>1. 0 \in T
  <2> SUFFICES ASSUME NEW C \in SUBSET (0 .. 0), C # {} PROVE \E z \in C : \A y \in C : z >= y
    OBVIOUS
  <2>1. \A y \in C : y = 0
    OBVIOUS
  <2>2. PICK c \in C : TRUE
    OBVIOUS
  <2>3. \A y \in C : c >= y
    BY <2>1
  <2> QED BY <2>3
<1>2. ASSUME NEW m \in 0 .. n - 1, m \in T PROVE m + 1 \in T
  <2> SUFFICES ASSUME NEW C \in SUBSET (0 .. m + 1), C # {} PROVE \E x \in C : \A y \in C : x >= y
    OBVIOUS
  <2>1. CASE m + 1 \in C
    BY <2>1
  <2>2. CASE m + 1 \notin C
    <3>1. C \in SUBSET (0 .. m)
      BY <2>2
    <3> QED BY <1>2, <3>1
  <2> QED BY <2>1, <2>2
<1> HIDE DEF T
<1>3. n \in T
  BY <1>1, <1>2, SetInduction
<1>4. \E x \in A : \A y \in A : x >= y
  BY <1>3 DEF T
<1>5. Max(A) \in A /\ \A y \in A : Max(A) >= y
  BY <1>4 DEF Max
<1> QED BY <1>5

\* g is the recursion over the subsets of 1 .. n that FoldLeft makes: it takes
\* away the largest member and applies D to the rest and that member.
Folds(n, S, D, b, g) ==
    /\ g \in [SUBSET (1 .. n) -> S]
    /\ \A s \in SUBSET (1 .. n) : g[s] = IF s = {} THEN b ELSE D[<<g[s \ {Max(s)}], Max(s)>>]

\* D is one round of a loop over 1 .. n, on states in S.
IsRound(n, S, D) == D \in [S \X (1 .. n) -> S]

\* Such a recursion is a function: the CHOOSE in FoldLeft finds one.
LEMMA FoldExists ==
  ASSUME NEW n \in Nat, NEW S, NEW D, IsRound(n, S, D), NEW b \in S
  PROVE  \E g : Folds(n, S, D, b, g)
<1> USE DEF IsRound
<1> DEFINE Eq(g, m) == \A s \in SUBSET (1 .. m) :
                         g[s] = IF s = {} THEN b ELSE D[<<g[s \ {Max(s)}], Max(s)>>]
           T == {m \in 0 .. n : \E g \in [SUBSET (1 .. m) -> S] : Eq(g, m)}
<1>1. 0 \in T
  <2> DEFINE g == [s \in SUBSET (1 .. 0) |-> b]
  <2>1. g \in [SUBSET (1 .. 0) -> S]
    OBVIOUS
  <2>2. Eq(g, 0)
    OBVIOUS
  <2>3. 0 \in 0 .. n
    OBVIOUS
  <2> HIDE DEF g, Eq
  <2> QED BY <2>1, <2>2, <2>3
<1>2. ASSUME NEW m \in 0 .. n - 1, m \in T PROVE m + 1 \in T
  <2>1. PICK f \in [SUBSET (1 .. m) -> S] : Eq(f, m)
    BY <1>2
  <2> HIDE DEF T
  <2> DEFINE P == SUBSET (1 .. m + 1)
             g == [s \in P |-> IF m + 1 \in s THEN D[<<f[s \ {m + 1}], m + 1>>] ELSE f[s]]
  <2>2. \A s \in P : /\ s \ {m + 1} \in SUBSET (1 .. m)
                     /\ m + 1 \notin s => s \in SUBSET (1 .. m)
    OBVIOUS
  <2>3. m + 1 \in 1 .. n /\ m + 1 \in 0 .. n
    OBVIOUS
  <2>4. g \in [P -> S]
    BY <2>2, <2>3
  <2>5. ASSUME NEW s \in P PROVE g[s] = IF s = {} THEN b ELSE D[<<g[s \ {Max(s)}], Max(s)>>]
    <3>1. CASE m + 1 \in s
      <4>1. Max(s) = m + 1
        <5>0. m \in Nat
          OBVIOUS
        <5>1. s \in SUBSET (0 .. m + 1) /\ s # {} /\ m + 1 \in Nat
          BY <3>1, <5>0
        <5>2. Max(s) \in s /\ m + 1 <= Max(s)
          BY <3>1, <5>1, MaxOfInterval
        <5>3. Max(s) \in 1 .. m + 1
          BY <5>2
        <5> HIDE DEF g, P
        <5> QED BY <5>0, <5>2, <5>3
      <4>2. g[s \ {m + 1}] = f[s \ {m + 1}]
        BY <2>2
      <4>3. g[s] = D[<<f[s \ {m + 1}], m + 1>>]
        BY <3>1
      <4> QED BY <3>1, <4>1, <4>2, <4>3
    <3>2. CASE m + 1 \notin s
      <4>1. s \in SUBSET (1 .. m) /\ s \ {Max(s)} \in SUBSET (1 .. m) /\ s \ {Max(s)} \in P
        BY <2>2, <3>2
      <4>2. g[s] = f[s] /\ g[s \ {Max(s)}] = f[s \ {Max(s)}]
        BY <3>2, <4>1
      <4>3. f[s] = IF s = {} THEN b ELSE D[<<f[s \ {Max(s)}], Max(s)>>]
        BY <2>1, <4>1
      <4> HIDE DEF g
      <4> QED BY <4>2, <4>3
    <3> QED BY <3>1, <3>2
  <2> HIDE DEF g
  <2>6. Eq(g, m + 1)
    BY <2>5
  <2> QED BY <2>3, <2>4, <2>6 DEF T
<1> HIDE DEF T
<1>3. n \in T
  BY <1>1, <1>2, SetInduction
<1> QED BY <1>3 DEF T, Folds

\* A strict total order; below[x] is the set of the members before x.
IsTotalOrder(S, below) ==
    /\ below \in [S -> SUBSET S]
    /\ \A x \in S : x \notin below[x]
    /\ \A x, y \in S : y \in below[x] => below[y] \subseteq below[x]
    /\ \A x, y \in S : x # y => x \in below[y] \/ y \in below[x]

\* The number of members before it tells a member of a finite set, and every
\* number below the cardinality is the number of one.
LEMMA RanksOfTotalOrder ==
  ASSUME NEW S, IsFiniteSet(S), NEW below, IsTotalOrder(S, below)
  PROVE  /\ Cardinality(S) \in Nat
         /\ \A x \in S : Cardinality(below[x]) \in 0 .. Cardinality(S) - 1
         /\ \A x, y \in S : x \in below[y] <=> Cardinality(below[x]) < Cardinality(below[y])
         /\ \A k \in 0 .. Cardinality(S) - 1 : \E x \in S : Cardinality(below[x]) = k
<1> USE DEF IsTotalOrder
<1> DEFINE rank == [x \in S |-> Cardinality(below[x])]
           n == Cardinality(S)
<1>1. n \in Nat
  BY FS_CardinalityType
<1>2. ASSUME NEW x \in S PROVE IsFiniteSet(below[x]) /\ rank[x] \in Nat
  <2>1. below[x] \in SUBSET S
    OBVIOUS
  <2>2. IsFiniteSet(below[x])
    BY <2>1, FS_Subset
  <2>3. Cardinality(below[x]) \in Nat
    BY <2>2, FS_CardinalityType
  <2> QED BY <2>2, <2>3
<1>3. ASSUME NEW x \in S PROVE rank[x] < n
  <2>1. below[x] \in SUBSET S /\ below[x] # S
    OBVIOUS
  <2>2. Cardinality(below[x]) <= n /\ (Cardinality(S) = Cardinality(below[x]) => S = below[x])
    BY <2>1, FS_Subset
  <2>3. rank[x] = Cardinality(below[x])
    OBVIOUS
  <2> HIDE DEF rank
  <2> QED BY <1>1, <1>2, <2>1, <2>2, <2>3
<1>4. rank \in [S -> 0 .. n - 1]
  <2>1. \A x \in S : rank[x] \in 0 .. n - 1
    <3> HIDE DEF rank
    <3> QED BY <1>1, <1>2, <1>3
  <2> QED BY <2>1
<1>5. ASSUME NEW x \in S, NEW y \in S, x \in below[y] PROVE rank[x] < rank[y]
  <2>1. below[x] \in SUBSET below[y] /\ below[x] # below[y]
    BY <1>5
  <2>2. /\ Cardinality(below[x]) <= Cardinality(below[y])
        /\ Cardinality(below[y]) = Cardinality(below[x]) => below[y] = below[x]
    BY <1>2, <2>1, FS_Subset
  <2>3. rank[x] = Cardinality(below[x]) /\ rank[y] = Cardinality(below[y])
    OBVIOUS
  <2> HIDE DEF rank
  <2> QED BY <1>2, <2>1, <2>2, <2>3
<1> HIDE DEF n
<1>6. \A x \in S : rank[x] = Cardinality(below[x])
  OBVIOUS
<1> HIDE DEF rank
<1>7. ASSUME NEW x \in S, NEW y \in S, rank[x] < rank[y] PROVE x \in below[y]
  <2>1. x # y
    BY <1>2, <1>7
  <2>2. y \notin below[x]
    BY <1>2, <1>5, <1>7
  <2> QED BY <2>1, <2>2
<1>8. ASSUME NEW k \in 0 .. n - 1 PROVE \E x \in S : rank[x] = k
  <2>1. \A x, y \in S : rank[x] = rank[y] => x = y
    BY <1>2, <1>5
  <2>2. rank \in Injection(S, 0 .. n - 1)
    BY <1>4, <2>1, Fun_IsInj
  <2>3. IsFiniteSet(0 .. n - 1) /\ Cardinality(0 .. n - 1) = n
    BY <1>1, FS_Interval
  <2>4. rank \in Surjection(S, 0 .. n - 1)
    BY <2>2, <2>3, FS_Injection DEF n
  <2> QED BY <2>4 DEF Surjection
<1> QED BY <1>1, <1>4, <1>5, <1>6, <1>7, <1>8 DEF n

\* What SortedBy puts at each place.
IsSort(S, below, sorted) ==
    /\ sorted = [k \in 1 .. Cardinality(S) |-> sorted[k]]
    /\ \A k \in 1 .. Cardinality(S) : (\E x \in S : Cardinality(below[x]) = k - 1) =>
          sorted[k] \in S /\ Cardinality(below[sorted[k]]) = k - 1

\* What a sort is: every member once, in the order.
Sorts(S, below, sorted) ==
    /\ Cardinality(S) \in Nat
    /\ sorted \in [1 .. Cardinality(S) -> S]
    /\ \A x \in S : \E k \in 1 .. Cardinality(S) : sorted[k] = x
    /\ \A j, k \in 1 .. Cardinality(S) : j < k <=> sorted[j] \in below[sorted[k]]

\* SortedBy sorts, if the order is total (package sort).
LEMMA SortOfTotalOrder ==
  ASSUME NEW S, IsFiniteSet(S), NEW below, IsTotalOrder(S, below), NEW sorted, IsSort(S, below, sorted)
  PROVE  Sorts(S, below, sorted)
<1> DEFINE n == Cardinality(S)
           Rank(x) == Cardinality(below[x])
<1>1. /\ n \in Nat
      /\ \A x \in S : Rank(x) \in 0 .. n - 1
      /\ \A x, y \in S : x \in below[y] <=> Rank(x) < Rank(y)
      /\ \A k \in 0 .. n - 1 : \E x \in S : Rank(x) = k
  BY RanksOfTotalOrder
<1> USE DEF IsSort, IsTotalOrder
<1>2. ASSUME NEW k \in 1 .. n PROVE sorted[k] \in S /\ Rank(sorted[k]) = k - 1
  <2>1. k - 1 \in 0 .. n - 1
    BY <1>1
  <2>2. \E x \in S : Cardinality(below[x]) = k - 1
    BY <1>1, <2>1
  <2> QED BY <2>2
<1>3. sorted \in [1 .. n -> S]
  BY <1>2
<1> HIDE DEF n, Rank
<1>4. ASSUME NEW x \in S PROVE \E k \in 1 .. n : sorted[k] = x
  <2> DEFINE k == Rank(x) + 1
  <2>1. k \in 1 .. n /\ k - 1 = Rank(x)
    BY <1>1
  <2> HIDE DEF k
  <2>2. sorted[k] \in S /\ Rank(sorted[k]) = Rank(x)
    BY <1>2, <2>1
  <2>3. Rank(x) \in Int
    BY <1>1
  <2>4. x \notin below[sorted[k]] /\ sorted[k] \notin below[x]
    BY <1>1, <2>2, <2>3
  <2> QED BY <2>1, <2>2, <2>4
<1>5. ASSUME NEW j \in 1 .. n, NEW k \in 1 .. n PROVE j < k <=> sorted[j] \in below[sorted[k]]
  <2>1. sorted[j] \in S /\ sorted[k] \in S /\ Rank(sorted[j]) = j - 1 /\ Rank(sorted[k]) = k - 1
    BY <1>2
  <2>2. sorted[j] \in below[sorted[k]] <=> Rank(sorted[j]) < Rank(sorted[k])
    BY <1>1, <2>1
  <2>3. j < k <=> j - 1 < k - 1
    BY <1>1
  <2> QED BY <2>1, <2>2, <2>3
<1> QED BY <1>1, <1>3, <1>4, <1>5 DEF n, Sorts

\* The largest member of 1 .. k is k.
LEMMA IntervalMax ==
  ASSUME NEW k \in Nat, k # 0
  PROVE  Max(1 .. k) = k /\ (1 .. k) \ {k} = 1 .. k - 1 /\ 1 .. k # {}
<1>1. 1 .. k \in SUBSET (0 .. k) /\ k \in 1 .. k
  OBVIOUS
<1>2. Max(1 .. k) \in 1 .. k /\ k <= Max(1 .. k)
  BY <1>1, MaxOfInterval
<1> QED BY <1>1, <1>2

\* A part of 1 .. n without its largest member is a part of it.
LEMMA MaxOfPart ==
  ASSUME NEW n \in Nat, NEW s \in SUBSET (1 .. n), s # {}
  PROVE  Max(s) \in 1 .. n /\ s \ {Max(s)} \in SUBSET (1 .. n)
<1>1. s \in SUBSET (0 .. n)
  OBVIOUS
<1> QED BY <1>1, MaxOfInterval

\* The members at the first k places.
Seen(order, k) == {order[j] : j \in 1 .. k}

\* One more place, one more member.
LEMMA SeenRound ==
  ASSUME NEW order, NEW k \in Nat
  PROVE  Seen(order, 0) = {} /\ Seen(order, k + 1) = Seen(order, k) \cup {order[k + 1]}
<1>1. 1 .. 0 = {} /\ 1 .. k + 1 = (1 .. k) \cup {k + 1}
  OBVIOUS
<1> QED BY <1>1 DEF Seen

\* The next member comes after all that were seen, and is none of them.
LEMMA SeenInOrder ==
  ASSUME NEW S, NEW below, IsTotalOrder(S, below), NEW order, Sorts(S, below, order), NEW k \in 0 .. Cardinality(S) - 1
  PROVE  /\ Seen(order, k) \in SUBSET S
         /\ order[k + 1] \in S \ Seen(order, k)
         /\ \A y \in Seen(order, k) : y \in below[order[k + 1]] /\ order[k + 1] \notin below[y]
<1> DEFINE n == Cardinality(S)
<1>1. n \in Nat /\ k + 1 \in 1 .. n /\ order \in [1 .. n -> S]
  BY DEF Sorts
<1>2. ASSUME NEW j \in 1 .. k
      PROVE  order[j] \in S /\ order[j] \in below[order[k + 1]] /\ order[k + 1] \notin below[order[j]]
  <2>1. j \in 1 .. n /\ j < k + 1 /\ ~(k + 1 < j)
    BY <1>1
  <2> QED BY <1>1, <2>1 DEF Sorts
<1>3. order[k + 1] \notin below[order[k + 1]]
  BY <1>1 DEF IsTotalOrder
<1> QED BY <1>1, <1>2, <1>3 DEF Seen

\* In the end every member was seen.
LEMMA SeenAll ==
  ASSUME NEW S, NEW below, NEW order, Sorts(S, below, order)
  PROVE  Seen(order, Cardinality(S)) = S
BY DEF Seen, Sorts

\* The places of a sequence are finitely many numbers.
LEMMA SequenceDomain ==
  ASSUME NEW s, IsSequence(s)
  PROVE  /\ Len(s) \in Nat /\ DOMAIN s = 1 .. Len(s) /\ DOMAIN s \subseteq Nat
         /\ IsFiniteSet(DOMAIN s) /\ Cardinality(DOMAIN s) = Len(s)
<1>1. Len(s) \in Nat /\ DOMAIN s = 1 .. Len(s)
  BY DEF IsSequence
<1>2. IsFiniteSet(1 .. Len(s)) /\ Cardinality(1 .. Len(s)) = IF 1 > Len(s) THEN 0 ELSE Len(s) - 1 + 1
  BY <1>1, FS_Interval
<1> QED BY <1>1, <1>2

\* The places of two nested loops.
NestedPlaces(S, part) == UNION {{x} \X part[x] : x \in S}

\* They are finitely many.
LEMMA NestedPlacesFinite ==
  ASSUME NEW S, IsFiniteSet(S), NEW part, \A x \in S : IsFiniteSet(part[x])
  PROVE  IsFiniteSet(NestedPlaces(S, part))
<1> DEFINE T == {{x} \X part[x] : x \in S}
           f == [x \in S |-> {x} \X part[x]]
<1>1. f \in Surjection(S, T)
  <2>1. f \in [S -> T] /\ \A t \in T : \E x \in S : f[x] = t
    OBVIOUS
  <2> QED BY <2>1 DEF Surjection
<1>2. \A t \in T : \E x \in S : t = {x} \X part[x]
  OBVIOUS
<1>3. NestedPlaces(S, part) = UNION T
  BY DEF NestedPlaces
<1> HIDE DEF f, T
<1>4. IsFiniteSet(T)
  BY <1>1, FS_Surjection
<1>5. ASSUME NEW x \in S PROVE IsFiniteSet({x} \X part[x])
  BY FS_Singleton, FS_Product
<1>6. \A t \in T : IsFiniteSet(t)
  BY <1>2, <1>5
<1> QED BY <1>3, <1>4, <1>6, FS_UNION

\* They are pairs of a member of the outer loop and a place in its list.
LEMMA NestedPlacesMembers ==
  ASSUME NEW S, NEW part, NEW p
  PROVE  p \in NestedPlaces(S, part) <=> \E x \in S : \E k \in part[x] : p = <<x, k>>
<1> DEFINE T == {{x} \X part[x] : x \in S}
<1>1. \A t : t \in T <=> \E x \in S : t = {x} \X part[x]
  OBVIOUS
<1>2. NestedPlaces(S, part) = UNION T
  BY DEF NestedPlaces
<1> HIDE DEF T
<1>3. p \in NestedPlaces(S, part) <=> \E x \in S : p \in {x} \X part[x]
  <2>1. ASSUME p \in UNION T PROVE \E x \in S : p \in {x} \X part[x]
    <3>1. PICK t \in T : p \in t
      BY <2>1
    <3> QED BY <1>1, <3>1
  <2>2. ASSUME NEW x \in S, p \in {x} \X part[x] PROVE p \in UNION T
    <3>1. {x} \X part[x] \in T
      BY <1>1
    <3> QED BY <2>2, <3>1
  <2> QED BY <1>2, <2>1, <2>2
<1>4. \A x : p \in {x} \X part[x] <=> \E k \in part[x] : p = <<x, k>>
  OBVIOUS
<1> QED BY <1>3, <1>4

-----------------------------------------------------------------------------
(* The hook chain *)

\* Hook j runs before hook k.
Ahead(hooks, j, k) == \/ hooks[j].priority < hooks[k].priority
                      \/ hooks[j].priority = hooks[k].priority /\ j < k

\* NewChain sorts the hooks by priority and position (chain.go:12-19).
LEMMA ChainOrder ==
  ASSUME NEW hooks, AreHooks(hooks)
  PROVE  LET S == DOMAIN hooks
             below == [k \in S |-> {j \in S : Ahead(hooks, j, k)}]
         IN  /\ Len(hooks) \in Nat /\ S = 1 .. Len(hooks) /\ Cardinality(S) = Len(hooks)
             /\ IsTotalOrder(S, below)
             /\ Sorts(S, below, NewChain(hooks))
<1> DEFINE n == Len(hooks)
           S == DOMAIN hooks
           below == [k \in S |-> {j \in S : Ahead(hooks, j, k)}]
           order == NewChain(hooks)
<1>1. hooks \in Seq(ToSet(hooks)) /\ \A k \in DOMAIN hooks : hooks[k].priority \in Int
  BY DEF AreHooks, IsSequence
<1>2. n \in Nat /\ S = 1 .. n
  BY <1>1
<1>3. IsFiniteSet(S) /\ Cardinality(S) = n
  <2>1. IsFiniteSet(1 .. n) /\ Cardinality(1 .. n) = IF 1 > n THEN 0 ELSE n - 1 + 1
    BY <1>2, FS_Interval
  <2> QED BY <1>2, <2>1
<1>4. IsSort(S, below, order)
  <2>1. order = [k \in 1 .. Cardinality(S) |->
                   CHOOSE x \in S : Cardinality({j \in S : Ahead(hooks, j, x)}) = k - 1]
    BY DEF NewChain, SortedBy, Ahead
  <2> QED BY <2>1 DEF IsSort
<1>5. IsTotalOrder(S, below)
  BY <1>1, <1>2 DEF Ahead, IsTotalOrder
<1> HIDE DEF order, below, S
<1>6. Sorts(S, below, order)
  BY <1>3, <1>4, <1>5, SortOfTotalOrder
<1> QED BY <1>2, <1>3, <1>5, <1>6 DEF order, S, n, below

\* The outcome before any hook, and what outcomes are made of.
ChainStart == [over |-> FALSE, ran |-> <<>>, error |-> FALSE, allow |-> TRUE, warnings |-> <<>>, flow |-> 0]

ChainTypes(hooks) ==
    [over : BOOLEAN, ran : Seq(DOMAIN hooks), error : BOOLEAN, allow : BOOLEAN,
     warnings : Seq(DOMAIN hooks), flow : {0} \cup {hooks[k].flow : k \in DOMAIN hooks}]

\* A round of the chain makes an outcome of an outcome.
LEMMA ApplyHookType ==
  ASSUME NEW hooks, AreHooks(hooks), NEW slot, NEW acc \in ChainTypes(hooks), NEW k \in DOMAIN hooks
  PROVE  ApplyHook(acc, k, hooks[k], slot) \in ChainTypes(hooks)
<1> DEFINE S == Seq(DOMAIN hooks)
           F == {0} \cup {hooks[j].flow : j \in DOMAIN hooks}
<1>1. CASE acc.over \/ hooks[k].slot # slot
  BY <1>1 DEF ApplyHook
<1>2. CASE ~(acc.over \/ hooks[k].slot # slot)
  <2>1. acc.ran \in S /\ acc.warnings \in S /\ acc.flow \in F
    BY DEF ChainTypes
  <2>2. Append(acc.ran, k) \in S /\ Append(acc.warnings, k) \in S
    BY <2>1
  <2>3. hooks[k].flow \in F
    OBVIOUS
  <2> HIDE DEF S, F
  <2>4. ApplyHook(acc, k, hooks[k], slot) \in
            [over : BOOLEAN, ran : S, error : BOOLEAN, allow : BOOLEAN, warnings : S, flow : F]
    BY <1>2, <2>1, <2>2, <2>3 DEF ApplyHook, Stops
  <2> QED BY <2>4 DEF ChainTypes, S, F
<1> QED BY <1>1, <1>2

\* Apply is its rounds, one for every hook in order.
LEMMA ChainRounds ==
  ASSUME NEW hooks, AreHooks(hooks), NEW slot
  PROVE  \E f : /\ f[0] = ChainStart
                /\ \A k \in 1 .. Len(hooks) :
                      f[k] = ApplyHook(f[k - 1], NewChain(hooks)[k], hooks[NewChain(hooks)[k]], slot)
                /\ f[Len(hooks)] = Apply(hooks, slot)
<1> DEFINE n == Len(hooks)
           order == NewChain(hooks)
           Round(acc, k) == ApplyHook(acc, order[k], hooks[order[k]], slot)
           S == ChainTypes(hooks)
           D == [p \in S \X (1 .. n) |-> Round(p[1], p[2])]
           iter == CHOOSE iter : iter = [s \in SUBSET (1 .. n) |->
                      IF s = {} THEN ChainStart ELSE Round(iter[s \ {Max(s)}], Max(s))]
<1>1. n \in Nat /\ order \in [1 .. n -> DOMAIN hooks]
  BY ChainOrder DEF Sorts
<1>2. IsRound(n, S, D) /\ ChainStart \in S
  BY <1>1, ApplyHookType DEF ChainStart, ChainTypes, IsRound
<1>3. \A x \in S, k \in 1 .. n : D[<<x, k>>] = Round(x, k)
  OBVIOUS
<1>4. Apply(hooks, slot) = iter[1 .. n]
  BY <1>1 DEF Apply, FoldLeft, MapThenFoldSet, ChainStart
<1> HIDE DEF D, S, order, n, Round, iter
<1>5. PICK g : Folds(n, S, D, ChainStart, g)
  BY <1>1, <1>2, FoldExists
<1>6. g = [s \in SUBSET (1 .. n) |-> IF s = {} THEN ChainStart ELSE Round(g[s \ {Max(s)}], Max(s))]
  <2>1. ASSUME NEW s \in SUBSET (1 .. n)
        PROVE  g[s] = IF s = {} THEN ChainStart ELSE Round(g[s \ {Max(s)}], Max(s))
    BY <1>1, <1>3, <1>5, MaxOfPart DEF Folds
  <2> QED BY <1>5, <2>1 DEF Folds
<1>7. iter = [s \in SUBSET (1 .. n) |-> IF s = {} THEN ChainStart ELSE Round(iter[s \ {Max(s)}], Max(s))]
  BY <1>6, Zenon DEF iter
<1> DEFINE f == [k \in 0 .. n |-> iter[1 .. k]]
<1>8. f[0] = ChainStart /\ f[n] = iter[1 .. n]
  <2>1. 0 \in 0 .. n /\ n \in 0 .. n /\ 1 .. 0 = {} /\ {} \in SUBSET (1 .. n)
    BY <1>1
  <2>2. iter[{}] = ChainStart
    BY <1>7, <2>1
  <2> QED BY <2>1, <2>2
<1>9. ASSUME NEW k \in 1 .. n PROVE f[k] = Round(f[k - 1], k)
  <2>1. k \in Nat /\ k # 0 /\ k \in 0 .. n /\ k - 1 \in 0 .. n /\ 1 .. k \in SUBSET (1 .. n)
    BY <1>1
  <2>2. Max(1 .. k) = k /\ (1 .. k) \ {k} = 1 .. k - 1 /\ 1 .. k # {}
    BY <2>1, IntervalMax
  <2>3. iter[1 .. k] = Round(iter[1 .. k - 1], k)
    BY <1>7, <2>1, <2>2
  <2> QED BY <2>1, <2>3
<1> HIDE DEF f
<1> QED BY <1>4, <1>8, <1>9 DEF Round, order, n

\* The sets HardSlotIsSafe speaks of, for the hooks that were seen.
Mine(hooks, slot, seen) == {k \in seen : hooks[k].slot = slot}

Stoppers(hooks, slot, seen) ==
    {k \in Mine(hooks, slot, seen) : slot \in HardSlots /\ hooks[k].result # "allow"}

Ran(hooks, slot, seen) ==
    {k \in Mine(hooks, slot, seen) : ~\E j \in Stoppers(hooks, slot, seen) : Ahead(hooks, j, k)}

Deciding(hooks, slot, seen) ==
    {k \in Ran(hooks, slot, seen) \ Stoppers(hooks, slot, seen) :
        hooks[k].result # "error" /\ hooks[k].flow # 0}

FlowInv(hooks, deciding, flow) ==
    IF deciding = {} THEN flow = 0
    ELSE \E k \in deciding : flow = hooks[k].flow /\ \A j \in deciding \ {k} : Ahead(hooks, j, k)

\* What the outcome says of the hooks seen so far.
ChainInv(hooks, slot, seen, acc) ==
    /\ acc \in ChainTypes(hooks)
    /\ acc.over <=> Stoppers(hooks, slot, seen) # {}
    /\ Proceeds(acc) <=> Stoppers(hooks, slot, seen) = {}
    /\ ToSet(acc.ran) = Ran(hooks, slot, seen)
    /\ FlowInv(hooks, Deciding(hooks, slot, seen), acc.flow)

\* A round keeps it (chain.go:29-52).
LEMMA ChainStep ==
  ASSUME NEW hooks, AreHooks(hooks), NEW slot, NEW seen \in SUBSET DOMAIN hooks, NEW acc,
         ChainInv(hooks, slot, seen, acc), NEW x \in DOMAIN hooks, x \notin seen,
         \A y \in seen : Ahead(hooks, y, x) /\ ~Ahead(hooks, x, y)
  PROVE  ChainInv(hooks, slot, seen \cup {x}, ApplyHook(acc, x, hooks[x], slot))
<1> DEFINE next == ApplyHook(acc, x, hooks[x], slot)
           all == seen \cup {x}
           St == Stoppers(hooks, slot, seen)
           Rn == Ran(hooks, slot, seen)
           De == Deciding(hooks, slot, seen)
<1>1. next \in ChainTypes(hooks)
  BY ApplyHookType DEF ChainInv
<1>2. ~Ahead(hooks, x, x)
  BY DEF AreHooks, IsSequence, Ahead
<1>3. acc.over \in BOOLEAN /\ acc.ran \in Seq(DOMAIN hooks)
  BY DEF ChainInv, ChainTypes
<1>4. CASE hooks[x].slot # slot
  <2>1. next = acc
    BY <1>4 DEF ApplyHook
  <2>2. Mine(hooks, slot, all) = Mine(hooks, slot, seen)
    BY <1>4 DEF Mine
  <2> QED BY <2>1, <2>2 DEF ChainInv, Stoppers, Ran, Deciding
<1>5. CASE hooks[x].slot = slot /\ acc.over
  <2>1. next = acc
    BY <1>5 DEF ApplyHook
  <2>2. Mine(hooks, slot, all) = Mine(hooks, slot, seen) \cup {x}
    BY <1>5 DEF Mine
  <2>3. St # {} /\ Stoppers(hooks, slot, all) # {}
    BY <1>5, <2>2 DEF ChainInv, Stoppers
  <2>4. Ran(hooks, slot, all) = Rn
    BY <2>2, <2>3 DEF Ran, Stoppers, Mine
  <2>5. Deciding(hooks, slot, all) = De
    BY <2>2, <2>4 DEF Deciding, Stoppers, Ran, Mine
  <2> QED BY <2>1, <2>3, <2>4, <2>5 DEF ChainInv
<1>6. CASE hooks[x].slot = slot /\ ~acc.over
  <2> DEFINE stops == Stops(slot, hooks[x].result)
  <2>1. St = {} /\ Mine(hooks, slot, all) = Mine(hooks, slot, seen) \cup {x}
    BY <1>6 DEF Mine, ChainInv
  <2>2. Stoppers(hooks, slot, all) = IF stops THEN {x} ELSE {}
    BY <1>6, <2>1 DEF Stoppers, Stops
  <2>3. Ran(hooks, slot, all) = Rn \cup {x}
    BY <1>2, <1>6, <2>1, <2>2 DEF Ran, Mine
  <2>4. next.over = stops /\ (Proceeds(next) <=> ~stops)
    BY <1>6, <1>3 DEF ApplyHook, Stops, Proceeds, AreHooks
  <2>5. next.ran = Append(acc.ran, x)
    BY <1>6 DEF ApplyHook
  <2>6. ToSet(next.ran) = ToSet(acc.ran) \cup {x}
    <3>1. \A k \in 1 .. Len(acc.ran) : k \in DOMAIN next.ran /\ next.ran[k] = acc.ran[k]
      BY <1>3, <2>5
    <3>2. Len(acc.ran) + 1 \in DOMAIN next.ran /\ next.ran[Len(acc.ran) + 1] = x
      BY <1>3, <2>5
    <3>3. DOMAIN next.ran = (1 .. Len(acc.ran)) \cup {Len(acc.ran) + 1} /\ DOMAIN acc.ran = 1 .. Len(acc.ran)
      BY <1>3, <2>5
    <3> QED BY <3>1, <3>2, <3>3 DEF ToSet
  <2>7. FlowInv(hooks, Deciding(hooks, slot, all), next.flow)
    <3>1. CASE hooks[x].result = "error" \/ stops \/ hooks[x].flow = 0
      <4>1. next.flow = acc.flow
        BY <1>6, <3>1 DEF ApplyHook
      <4>2. Deciding(hooks, slot, all) = De
        BY <2>1, <2>2, <2>3, <3>1 DEF Deciding, Ran, Mine
      <4> QED BY <4>1, <4>2 DEF ChainInv
    <3>2. CASE ~(hooks[x].result = "error" \/ stops \/ hooks[x].flow = 0)
      <4>1. next.flow = hooks[x].flow
        BY <1>6, <3>2 DEF ApplyHook
      <4>2. Deciding(hooks, slot, all) = De \cup {x} /\ De \subseteq seen
        BY <2>1, <2>2, <2>3, <3>2 DEF Deciding, Ran, Mine
      <4> QED BY <4>1, <4>2 DEF FlowInv
    <3> QED BY <3>1, <3>2
  <2> QED BY <1>1, <2>2, <2>3, <2>4, <2>6, <2>7 DEF ChainInv
<1> QED BY <1>3, <1>4, <1>5, <1>6

\* For every list of hooks, a chain for a hard slot lets the operation go on only
\* if every hook of the slot allowed it, hooks after the one that stopped it do
\* not run, all before it do, and the last flow decision counts (chain.go:12-52).
THEOREM HardSlotTheorem == Sampled => HardSlotIsSafe
<1> SUFFICES ASSUME NEW hooks, AreHooks(hooks), NEW slot
             PROVE  LET all == DOMAIN hooks
                        outcome == Apply(hooks, slot)
                    IN  /\ Proceeds(outcome) <=> Stoppers(hooks, slot, all) = {}
                        /\ ToSet(outcome.ran) = Ran(hooks, slot, all)
                        /\ FlowInv(hooks, Deciding(hooks, slot, all), outcome.flow)
  <2> SUFFICES ASSUME Sampled, sample.kind = "hooks" PROVE HardSlotIsSafe
    BY DEF HardSlotIsSafe
  <2>1. PICK h \in HookLists, s \in {"input", "flow"} : sample = [kind |-> "hooks", hooks |-> h, slot |-> s]
    BY DEF Sampled
  <2>2. AreHooks(h) /\ sample.hooks = h /\ sample.slot = s
    BY <2>1, InputsAssumption
  <2> QED
    BY <2>2 DEF HardSlotIsSafe, Stoppers, Ran, Deciding, FlowInv, Mine, Ahead
<1> DEFINE n == Len(hooks)
           order == NewChain(hooks)
           S == DOMAIN hooks
           below == [k \in S |-> {j \in S : Ahead(hooks, j, k)}]
<1>1. n \in Nat /\ Cardinality(S) = n /\ IsTotalOrder(S, below) /\ Sorts(S, below, order)
  BY ChainOrder
<1>2. PICK f : /\ f[0] = ChainStart
               /\ \A k \in 1 .. n : f[k] = ApplyHook(f[k - 1], order[k], hooks[order[k]], slot)
               /\ f[n] = Apply(hooks, slot)
  BY ChainRounds
<1>3. \A j, k \in S : j \in below[k] <=> Ahead(hooks, j, k)
  OBVIOUS
<1> HIDE DEF n, order, below
<1> DEFINE Holds(k) == ChainInv(hooks, slot, Seen(order, k), f[k])
           T == {k \in 0 .. n : Holds(k)}
<1>4. 0 \in T
  <2>1. ToSet(<<>>) = {} /\ 0 \in 0 .. n
    BY <1>1 DEF ToSet
  <2>2. ChainStart \in ChainTypes(hooks)
    BY DEF ChainStart, ChainTypes
  <2>3. ChainInv(hooks, slot, {}, ChainStart)
    BY <2>1, <2>2 DEF ChainInv, ChainStart, Stoppers, Ran, Deciding, FlowInv, Mine, Proceeds
  <2>4. Holds(0)
    BY <1>2, <2>3, SeenRound
  <2> QED BY <2>1, <2>4
<1>5. ASSUME NEW k \in 0 .. n - 1, k \in T PROVE k + 1 \in T
  <2>1. k \in Nat /\ k + 1 \in 1 .. n /\ k + 1 \in 0 .. n /\ (k + 1) - 1 = k
    BY <1>1
  <2>2. f[k + 1] = ApplyHook(f[k], order[k + 1], hooks[order[k + 1]], slot)
    BY <1>2, <2>1
  <2>3. /\ Seen(order, k) \in SUBSET S
        /\ order[k + 1] \in S \ Seen(order, k)
        /\ \A y \in Seen(order, k) : y \in below[order[k + 1]] /\ order[k + 1] \notin below[y]
    BY <1>1, SeenInOrder
  <2>4. \A y \in Seen(order, k) : Ahead(hooks, y, order[k + 1]) /\ ~Ahead(hooks, order[k + 1], y)
    BY <1>3, <2>3
  <2>5. Holds(k)
    BY <1>5
  <2>6. ChainInv(hooks, slot, Seen(order, k) \cup {order[k + 1]}, f[k + 1])
    BY <2>2, <2>3, <2>4, <2>5, ChainStep
  <2>7. Holds(k + 1)
    BY <2>1, <2>6, SeenRound
  <2> QED BY <2>1, <2>7
<1> HIDE DEF T
<1>6. n \in T
  BY <1>1, <1>4, <1>5, SetInduction
<1>7. Seen(order, n) = S
  BY <1>1, SeenAll
<1> QED BY <1>2, <1>6, <1>7 DEF T, ChainInv

-----------------------------------------------------------------------------
(* The skills *)

\* The scopes are sorted by rank (skills/registry.go:41-45).
LEMMA ScopesInOrder ==
  ASSUME NEW scopes, AreScopes(scopes)
  PROVE  LET S == DOMAIN scopes
             below == [k \in S |-> {j \in S : scopes[j].rank < scopes[k].rank}]
         IN  /\ Len(scopes) \in Nat /\ S = 1 .. Len(scopes) /\ Cardinality(S) = Len(scopes)
             /\ IsTotalOrder(S, below)
             /\ Sorts(S, below, ScopeOrder(scopes))
<1> DEFINE n == Len(scopes)
           S == DOMAIN scopes
           below == [k \in S |-> {j \in S : scopes[j].rank < scopes[k].rank}]
           order == ScopeOrder(scopes)
<1>1. /\ scopes \in Seq(ToSet(scopes)) /\ \A k \in DOMAIN scopes : scopes[k].rank \in Nat
      /\ \A j, k \in DOMAIN scopes : scopes[j].rank = scopes[k].rank => j = k
  BY DEF AreScopes, IsSequence
<1>2. n \in Nat /\ S = 1 .. n
  BY <1>1
<1>3. IsFiniteSet(S) /\ Cardinality(S) = n
  <2>1. IsFiniteSet(1 .. n) /\ Cardinality(1 .. n) = IF 1 > n THEN 0 ELSE n - 1 + 1
    BY <1>2, FS_Interval
  <2> QED BY <1>2, <2>1
<1>4. IsSort(S, below, order)
  <2>1. order = [k \in 1 .. Cardinality(S) |->
                   CHOOSE x \in S : Cardinality({j \in S : scopes[j].rank < scopes[x].rank}) = k - 1]
    BY DEF ScopeOrder, SortedBy
  <2> QED BY <2>1 DEF IsSort
<1>5. IsTotalOrder(S, below)
  BY <1>1 DEF IsTotalOrder
<1> HIDE DEF order, below, S
<1>6. Sorts(S, below, order)
  BY <1>3, <1>4, <1>5, SortOfTotalOrder
<1> QED BY <1>2, <1>3, <1>5, <1>6 DEF order, S, n, below

\* What was found before any scope, and what can be.
NothingFound == [ok |-> TRUE, found |-> [name \in {} |-> 0]]

AllNames(scopes) == UNION {ValidNames(scopes[k]) : k \in DOMAIN scopes}

FoundTypes(scopes) ==
    [ok : BOOLEAN, found : UNION {[names -> Nat] : names \in SUBSET AllNames(scopes)}]

\* A round of the search keeps the type.
LEMMA AddScopeType ==
  ASSUME NEW scopes, AreScopes(scopes), NEW acc \in FoundTypes(scopes), NEW k \in DOMAIN scopes
  PROVE  AddScope(acc, scopes[k]) \in FoundTypes(scopes)
<1> DEFINE F == UNION {[names -> Nat] : names \in SUBSET AllNames(scopes)}
           more == AddSkills(scopes[k], acc.found)
<1>1. acc.found \in F /\ acc \in [ok : BOOLEAN, found : F]
  BY DEF FoundTypes
<1>2. more \in F
  <2>1. PICK names \in SUBSET AllNames(scopes) : acc.found \in [names -> Nat]
    BY <1>1
  <2>2. names \cup ValidNames(scopes[k]) \in SUBSET AllNames(scopes)
    BY DEF AllNames
  <2>3. more \in [names \cup ValidNames(scopes[k]) -> Nat]
    BY <2>1 DEF AddSkills, AreScopes
  <2> QED BY <2>2, <2>3
<1> HIDE DEF F, more
<1>3. \/ AddScope(acc, scopes[k]) = acc
      \/ AddScope(acc, scopes[k]) = [acc EXCEPT !.ok = FALSE]
      \/ AddScope(acc, scopes[k]) = [acc EXCEPT !.found = more]
  BY DEF AddScope, more
<1>4. /\ [acc EXCEPT !.ok = FALSE] \in [ok : BOOLEAN, found : F]
      /\ [acc EXCEPT !.found = more] \in [ok : BOOLEAN, found : F]
  BY <1>1, <1>2
<1> QED BY <1>1, <1>3, <1>4 DEF FoundTypes, F

\* LoadAll is its rounds, one for every scope in order.
LEMMA ScopeRounds ==
  ASSUME NEW scopes, AreScopes(scopes)
  PROVE  \E f : /\ f[0] = NothingFound
                /\ \A k \in 1 .. Len(scopes) : f[k] = AddScope(f[k - 1], scopes[ScopeOrder(scopes)[k]])
                /\ f[Len(scopes)] = LoadAll(scopes)
<1> DEFINE n == Len(scopes)
           order == ScopeOrder(scopes)
           Round(acc, k) == AddScope(acc, scopes[order[k]])
           S == FoundTypes(scopes)
           D == [p \in S \X (1 .. n) |-> Round(p[1], p[2])]
           iter == CHOOSE iter : iter = [s \in SUBSET (1 .. n) |->
                      IF s = {} THEN NothingFound ELSE Round(iter[s \ {Max(s)}], Max(s))]
<1>1. n \in Nat /\ order \in [1 .. n -> DOMAIN scopes]
  BY ScopesInOrder DEF Sorts
<1>2. IsRound(n, S, D)
  BY <1>1, AddScopeType DEF IsRound
<1>3. NothingFound \in S
  <2>1. {} \in SUBSET AllNames(scopes) /\ [name \in {} |-> 0] \in [{} -> Nat]
    OBVIOUS
  <2>2. [name \in {} |-> 0] \in UNION {[names -> Nat] : names \in SUBSET AllNames(scopes)}
    BY <2>1
  <2> QED BY <2>2 DEF NothingFound, FoundTypes
<1>4. \A x \in S, k \in 1 .. n : D[<<x, k>>] = Round(x, k)
  OBVIOUS
<1>5. LoadAll(scopes) = iter[1 .. n]
  BY <1>1 DEF LoadAll, FoldLeft, MapThenFoldSet, NothingFound
<1> HIDE DEF D, S, order, n, Round, iter
<1>6. PICK g : Folds(n, S, D, NothingFound, g)
  BY <1>1, <1>2, <1>3, FoldExists
<1>7. g = [s \in SUBSET (1 .. n) |-> IF s = {} THEN NothingFound ELSE Round(g[s \ {Max(s)}], Max(s))]
  <2>1. ASSUME NEW s \in SUBSET (1 .. n)
        PROVE  g[s] = IF s = {} THEN NothingFound ELSE Round(g[s \ {Max(s)}], Max(s))
    BY <1>1, <1>4, <1>6, MaxOfPart DEF Folds
  <2> QED BY <1>6, <2>1 DEF Folds
<1>8. iter = [s \in SUBSET (1 .. n) |-> IF s = {} THEN NothingFound ELSE Round(iter[s \ {Max(s)}], Max(s))]
  BY <1>7, Zenon DEF iter
<1> DEFINE f == [k \in 0 .. n |-> iter[1 .. k]]
<1>9. f[0] = NothingFound /\ f[n] = iter[1 .. n]
  <2>1. 0 \in 0 .. n /\ n \in 0 .. n /\ 1 .. 0 = {} /\ {} \in SUBSET (1 .. n)
    BY <1>1
  <2>2. iter[{}] = NothingFound
    BY <1>8, <2>1
  <2> QED BY <2>1, <2>2
<1>10. ASSUME NEW k \in 1 .. n PROVE f[k] = Round(f[k - 1], k)
  <2>1. k \in Nat /\ k # 0 /\ k \in 0 .. n /\ k - 1 \in 0 .. n /\ 1 .. k \in SUBSET (1 .. n)
    BY <1>1
  <2>2. Max(1 .. k) = k /\ (1 .. k) \ {k} = 1 .. k - 1 /\ 1 .. k # {}
    BY <2>1, IntervalMax
  <2>3. iter[1 .. k] = Round(iter[1 .. k - 1], k)
    BY <1>8, <2>1, <2>2
  <2> QED BY <2>1, <2>3
<1> HIDE DEF f
<1> QED BY <1>5, <1>9, <1>10 DEF Round, order, n

\* A scope has a valid skill of this name.
Offers(scope, name) == scope.dir = "readable" /\ name \in ValidNames(scope)

\* What was found in the scopes seen so far.
FoundInv(scopes, seen, acc) ==
    /\ acc \in FoundTypes(scopes)
    /\ acc.ok <=> \A k \in seen : scopes[k].dir # "broken"
    /\ acc.ok => /\ \A name : name \in DOMAIN acc.found <=> \E k \in seen : Offers(scopes[k], name)
                 /\ \A name \in DOMAIN acc.found : \E k \in seen :
                       /\ Offers(scopes[k], name) /\ acc.found[name] = scopes[k].rank
                       /\ \A l \in seen : Offers(scopes[l], name) => scopes[k].rank <= scopes[l].rank

\* A round keeps it (skills/registry.go:46-67).
LEMMA ScopeStep ==
  ASSUME NEW scopes, AreScopes(scopes), NEW seen \in SUBSET DOMAIN scopes, NEW acc,
         FoundInv(scopes, seen, acc), NEW x \in DOMAIN scopes,
         \A y \in seen : scopes[y].rank < scopes[x].rank
  PROVE  FoundInv(scopes, seen \cup {x}, AddScope(acc, scopes[x]))
<1> DEFINE next == AddScope(acc, scopes[x])
           all == seen \cup {x}
<1>1. next \in FoundTypes(scopes) /\ acc.ok \in BOOLEAN /\ next.ok \in BOOLEAN
  BY AddScopeType DEF FoundInv, FoundTypes
<1>2. \A k \in DOMAIN scopes : scopes[k].rank \in Nat /\ scopes[k].dir \in {"absent", "broken", "readable"}
  BY DEF AreScopes
<1>3. acc = [ok |-> acc.ok, found |-> acc.found]
  BY DEF FoundInv, FoundTypes
<1>4. CASE ~acc.ok \/ scopes[x].dir = "absent"
  <2>1. next = acc
    BY <1>4 DEF AddScope
  <2>2. \A name : ~Offers(scopes[x], name) \/ ~acc.ok
    BY <1>4 DEF Offers
  <2>3. acc.ok => scopes[x].dir # "broken"
    BY <1>4
  <2> QED BY <1>1, <2>1, <2>2, <2>3 DEF FoundInv
<1>5. CASE acc.ok /\ scopes[x].dir = "broken"
  <2>1. next.ok = FALSE
    BY <1>3, <1>5 DEF AddScope
  <2> QED BY <1>1, <1>5, <2>1 DEF FoundInv
<1>6. CASE acc.ok /\ scopes[x].dir = "readable"
  <2>1. next.ok = TRUE /\ next.found = AddSkills(scopes[x], acc.found)
    BY <1>3, <1>6 DEF AddScope
  <2>2. DOMAIN next.found = DOMAIN acc.found \cup ValidNames(scopes[x])
    BY <2>1 DEF AddSkills
  <2>3. \A name : name \in DOMAIN next.found <=> \E k \in all : Offers(scopes[k], name)
    BY <1>6, <2>2 DEF FoundInv, Offers
  <2>4. ASSUME NEW name \in DOMAIN next.found
        PROVE  \E k \in all :
                  /\ Offers(scopes[k], name) /\ next.found[name] = scopes[k].rank
                  /\ \A l \in all : Offers(scopes[l], name) => scopes[k].rank <= scopes[l].rank
    <3>1. CASE name \in DOMAIN acc.found
      <4>1. next.found[name] = acc.found[name]
        BY <2>1, <3>1 DEF AddSkills
      <4>2. PICK k \in seen :
               /\ Offers(scopes[k], name) /\ acc.found[name] = scopes[k].rank
               /\ \A l \in seen : Offers(scopes[l], name) => scopes[k].rank <= scopes[l].rank
        BY <1>6, <3>1 DEF FoundInv
      <4>3. scopes[k].rank <= scopes[x].rank
        BY <1>2
      <4> QED BY <4>1, <4>2, <4>3
    <3>2. CASE name \notin DOMAIN acc.found
      <4>1. next.found[name] = scopes[x].rank /\ name \in ValidNames(scopes[x])
        BY <2>1, <2>2, <3>2 DEF AddSkills
      <4>2. \A l \in seen : ~Offers(scopes[l], name)
        BY <1>6, <3>2 DEF FoundInv
      <4>3. Offers(scopes[x], name) /\ scopes[x].rank <= scopes[x].rank
        BY <1>2, <1>6, <4>1 DEF Offers
      <4> QED BY <4>1, <4>2, <4>3
    <3> QED BY <3>1, <3>2
  <2>5. \A k \in all : scopes[k].dir # "broken"
    BY <1>6 DEF FoundInv
  <2> QED BY <1>1, <2>1, <2>3, <2>4, <2>5 DEF FoundInv
<1> QED BY <1>1, <1>2, <1>4, <1>5, <1>6

\* For every list of scopes, a skill comes from the first scope, by rank, that
\* has a valid one of its name, in whatever order the scopes are given
\* (skills/registry.go:41-69).
THEOREM SkillTheorem == Sampled => FirstValidSkillWins
<1> SUFFICES ASSUME NEW scopes, AreScopes(scopes)
             PROVE  FoundInv(scopes, DOMAIN scopes, LoadAll(scopes))
  <2> SUFFICES ASSUME Sampled, sample.kind = "skills" PROVE FirstValidSkillWins
    BY DEF FirstValidSkillWins
  <2>1. PICK s \in ScopeLists : sample = [kind |-> "skills", scopes |-> s]
    BY DEF Sampled
  <2>2. AreScopes(s) /\ sample.scopes = s
    BY <2>1, InputsAssumption
  <2>3. FoundInv(s, DOMAIN s, LoadAll(s))
    BY <2>2
  <2> DEFINE Has(k, name) == /\ s[k].dir = "readable"
                             /\ \E t \in ToSet(s[k].skills) : t.valid /\ t.name = name
             names == UNION {{t.name : t \in ToSet(s[k].skills)} : k \in DOMAIN s}
  <2>4. \A k, name : Has(k, name) <=> Offers(s[k], name)
    BY DEF Offers, ValidNames
  <2>5. \A name : \A k \in DOMAIN s : Has(k, name) => name \in names
    OBVIOUS
  <2> HIDE DEF Has, names
  <2>6. LET loaded == LoadAll(s)
        IN  /\ loaded.ok <=> \A k \in DOMAIN s : s[k].dir # "broken"
            /\ loaded.ok =>
                  /\ DOMAIN loaded.found = {name \in names : \E k \in DOMAIN s : Has(k, name)}
                  /\ \A name \in DOMAIN loaded.found : \E k \in DOMAIN s :
                        /\ Has(k, name) /\ loaded.found[name] = s[k].rank
                        /\ \A l \in DOMAIN s : Has(l, name) => s[k].rank <= s[l].rank
    BY <2>3, <2>4, <2>5 DEF FoundInv
  <2> QED BY <2>2, <2>6 DEF FirstValidSkillWins, Has, names
<1> DEFINE n == Len(scopes)
           order == ScopeOrder(scopes)
           S == DOMAIN scopes
           below == [k \in S |-> {j \in S : scopes[j].rank < scopes[k].rank}]
<1>1. n \in Nat /\ Cardinality(S) = n /\ IsTotalOrder(S, below) /\ Sorts(S, below, order)
  BY ScopesInOrder
<1>2. PICK f : /\ f[0] = NothingFound
               /\ \A k \in 1 .. n : f[k] = AddScope(f[k - 1], scopes[order[k]])
               /\ f[n] = LoadAll(scopes)
  BY ScopeRounds
<1>3. \A j, k \in S : j \in below[k] <=> scopes[j].rank < scopes[k].rank
  OBVIOUS
<1> HIDE DEF n, order, below
<1> DEFINE Holds(k) == FoundInv(scopes, Seen(order, k), f[k])
           T == {k \in 0 .. n : Holds(k)}
<1>4. 0 \in T
  <2>1. 0 \in 0 .. n
    BY <1>1
  <2>2. NothingFound \in FoundTypes(scopes)
    <3>1. {} \in SUBSET AllNames(scopes) /\ [name \in {} |-> 0] \in [{} -> Nat]
      OBVIOUS
    <3>2. [name \in {} |-> 0] \in UNION {[names -> Nat] : names \in SUBSET AllNames(scopes)}
      BY <3>1
    <3> QED BY <3>2 DEF NothingFound, FoundTypes
  <2>3. FoundInv(scopes, {}, NothingFound)
    BY <2>2 DEF FoundInv, NothingFound
  <2>4. Holds(0)
    BY <1>2, <2>3, SeenRound
  <2> QED BY <2>1, <2>4
<1>5. ASSUME NEW k \in 0 .. n - 1, k \in T PROVE k + 1 \in T
  <2>1. k \in Nat /\ k + 1 \in 1 .. n /\ k + 1 \in 0 .. n /\ (k + 1) - 1 = k
    BY <1>1
  <2>2. f[k + 1] = AddScope(f[k], scopes[order[k + 1]])
    BY <1>2, <2>1
  <2>3. /\ Seen(order, k) \in SUBSET S
        /\ order[k + 1] \in S \ Seen(order, k)
        /\ \A y \in Seen(order, k) : y \in below[order[k + 1]] /\ order[k + 1] \notin below[y]
    BY <1>1, SeenInOrder
  <2>4. \A y \in Seen(order, k) : scopes[y].rank < scopes[order[k + 1]].rank
    BY <1>3, <2>3
  <2>5. Holds(k)
    BY <1>5
  <2>6. FoundInv(scopes, Seen(order, k) \cup {order[k + 1]}, f[k + 1])
    BY <2>2, <2>3, <2>4, <2>5, ScopeStep
  <2>7. Holds(k + 1)
    BY <2>1, <2>6, SeenRound
  <2> QED BY <2>1, <2>7
<1> HIDE DEF T
<1>6. n \in T
  BY <1>1, <1>4, <1>5, SetInduction
<1>7. Seen(order, n) = S
  BY <1>1, SeenAll
<1> QED BY <1>2, <1>6, <1>7 DEF T

-----------------------------------------------------------------------------
(* The prompt builder *)

\* A round of the sum of the selected sections' tokens.
AddTokens(sections, selected, sum, k) == IF k \in selected THEN sum + sections[k].tokens ELSE sum

\* What the sections of a prompt are.
LEMMA SectionFacts ==
  ASSUME NEW sections, AreSections(sections)
  PROVE  /\ Len(sections) \in Nat /\ DOMAIN sections = 1 .. Len(sections)
         /\ \A k \in DOMAIN sections : /\ sections[k].tokens \in Nat
                                       /\ sections[k].required \in BOOLEAN
                                       /\ sections[k].priority \in Int
         /\ IsFiniteSet(DOMAIN sections) /\ Cardinality(DOMAIN sections) = Len(sections)
<1>1. /\ sections \in Seq(ToSet(sections))
      /\ \A k \in DOMAIN sections : /\ sections[k].tokens \in Nat
                                    /\ sections[k].required \in BOOLEAN
                                    /\ sections[k].priority \in Int
  BY DEF AreSections, IsSequence
<1>2. Len(sections) \in Nat /\ DOMAIN sections = 1 .. Len(sections)
  BY <1>1
<1>3. IsFiniteSet(1 .. Len(sections)) /\ Cardinality(1 .. Len(sections)) = Len(sections)
  <2>1. /\ IsFiniteSet(1 .. Len(sections))
        /\ Cardinality(1 .. Len(sections)) = IF 1 > Len(sections) THEN 0 ELSE Len(sections) - 1 + 1
    BY <1>2, FS_Interval
  <2> QED BY <1>2, <2>1
<1> QED BY <1>1, <1>2, <1>3

\* totalTokens is its rounds.
LEMMA TotalRounds ==
  ASSUME NEW sections, AreSections(sections), NEW selected
  PROVE  \E f : /\ f[0] = 0
                /\ \A k \in 1 .. Len(sections) : f[k] = AddTokens(sections, selected, f[k - 1], k)
                /\ f[Len(sections)] = totalTokens(sections, selected)
<1> DEFINE n == Len(sections)
           seq == [k \in DOMAIN sections |-> k]
           Round(acc, k) == AddTokens(sections, selected, acc, seq[k])
           D == [p \in Nat \X (1 .. n) |-> Round(p[1], p[2])]
           iter == CHOOSE iter : iter = [s \in SUBSET (1 .. n) |->
                      IF s = {} THEN 0 ELSE Round(iter[s \ {Max(s)}], Max(s))]
<1>1. n \in Nat /\ DOMAIN sections = 1 .. n /\ \A k \in 1 .. n : sections[k].tokens \in Nat
  BY SectionFacts
<1>2. IsRound(n, Nat, D)
  BY <1>1 DEF IsRound, AddTokens
<1>3. \A x \in Nat, k \in 1 .. n : D[<<x, k>>] = Round(x, k)
  OBVIOUS
<1>4. totalTokens(sections, selected) = iter[1 .. n]
  <2>1. DOMAIN seq = 1 .. n
    BY <1>1
  <2> QED BY <2>1 DEF totalTokens, FoldLeft, MapThenFoldSet, AddTokens
<1>5. \A k \in 1 .. n : seq[k] = k
  BY <1>1
<1> HIDE DEF D, n, seq, Round, iter
<1>6. PICK g : Folds(n, Nat, D, 0, g)
  BY <1>1, <1>2, FoldExists
<1>7. g = [s \in SUBSET (1 .. n) |-> IF s = {} THEN 0 ELSE Round(g[s \ {Max(s)}], Max(s))]
  <2>1. ASSUME NEW s \in SUBSET (1 .. n)
        PROVE  g[s] = IF s = {} THEN 0 ELSE Round(g[s \ {Max(s)}], Max(s))
    BY <1>1, <1>3, <1>6, MaxOfPart DEF Folds
  <2> QED BY <1>6, <2>1 DEF Folds
<1>8. iter = [s \in SUBSET (1 .. n) |-> IF s = {} THEN 0 ELSE Round(iter[s \ {Max(s)}], Max(s))]
  BY <1>7, Zenon DEF iter
<1> DEFINE f == [k \in 0 .. n |-> iter[1 .. k]]
<1>9. f[0] = 0 /\ f[n] = iter[1 .. n]
  <2>1. 0 \in 0 .. n /\ n \in 0 .. n /\ 1 .. 0 = {} /\ {} \in SUBSET (1 .. n)
    BY <1>1
  <2>2. iter[{}] = 0
    BY <1>8, <2>1
  <2> QED BY <2>1, <2>2
<1>10. ASSUME NEW k \in 1 .. n PROVE f[k] = Round(f[k - 1], k)
  <2>1. k \in Nat /\ k # 0 /\ k \in 0 .. n /\ k - 1 \in 0 .. n /\ 1 .. k \in SUBSET (1 .. n)
    BY <1>1
  <2>2. Max(1 .. k) = k /\ (1 .. k) \ {k} = 1 .. k - 1 /\ 1 .. k # {}
    BY <2>1, IntervalMax
  <2>3. iter[1 .. k] = Round(iter[1 .. k - 1], k)
    BY <1>8, <2>1, <2>2
  <2> QED BY <2>1, <2>3
<1> HIDE DEF f
<1> QED BY <1>4, <1>5, <1>9, <1>10 DEF Round, n

\* The tokens of a selection are those of one of its sections and of the others.
LEMMA TotalOfPart ==
  ASSUME NEW sections, AreSections(sections), NEW A \in SUBSET DOMAIN sections
  PROVE  /\ totalTokens(sections, A) \in Nat
         /\ totalTokens(sections, {}) = 0
         /\ \A x \in A : totalTokens(sections, A) = sections[x].tokens + totalTokens(sections, A \ {x})
<1> DEFINE n == Len(sections)
<1>1. n \in Nat /\ DOMAIN sections = 1 .. n /\ \A k \in 1 .. n : sections[k].tokens \in Nat
  BY SectionFacts
<1>2. ASSUME NEW C \in SUBSET DOMAIN sections, NEW x \in DOMAIN sections
      PROVE  /\ totalTokens(sections, C) \in Nat
             /\ x \in C => totalTokens(sections, C) = sections[x].tokens + totalTokens(sections, C \ {x})
             /\ C = {} => totalTokens(sections, C) = 0
  <2>1. PICK f : /\ f[0] = 0
                 /\ \A k \in 1 .. n : f[k] = AddTokens(sections, C, f[k - 1], k)
                 /\ f[n] = totalTokens(sections, C)
    BY TotalRounds
  <2>2. PICK g : /\ g[0] = 0
                 /\ \A k \in 1 .. n : g[k] = AddTokens(sections, C \ {x}, g[k - 1], k)
                 /\ g[n] = totalTokens(sections, C \ {x})
    BY TotalRounds
  <2> HIDE DEF n
  <2> DEFINE Holds(k) == /\ f[k] \in Nat /\ g[k] \in Nat
                         /\ C = {} => f[k] = 0
                         /\ x \in C => f[k] = IF x <= k THEN sections[x].tokens + g[k] ELSE g[k]
             T == {k \in 0 .. n : Holds(k)}
  <2>3. 0 \in T
    BY <1>1, <2>1, <2>2
  <2>4. ASSUME NEW k \in 0 .. n - 1, k \in T PROVE k + 1 \in T
    <3>1. k \in Nat /\ k + 1 \in 1 .. n /\ k + 1 \in 0 .. n /\ (k + 1) - 1 = k /\ sections[k + 1].tokens \in Nat
      BY <1>1
    <3>2. f[k + 1] = AddTokens(sections, C, f[k], k + 1) /\ g[k + 1] = AddTokens(sections, C \ {x}, g[k], k + 1)
      BY <2>1, <2>2, <3>1
    <3>3. Holds(k) /\ x \in Nat /\ sections[x].tokens \in Nat
      BY <1>1, <2>4
    <3>4. CASE k + 1 = x
      BY <3>1, <3>2, <3>3, <3>4 DEF AddTokens
    <3>5. CASE k + 1 # x
      <4>1. x <= k <=> x <= k + 1
        BY <3>1, <3>3, <3>5
      <4>2. CASE k + 1 \in C
        <5>1. f[k + 1] = f[k] + sections[k + 1].tokens /\ g[k + 1] = g[k] + sections[k + 1].tokens
          BY <3>2, <3>5, <4>2 DEF AddTokens
        <5> QED BY <3>1, <3>3, <4>1, <4>2, <5>1
      <4>3. CASE k + 1 \notin C
        <5>1. f[k + 1] = f[k] /\ g[k + 1] = g[k]
          BY <3>2, <4>3 DEF AddTokens
        <5> QED BY <3>1, <3>3, <4>1, <5>1
      <4> QED BY <4>2, <4>3
    <3> QED BY <3>4, <3>5
  <2> HIDE DEF T
  <2>5. n \in T
    BY <1>1, <2>3, <2>4, SetInduction
  <2>6. Holds(n) /\ x <= n
    BY <1>1, <2>5 DEF T
  <2> QED BY <1>1, <2>1, <2>2, <2>6
<1>3. ASSUME DOMAIN sections = {} PROVE totalTokens(sections, {}) = 0 /\ totalTokens(sections, A) \in Nat
  <2>1. n = 0
    BY <1>1, <1>3
  <2>2. A = {}
    BY <1>3
  <2>3. PICK f : f[0] = 0 /\ f[n] = totalTokens(sections, {})
    BY TotalRounds
  <2> QED BY <2>1, <2>2, <2>3
<1>4. {} \in SUBSET DOMAIN sections
  OBVIOUS
<1> QED BY <1>2, <1>3, <1>4

\* So they are what the reference definition says, which adds in any order.
LEMMA WeightIsTotal ==
  ASSUME NEW sections, AreSections(sections), NEW A \in SUBSET DOMAIN sections
  PROVE  Weight(sections, A) = totalTokens(sections, A)
<1> DEFINE fun == [j \in DOMAIN sections |-> sections[j].tokens]
           n == Len(sections)
           Pick(s) == CHOOSE x \in s : TRUE
           iter == CHOOSE iter : iter = [s \in SUBSET A |->
                      IF s = {} THEN 0 ELSE fun[Pick(s)] + iter[s \ {Pick(s)}]]
           g == [s \in SUBSET A |-> totalTokens(sections, s)]
<1>1. Weight(sections, A) = iter[A]
  BY DEF Weight, SumFunctionOnSet, FoldFunctionOnSet, MapThenFoldSet
<1>2. \A s \in SUBSET A : s # {} => Pick(s) \in s
  OBVIOUS
<1>3. \A x \in A : fun[x] = sections[x].tokens
  OBVIOUS
<1> HIDE DEF fun, Pick
<1>4. g = [s \in SUBSET A |-> IF s = {} THEN 0 ELSE fun[Pick(s)] + g[s \ {Pick(s)}]]
  <2>1. ASSUME NEW s \in SUBSET A PROVE g[s] = IF s = {} THEN 0 ELSE fun[Pick(s)] + g[s \ {Pick(s)}]
    <3>1. CASE s = {}
      BY <3>1, TotalOfPart
    <3>2. CASE s # {}
      <4>1. Pick(s) \in s /\ s \in SUBSET DOMAIN sections /\ s \ {Pick(s)} \in SUBSET A
        BY <1>2, <3>2
      <4>2. totalTokens(sections, s) = sections[Pick(s)].tokens + totalTokens(sections, s \ {Pick(s)})
        BY <4>1, TotalOfPart
      <4>3. fun[Pick(s)] = sections[Pick(s)].tokens
        BY <1>3, <4>1
      <4> QED BY <3>2, <4>1, <4>2, <4>3
    <3> QED BY <3>1, <3>2
  <2> QED BY <2>1
<1>5. iter = [s \in SUBSET A |-> IF s = {} THEN 0 ELSE fun[Pick(s)] + iter[s \ {Pick(s)}]]
  <2> HIDE DEF g
  <2> QED BY <1>4, Zenon DEF iter
<1> HIDE DEF g, iter, n
<1>6. n \in Nat /\ Cardinality(A) \in 0 .. n /\ \A s \in SUBSET A : IsFiniteSet(s)
  <2>1. n \in Nat /\ IsFiniteSet(DOMAIN sections) /\ Cardinality(DOMAIN sections) = n
    BY SectionFacts DEF n
  <2>2. IsFiniteSet(A) /\ Cardinality(A) <= n
    BY <2>1, FS_Subset
  <2>3. Cardinality(A) \in Nat
    BY <2>2, FS_CardinalityType
  <2> QED BY <2>1, <2>2, <2>3, FS_Subset
<1> DEFINE Holds(m) == \A s \in SUBSET A : Cardinality(s) = m => iter[s] = g[s]
           T == {m \in 0 .. Cardinality(A) : Holds(m)}
<1>7. 0 \in T
  <2>1. ASSUME NEW s \in SUBSET A, Cardinality(s) = 0 PROVE iter[s] = g[s]
    <3>1. s = {}
      BY <1>6, <2>1, FS_EmptySet
    <3> QED BY <1>4, <1>5, <3>1
  <2> QED BY <1>6, <2>1
<1>8. ASSUME NEW m \in 0 .. Cardinality(A) - 1, m \in T PROVE m + 1 \in T
  <2>1. m \in Nat /\ m + 1 \in 0 .. Cardinality(A)
    BY <1>6
  <2>2. ASSUME NEW s \in SUBSET A, Cardinality(s) = m + 1 PROVE iter[s] = g[s]
    <3>1. s # {}
      BY <2>1, <2>2, FS_EmptySet
    <3>2. Pick(s) \in s /\ s \ {Pick(s)} \in SUBSET A
      BY <1>2, <3>1
    <3>3. Cardinality(s \ {Pick(s)}) = m
      <4>1. IsFiniteSet(s)
        BY <1>6
      <4>2. Cardinality(s \ {Pick(s)}) = Cardinality(s) - 1
        BY <3>2, <4>1, FS_RemoveElement
      <4> QED BY <2>1, <2>2, <4>2
    <3>4. iter[s \ {Pick(s)}] = g[s \ {Pick(s)}]
      BY <1>8, <3>2, <3>3
    <3> QED BY <1>4, <1>5, <3>1, <3>4
  <2> QED BY <2>1, <2>2
<1> HIDE DEF T
<1>9. Cardinality(A) \in T
  BY <1>6, <1>7, <1>8, SetInduction
<1>10. iter[A] = g[A]
  BY <1>9 DEF T
<1> QED BY <1>1, <1>10 DEF g

\* The section that goes first is less important than every other optional one.
LEMMA LowestFacts ==
  ASSUME NEW sections, AreSections(sections), NEW selected \in SUBSET DOMAIN sections,
         Optional(sections, selected) # {}
  PROVE  LET k == lowestPriorityOptionalIndex(sections, selected)
         IN  /\ k \in Optional(sections, selected)
             /\ \A j \in Optional(sections, selected) : j = k \/ LessImportant(sections, k, j)
<1> DEFINE O == Optional(sections, selected)
           below == [x \in O |-> {y \in O : LessImportant(sections, y, x)}]
<1>1. /\ Len(sections) \in Nat /\ DOMAIN sections = 1 .. Len(sections)
      /\ \A k \in DOMAIN sections : sections[k].priority \in Int
      /\ IsFiniteSet(DOMAIN sections)
  BY SectionFacts
<1>2. O \in SUBSET DOMAIN sections /\ O # {}
  BY DEF Optional
<1>3. IsFiniteSet(O)
  BY <1>1, <1>2, FS_Subset
<1>4. IsTotalOrder(O, below)
  <2> HIDE DEF O
  <2>1. \A x \in O : x \in Int /\ sections[x].priority \in Int
    BY <1>1, <1>2
  <2> QED BY <2>1 DEF IsTotalOrder, LessImportant
<1>5. PICK x \in O : Cardinality(below[x]) = 0
  <2>1. Cardinality(O) \in Nat /\ Cardinality(O) # 0
    BY <1>2, <1>3, FS_CardinalityType, FS_EmptySet
  <2>2. 0 \in 0 .. Cardinality(O) - 1
    BY <2>1
  <2> HIDE DEF O, below
  <2> QED BY <1>3, <1>4, <2>2, RanksOfTotalOrder
<1>6. below[x] = {}
  <2>1. IsFiniteSet(below[x])
    BY <1>3, <1>4, FS_Subset DEF IsTotalOrder
  <2> QED BY <1>5, <2>1, FS_EmptySet
<1>7. \A j \in O : j = x \/ LessImportant(sections, x, j)
  BY <1>4, <1>6 DEF IsTotalOrder
<1>8. \A j \in O : \/ sections[x].priority < sections[j].priority
                   \/ sections[x].priority = sections[j].priority /\ x <= j
  BY <1>1, <1>2, <1>7 DEF LessImportant
<1> DEFINE k == lowestPriorityOptionalIndex(sections, selected)
<1>9. k \in O /\ \A j \in O : \/ sections[k].priority < sections[j].priority
                              \/ sections[k].priority = sections[j].priority /\ k <= j
  BY <1>8 DEF lowestPriorityOptionalIndex
<1> HIDE DEF k
<1>10. \A j \in O : j = k \/ LessImportant(sections, k, j)
  BY <1>1, <1>2, <1>9 DEF LessImportant
<1> QED BY <1>9, <1>10 DEF k

\* What selectSections begins with, and what it can reach.
SelectStart(sections) == [ok |-> TRUE, selected |-> DOMAIN sections, omitted |-> <<>>]

SelectTypes(sections) ==
    [ok : BOOLEAN, selected : SUBSET DOMAIN sections,
     omitted : Seq({sections[k].name : k \in DOMAIN sections})]

\* A round of the loop keeps the type.
LEMMA OmitType ==
  ASSUME NEW sections, AreSections(sections), NEW max, NEW acc \in SelectTypes(sections)
  PROVE  Omit(sections, acc, max) \in SelectTypes(sections)
<1> DEFINE N == Seq({sections[k].name : k \in DOMAIN sections})
           k == lowestPriorityOptionalIndex(sections, acc.selected)
<1>1. acc \in [ok : BOOLEAN, selected : SUBSET DOMAIN sections, omitted : N]
  BY DEF SelectTypes
<1>2. CASE totalTokens(sections, acc.selected) <= max \/ ~acc.ok
  BY <1>2 DEF Omit
<1>3. CASE Optional(sections, acc.selected) = {} /\ ~(totalTokens(sections, acc.selected) <= max \/ ~acc.ok)
  <2>1. Omit(sections, acc, max) = [acc EXCEPT !.ok = FALSE]
    BY <1>3 DEF Omit
  <2> HIDE DEF N
  <2>2. [acc EXCEPT !.ok = FALSE] \in [ok : BOOLEAN, selected : SUBSET DOMAIN sections, omitted : N]
    BY <1>1
  <2> QED BY <2>1, <2>2 DEF SelectTypes, N
<1>4. CASE Optional(sections, acc.selected) # {} /\ ~(totalTokens(sections, acc.selected) <= max \/ ~acc.ok)
  <2>1. Omit(sections, acc, max) = OmitAt(sections, acc, k)
    BY <1>4 DEF Omit
  <2>2. k \in DOMAIN sections
    BY <1>1, <1>4, LowestFacts DEF Optional
  <2>3. Append(acc.omitted, sections[k].name) \in N
    BY <1>1, <2>2
  <2> HIDE DEF N, k
  <2>4. OmitAt(sections, acc, k) \in [ok : BOOLEAN, selected : SUBSET DOMAIN sections, omitted : N]
    BY <1>1, <2>3 DEF OmitAt
  <2> QED BY <2>1, <2>4 DEF SelectTypes, N
<1> QED BY <1>2, <1>3, <1>4

\* selectSections is its rounds, if the required sections fit.
LEMMA SelectRounds ==
  ASSUME NEW sections, AreSections(sections), NEW max \in Int, max > 0,
         totalTokens(sections, Required(sections)) <= max
  PROVE  \E f : /\ f[0] = SelectStart(sections)
                /\ \A k \in 1 .. Len(sections) + 1 : f[k] = Omit(sections, f[k - 1], max)
                /\ f[Len(sections) + 1] = selectSections(sections, max)
<1> DEFINE n == Len(sections) + 1
           Round(acc, k) == Omit(sections, acc, max)
           S == SelectTypes(sections)
           b == SelectStart(sections)
           D == [p \in S \X (1 .. n) |-> Round(p[1], p[2])]
           iter == CHOOSE iter : iter = [s \in SUBSET (1 .. n) |->
                      IF s = {} THEN b ELSE Round(iter[s \ {Max(s)}], Max(s))]
<1>1. n \in Nat /\ b \in S
  BY SectionFacts DEF SelectStart, SelectTypes
<1>2. IsRound(n, S, D)
  BY OmitType DEF IsRound
<1>3. \A x \in S, k \in 1 .. n : D[<<x, k>>] = Round(x, k)
  OBVIOUS
<1>4. selectSections(sections, max) = iter[1 .. n]
  <2> DEFINE seq == [k \in 1 .. Len(sections) + 1 |-> k]
             acc0 == [ok |-> TRUE, selected |-> DOMAIN sections, omitted |-> <<>>]
             Loop(acc, k) == Omit(sections, acc, max)
  <2>1. Required(sections) \in SUBSET DOMAIN sections
    BY DEF Required
  <2>2. totalTokens(sections, Required(sections)) \in Nat
    BY <2>1, TotalOfPart
  <2>3. ~(max <= 0) /\ ~(totalTokens(sections, Required(sections)) > max)
    BY <2>2
  <2>4. selectSections(sections, max) = FoldLeft(Loop, acc0, seq)
    BY <2>3 DEF selectSections
  <2>5. DOMAIN seq = 1 .. n
    OBVIOUS
  <2> QED BY <2>4, <2>5 DEF FoldLeft, MapThenFoldSet, SelectStart
<1> HIDE DEF D, S, b, n, Round, iter
<1>5. PICK g : Folds(n, S, D, b, g)
  BY <1>1, <1>2, FoldExists
<1>6. g = [s \in SUBSET (1 .. n) |-> IF s = {} THEN b ELSE Round(g[s \ {Max(s)}], Max(s))]
  <2>1. ASSUME NEW s \in SUBSET (1 .. n)
        PROVE  g[s] = IF s = {} THEN b ELSE Round(g[s \ {Max(s)}], Max(s))
    BY <1>1, <1>3, <1>5, MaxOfPart DEF Folds
  <2> QED BY <1>5, <2>1 DEF Folds
<1>7. iter = [s \in SUBSET (1 .. n) |-> IF s = {} THEN b ELSE Round(iter[s \ {Max(s)}], Max(s))]
  BY <1>6, Zenon DEF iter
<1> DEFINE f == [k \in 0 .. n |-> iter[1 .. k]]
<1>8. f[0] = b /\ f[n] = iter[1 .. n]
  <2>1. 0 \in 0 .. n /\ n \in 0 .. n /\ 1 .. 0 = {} /\ {} \in SUBSET (1 .. n)
    BY <1>1
  <2>2. iter[{}] = b
    BY <1>7, <2>1
  <2> QED BY <2>1, <2>2
<1>9. ASSUME NEW k \in 1 .. n PROVE f[k] = Round(f[k - 1], k)
  <2>1. k \in Nat /\ k # 0 /\ k \in 0 .. n /\ k - 1 \in 0 .. n /\ 1 .. k \in SUBSET (1 .. n)
    BY <1>1
  <2>2. Max(1 .. k) = k /\ (1 .. k) \ {k} = 1 .. k - 1 /\ 1 .. k # {}
    BY <2>1, IntervalMax
  <2>3. iter[1 .. k] = Round(iter[1 .. k - 1], k)
    BY <1>7, <2>1, <2>2
  <2> QED BY <2>1, <2>3
<1> HIDE DEF f
<1> QED BY <1>4, <1>8, <1>9 DEF Round, n, b

\* What is known after some rounds: the required sections are still selected, of
\* the optional ones the most important, and each one omitted did not fit
\* together with those above it; and the selection fits, or every round so far
\* has omitted one.
KeepInv(sections, max, rounds, acc) ==
    /\ acc \in SelectTypes(sections)
    /\ acc.ok
    /\ Required(sections) \subseteq acc.selected
    /\ \A x \in Optional(sections, acc.selected), y \in DOMAIN sections :
          LessImportant(sections, x, y) => y \in acc.selected
    /\ \A x \in DOMAIN sections \ acc.selected : ~(totalTokens(sections, KeptFrom(sections, x)) <= max)
    /\ \/ totalTokens(sections, acc.selected) <= max
       \/ Cardinality(acc.selected) + rounds <= Len(sections)

\* The selection is what is kept from its least important optional section on.
LEMMA KeptFromLowest ==
  ASSUME NEW sections, AreSections(sections), NEW max \in Int, NEW rounds, NEW acc,
         KeepInv(sections, max, rounds, acc), Optional(sections, acc.selected) # {}
  PROVE  KeptFrom(sections, lowestPriorityOptionalIndex(sections, acc.selected)) = acc.selected
<1> DEFINE k == lowestPriorityOptionalIndex(sections, acc.selected)
<1>1. acc.selected \in SUBSET DOMAIN sections
  BY DEF KeepInv, SelectTypes
<1>2. /\ k \in Optional(sections, acc.selected)
      /\ \A j \in Optional(sections, acc.selected) : j = k \/ LessImportant(sections, k, j)
  BY <1>1, LowestFacts
<1> HIDE DEF k
<1>3. KeptFrom(sections, k) \subseteq acc.selected
  BY <1>1, <1>2 DEF KeepInv, KeptFrom, Required, Optional
<1>4. acc.selected \subseteq KeptFrom(sections, k)
  BY <1>1, <1>2 DEF KeptFrom, Required, Optional
<1> QED BY <1>3, <1>4 DEF k

\* A round keeps it (prompt.go:112-121).
LEMMA KeepStep ==
  ASSUME NEW sections, AreSections(sections), NEW max \in Int,
         totalTokens(sections, Required(sections)) <= max, NEW rounds \in Nat, NEW acc,
         KeepInv(sections, max, rounds, acc)
  PROVE  KeepInv(sections, max, rounds + 1, Omit(sections, acc, max))
<1>1. acc.selected \in SUBSET DOMAIN sections /\ acc \in SelectTypes(sections)
  BY DEF KeepInv, SelectTypes
<1>2. CASE totalTokens(sections, acc.selected) <= max
  BY <1>2 DEF KeepInv, Omit
<1>3. CASE ~(totalTokens(sections, acc.selected) <= max)
  <2> DEFINE k == lowestPriorityOptionalIndex(sections, acc.selected)
             new == OmitAt(sections, acc, k)
  <2>1. Optional(sections, acc.selected) # {}
    <3>1. SUFFICES ASSUME Optional(sections, acc.selected) = {} PROVE FALSE
      OBVIOUS
    <3>2. acc.selected = Required(sections)
      BY <3>1 DEF KeepInv, Optional
    <3> QED BY <1>3, <3>2
  <2>2. Omit(sections, acc, max) = new
    BY <1>3, <2>1 DEF Omit, KeepInv
  <2>3. /\ k \in Optional(sections, acc.selected)
        /\ \A j \in Optional(sections, acc.selected) : j = k \/ LessImportant(sections, k, j)
    BY <1>1, <2>1, LowestFacts
  <2>4. KeptFrom(sections, k) = acc.selected
    BY <2>1, KeptFromLowest
  <2>5. new \in SelectTypes(sections)
    BY <1>1, <2>2, OmitType
  <2>6. new.ok = acc.ok /\ new.selected = acc.selected \ {k}
    BY <1>1 DEF OmitAt, SelectTypes
  <2> HIDE DEF k, new
  <2>7. Required(sections) \subseteq new.selected
    BY <2>3, <2>6 DEF KeepInv, Optional
  <2>8. ASSUME NEW x \in Optional(sections, new.selected), NEW y \in DOMAIN sections, LessImportant(sections, x, y)
        PROVE  y \in new.selected
    <3>1. x \in Optional(sections, acc.selected) /\ x # k
      BY <2>6 DEF Optional
    <3>2. y \in acc.selected
      BY <2>8, <3>1 DEF KeepInv
    <3>3. y # k
      <4>1. LessImportant(sections, k, x)
        BY <2>3, <3>1
      <4>2. x \in DOMAIN sections /\ k \in DOMAIN sections
        BY <1>1, <2>3, <3>1 DEF Optional
      <4>3. x \in Int /\ k \in Int /\ sections[x].priority \in Int /\ sections[k].priority \in Int
        BY <4>2, SectionFacts
      <4> QED BY <2>8, <4>1, <4>3 DEF LessImportant
    <3> QED BY <2>6, <3>2, <3>3
  <2>9. ASSUME NEW x \in DOMAIN sections \ new.selected PROVE ~(totalTokens(sections, KeptFrom(sections, x)) <= max)
    <3>1. CASE x = k
      BY <1>3, <2>4, <3>1
    <3>2. CASE x # k
      BY <2>6, <3>2 DEF KeepInv
    <3> QED BY <3>1, <3>2
  <2>10. Cardinality(new.selected) + (rounds + 1) <= Len(sections)
    <3>1. IsFiniteSet(acc.selected) /\ k \in acc.selected
      BY <1>1, <2>3, SectionFacts, FS_Subset DEF Optional
    <3>2. Cardinality(new.selected) = Cardinality(acc.selected) - 1 /\ Cardinality(acc.selected) \in Nat
      BY <2>6, <3>1, FS_RemoveElement, FS_CardinalityType
    <3>3. Cardinality(acc.selected) + rounds <= Len(sections)
      BY <1>3 DEF KeepInv
    <3> QED BY <3>2, <3>3, SectionFacts
  <2> QED BY <2>2, <2>5, <2>6, <2>7, <2>8, <2>9, <2>10 DEF KeepInv
<1> QED BY <1>2, <1>3

\* So it holds in the end.
LEMMA KeepAll ==
  ASSUME NEW sections, AreSections(sections), NEW max \in Int, max > 0,
         totalTokens(sections, Required(sections)) <= max
  PROVE  KeepInv(sections, max, Len(sections) + 1, selectSections(sections, max))
<1> DEFINE n == Len(sections) + 1
<1>1. PICK f : /\ f[0] = SelectStart(sections)
               /\ \A k \in 1 .. n : f[k] = Omit(sections, f[k - 1], max)
               /\ f[n] = selectSections(sections, max)
  BY SelectRounds
<1>2. n \in Nat /\ Len(sections) \in Nat
  BY SectionFacts
<1> DEFINE T == {k \in 0 .. n : KeepInv(sections, max, k, f[k])}
<1>3. 0 \in T
  <2>1. SelectStart(sections) \in SelectTypes(sections)
    BY DEF SelectStart, SelectTypes
  <2>2. SelectStart(sections).ok /\ SelectStart(sections).selected = DOMAIN sections
    BY DEF SelectStart
  <2>3. Cardinality(DOMAIN sections) + 0 <= Len(sections)
    BY SectionFacts
  <2>4. KeepInv(sections, max, 0, SelectStart(sections))
    BY <2>1, <2>2, <2>3 DEF KeepInv, Required
  <2> QED BY <1>1, <1>2, <2>4
<1>4. ASSUME NEW k \in 0 .. n - 1, k \in T PROVE k + 1 \in T
  <2>1. k \in Nat /\ k + 1 \in 1 .. n /\ k + 1 \in 0 .. n /\ (k + 1) - 1 = k
    BY <1>2
  <2>2. f[k + 1] = Omit(sections, f[k], max)
    BY <1>1, <2>1
  <2> QED BY <1>4, <2>1, <2>2, KeepStep
<1> HIDE DEF T, n
<1>5. n \in T
  BY <1>2, <1>3, <1>4, SetInduction
<1> QED BY <1>1, <1>5 DEF T, n

\* Then the selection fits, since there are more rounds than sections, and it is
\* the one the reference definition names.
LEMMA KeptIsBest ==
  ASSUME NEW sections, AreSections(sections), NEW max \in Int, NEW acc,
         KeepInv(sections, max, Len(sections) + 1, acc)
  PROVE  acc.selected = KeptWithin(sections, max) /\ totalTokens(sections, acc.selected) <= max
<1> DEFINE Fitting == {k \in Optional(sections, DOMAIN sections) : Weight(sections, KeptFrom(sections, k)) <= max}
<1>1. acc.selected \in SUBSET DOMAIN sections
  BY DEF KeepInv, SelectTypes
<1>2. \A k : Weight(sections, KeptFrom(sections, k)) = totalTokens(sections, KeptFrom(sections, k))
  BY WeightIsTotal DEF KeptFrom
<1>3. totalTokens(sections, acc.selected) <= max
  <2>1. IsFiniteSet(acc.selected)
    BY <1>1, SectionFacts, FS_Subset
  <2>2. Cardinality(acc.selected) \in Nat /\ Len(sections) \in Nat
    BY <2>1, SectionFacts, FS_CardinalityType
  <2>3. ~(Cardinality(acc.selected) + (Len(sections) + 1) <= Len(sections))
    BY <2>2
  <2> QED BY <2>3 DEF KeepInv
<1>4. \A x : x \in KeptWithin(sections, max) <=>
              x \in Required(sections) \/ \E k \in Fitting : x \in KeptFrom(sections, k)
  <2> DEFINE parts == {KeptFrom(sections, k) : k \in Fitting}
  <2>1. KeptWithin(sections, max) = Required(sections) \cup (UNION parts)
    BY DEF KeptWithin
  <2>2. \A part : part \in parts <=> \E k \in Fitting : part = KeptFrom(sections, k)
    OBVIOUS
  <2> HIDE DEF Fitting, parts
  <2> QED BY <2>1, <2>2
<1>5. ASSUME NEW x \in acc.selected PROVE x \in KeptWithin(sections, max)
  <2>1. CASE x \in Required(sections)
    BY <1>4, <2>1
  <2>2. CASE x \notin Required(sections)
    <3> DEFINE k == lowestPriorityOptionalIndex(sections, acc.selected)
    <3>1. Optional(sections, acc.selected) # {}
      BY <2>2 DEF Optional
    <3>2. KeptFrom(sections, k) = acc.selected
      BY <3>1, KeptFromLowest
    <3>3. k \in Optional(sections, acc.selected)
      BY <1>1, <3>1, LowestFacts
    <3> HIDE DEF k
    <3>4. k \in Fitting
      BY <1>1, <1>2, <1>3, <3>2, <3>3 DEF Optional
    <3> QED BY <1>4, <3>2, <3>4
  <2> QED BY <2>1, <2>2
<1>6. ASSUME NEW x \in KeptWithin(sections, max) PROVE x \in acc.selected
  <2>1. CASE x \in Required(sections)
    BY <2>1 DEF KeepInv
  <2>2. CASE x \notin Required(sections)
    <3>1. PICK k \in Fitting : x \in KeptFrom(sections, k)
      BY <1>4, <1>6, <2>2
    <3>2. k \in acc.selected
      BY <1>2, <3>1 DEF KeepInv, Optional
    <3>3. k \in Optional(sections, acc.selected)
      BY <3>1, <3>2 DEF Optional
    <3> QED BY <2>2, <3>1, <3>2, <3>3 DEF KeepInv, KeptFrom, Required
  <2> QED BY <2>1, <2>2
<1> QED BY <1>3, <1>5, <1>6

\* For every list of sections and every budget, the prompt keeps all required
\* sections and the most important of the others, as many as fit; it is refused
\* only if the required ones alone do not fit (prompt.go:93-144).
THEOREM PromptTheorem == Sampled => PromptKeepsTheMostImportant
<1> SUFFICES ASSUME NEW sections \in SectionLists, NEW max \in Budgets,
                    sample = [kind |-> "prompt", sections |-> sections, budget |-> max], max > 0
             PROVE  /\ selectSections(sections, max).ok <=> Weight(sections, Required(sections)) <= max
                    /\ selectSections(sections, max).ok =>
                          /\ selectSections(sections, max).selected = KeptWithin(sections, max)
                          /\ Weight(sections, KeptWithin(sections, max)) <= max
  BY DEF Sampled, PromptKeepsTheMostImportant
<1> DEFINE chosen == selectSections(sections, max)
<1>1. AreSections(sections) /\ max \in Int
  BY InputsAssumption
<1>2. Required(sections) \in SUBSET DOMAIN sections
  BY DEF Required
<1>3. Weight(sections, Required(sections)) = totalTokens(sections, Required(sections))
  BY <1>1, <1>2, WeightIsTotal
<1>4. CASE totalTokens(sections, Required(sections)) <= max
  <2>1. KeepInv(sections, max, Len(sections) + 1, chosen)
    BY <1>1, <1>4, KeepAll
  <2>2. chosen.selected = KeptWithin(sections, max) /\ totalTokens(sections, chosen.selected) <= max
    BY <1>1, <2>1, KeptIsBest
  <2>3. chosen.ok /\ chosen.selected \in SUBSET DOMAIN sections
    BY <2>1 DEF KeepInv, SelectTypes
  <2>4. Weight(sections, chosen.selected) = totalTokens(sections, chosen.selected)
    BY <1>1, <2>3, WeightIsTotal
  <2> QED BY <1>3, <1>4, <2>2, <2>3, <2>4
<1>5. CASE ~(totalTokens(sections, Required(sections)) <= max)
  <2>1. totalTokens(sections, Required(sections)) \in Nat
    BY <1>1, <1>2, TotalOfPart
  <2>2. totalTokens(sections, Required(sections)) > max /\ ~(max <= 0)
    BY <1>1, <1>5, <2>1
  <2>3. ~chosen.ok
    BY <2>2 DEF selectSections
  <2> QED BY <1>3, <1>5, <2>3
<1> QED BY <1>4, <1>5

-----------------------------------------------------------------------------
(* The routing *)

\* The triggers of a registry's agents.
AreRouted(triggers) ==
    /\ DOMAIN triggers \subseteq Nat /\ IsFiniteSet(DOMAIN triggers)
    /\ \A name \in DOMAIN triggers : AreTriggers(triggers[name])

\* What is known of a trigger and its match, and that there are finitely many.
LEMMA TriggerFacts ==
  ASSUME NEW text, NEW triggers, AreRouted(triggers)
  PROVE  /\ IsFiniteSet(Places(triggers))
         /\ \A p \in Places(triggers) :
               /\ p = <<p[1], p[2]>> /\ p[1] \in DOMAIN triggers /\ p[1] \in Nat /\ p[2] \in Nat
               /\ MatchAt(text, triggers, p).agent = p[1]
               /\ MatchAt(text, triggers, p).domain = triggers[p[1]][p[2]].domain
               /\ MatchAt(text, triggers, p).count \in Nat
               /\ MatchAt(text, triggers, p).count = Hits(text, triggers[p[1]][p[2]])
               /\ MatchAt(text, triggers, p).priority \in Int
               /\ MatchAt(text, triggers, p).priority = triggers[p[1]][p[2]].priority
               /\ MatchAt(text, triggers, p).weak =
                     weakMatch(text, triggers[p[1]][p[2]], matchedTerms(text, triggers[p[1]][p[2]]))
<1> DEFINE part == [name \in DOMAIN triggers |-> DOMAIN triggers[name]]
<1>1. Places(triggers) = NestedPlaces(DOMAIN triggers, part)
  BY DEF Places, NestedPlaces
<1>2. \A name \in DOMAIN triggers : part[name] = DOMAIN triggers[name]
  OBVIOUS
<1> HIDE DEF part
<1>3. ASSUME NEW name \in DOMAIN triggers
      PROVE  /\ IsFiniteSet(part[name]) /\ part[name] \subseteq Nat /\ name \in Nat
             /\ \A k \in part[name] : IsSequence(triggers[name][k].terms) /\ triggers[name][k].priority \in Int
  BY <1>2, SequenceDomain DEF AreRouted, AreTriggers
<1>4. IsFiniteSet(Places(triggers))
  BY <1>1, <1>3, NestedPlacesFinite DEF AreRouted
<1>5. ASSUME NEW p \in Places(triggers)
      PROVE  /\ p = <<p[1], p[2]>> /\ p[1] \in DOMAIN triggers /\ p[1] \in Nat /\ p[2] \in Nat
             /\ IsSequence(triggers[p[1]][p[2]].terms) /\ triggers[p[1]][p[2]].priority \in Int
  <2>1. PICK name \in DOMAIN triggers : \E k \in part[name] : p = <<name, k>>
    BY <1>1, NestedPlacesMembers
  <2>2. PICK k \in part[name] : p = <<name, k>>
    BY <2>1
  <2>3. p[1] = name /\ p[2] = k
    BY <2>2
  <2> QED BY <1>3, <2>2, <2>3
<1>6. ASSUME NEW p \in Places(triggers), NEW trigger, trigger = triggers[p[1]][p[2]]
      PROVE  /\ MatchAt(text, triggers, p).agent = p[1]
             /\ MatchAt(text, triggers, p).domain = trigger.domain
             /\ MatchAt(text, triggers, p).count \in Nat
             /\ MatchAt(text, triggers, p).count = Hits(text, trigger)
             /\ MatchAt(text, triggers, p).priority = trigger.priority
             /\ MatchAt(text, triggers, p).weak = weakMatch(text, trigger, matchedTerms(text, trigger))
  <2>1. matchedTerms(text, trigger) \in SUBSET DOMAIN trigger.terms
    BY DEF matchedTerms
  <2>2. IsFiniteSet(matchedTerms(text, trigger))
    BY <1>5, <1>6, <2>1, SequenceDomain, FS_Subset
  <2>3. Cardinality(matchedTerms(text, trigger)) \in Nat
    BY <2>2, FS_CardinalityType
  <2>4. Hits(text, trigger) = Cardinality(matchedTerms(text, trigger))
    BY DEF Hits, matchedTerms
  <2>5. MatchAt(text, triggers, p) =
          [agent |-> p[1], domain |-> trigger.domain, count |-> Cardinality(matchedTerms(text, trigger)),
           priority |-> trigger.priority, weak |-> weakMatch(text, trigger, matchedTerms(text, trigger))]
    BY <1>6 DEF MatchAt, Match
  <2> QED BY <2>3, <2>4, <2>5
<1> QED BY <1>4, <1>5, <1>6

\* The match at p is sorted before the match at q.
EarlierMatch(text, triggers, p, q) ==
    \/ Before(MatchAt(text, triggers, p), MatchAt(text, triggers, q))
    \/ /\ ~Before(MatchAt(text, triggers, q), MatchAt(text, triggers, p))
       /\ Lexicographic(p, q)

\* The triggers with a match.
Found(text, triggers) == {p \in Places(triggers) : MatchAt(text, triggers, p).count > 0}

\* Those before each of them.
FoundBefore(text, triggers) ==
    [p \in Found(text, triggers) |-> {q \in Found(text, triggers) : EarlierMatch(text, triggers, q, p)}]

\* findMatches sorts them (route.go:84-114).
LEMMA MatchOrder ==
  ASSUME NEW text, NEW triggers, AreRouted(triggers)
  PROVE  \E order : /\ Sorts(Found(text, triggers), FoundBefore(text, triggers), order)
                    /\ findMatches(text, triggers) =
                          [k \in 1 .. Cardinality(Found(text, triggers)) |-> MatchAt(text, triggers, order[k])]
<1> DEFINE S == Found(text, triggers)
           below == [p \in S |-> {q \in S : EarlierMatch(text, triggers, q, p)}]
           order == [k \in 1 .. Cardinality(S) |->
                       CHOOSE x \in S : Cardinality({q \in S : EarlierMatch(text, triggers, q, x)}) = k - 1]
           c == [p \in S |-> MatchAt(text, triggers, p).count]
           u == [p \in S |-> MatchAt(text, triggers, p).priority]
           First == [p \in S |-> p[1]]
           Second == [p \in S |-> p[2]]
<1>1. IsFiniteSet(S)
  BY TriggerFacts, FS_Subset DEF Found
<1>2. \A p \in S : /\ p = <<First[p], Second[p]>> /\ First[p] \in Int /\ Second[p] \in Int
                   /\ c[p] \in Int /\ u[p] \in Int
                   /\ First[p] = p[1] /\ Second[p] = p[2]
                   /\ MatchAt(text, triggers, p).count = c[p]
                   /\ MatchAt(text, triggers, p).priority = u[p]
                   /\ MatchAt(text, triggers, p).agent = First[p]
  BY TriggerFacts DEF Found
<1>3. findMatches(text, triggers) = [k \in 1 .. Cardinality(S) |-> MatchAt(text, triggers, order[k])]
  BY DEF findMatches, SortedBy, Found, EarlierMatch
<1> HIDE DEF S, c, u, First, Second
<1>4. IsSort(S, below, order)
  <2>1. \A x \in S : below[x] = {q \in S : EarlierMatch(text, triggers, q, x)}
    OBVIOUS
  <2>2. \A k \in 1 .. Cardinality(S) :
          order[k] = CHOOSE x \in S : Cardinality({q \in S : EarlierMatch(text, triggers, q, x)}) = k - 1
    OBVIOUS
  <2>3. order = [k \in 1 .. Cardinality(S) |-> order[k]]
    OBVIOUS
  <2> HIDE DEF order, below
  <2>4. ASSUME NEW k \in 1 .. Cardinality(S), NEW x \in S, Cardinality(below[x]) = k - 1
        PROVE  order[k] \in S /\ Cardinality(below[order[k]]) = k - 1
    <3>1. Cardinality({q \in S : EarlierMatch(text, triggers, q, x)}) = k - 1
      BY <2>1, <2>4
    <3>2. order[k] \in S /\ Cardinality({q \in S : EarlierMatch(text, triggers, q, order[k])}) = k - 1
      BY <2>2, <3>1
    <3> QED BY <2>1, <3>2
  <2> QED BY <2>3, <2>4 DEF IsSort
<1>5. \A p, q \in S : EarlierMatch(text, triggers, p, q) <=>
        \/ c[p] > c[q]
        \/ c[p] = c[q] /\ u[p] > u[q]
        \/ c[p] = c[q] /\ u[p] = u[q] /\ First[p] < First[q]
        \/ c[p] = c[q] /\ u[p] = u[q] /\ First[p] = First[q] /\ Second[p] < Second[q]
  <2> TAKE p, q \in S
  <2>1. Lexicographic(p, q) <=> First[p] < First[q] \/ (First[p] = First[q] /\ Second[p] < Second[q])
    BY <1>2 DEF Lexicographic
  <2> QED BY <1>2, <2>1 DEF EarlierMatch, Before
<1>6. \A p, q \in S : First[p] = First[q] /\ Second[p] = Second[q] => p = q
  BY <1>2
<1>7. \A p \in S : First[p] \in Int /\ Second[p] \in Int /\ c[p] \in Int /\ u[p] \in Int
  BY <1>2
<1>8. IsTotalOrder(S, below)
  BY <1>5, <1>6, <1>7 DEF IsTotalOrder
<1> HIDE DEF below, order
<1>9. Sorts(S, below, order)
  BY <1>1, <1>4, <1>8, SortOfTotalOrder
<1> QED BY <1>3, <1>9 DEF S, below, FoundBefore

\* Its first is before all others.
LEMMA FirstMatch ==
  ASSUME NEW text, NEW triggers, AreRouted(triggers)
  PROVE  IF Found(text, triggers) = {} THEN findMatches(text, triggers) = <<>>
         ELSE \E p \in Found(text, triggers) :
                /\ findMatches(text, triggers) # <<>>
                /\ findMatches(text, triggers)[1] = MatchAt(text, triggers, p)
                /\ \A q \in Found(text, triggers) \ {p} : EarlierMatch(text, triggers, p, q)
<1> DEFINE S == Found(text, triggers)
           below == FoundBefore(text, triggers)
           n == Cardinality(S)
<1>1. PICK order : /\ Sorts(S, below, order)
                   /\ findMatches(text, triggers) = [k \in 1 .. n |-> MatchAt(text, triggers, order[k])]
  BY MatchOrder
<1>2. IsFiniteSet(S) /\ n \in Nat
  BY TriggerFacts, FS_Subset, FS_CardinalityType DEF Found
<1>3. CASE S = {}
  <2>1. n = 0
    BY <1>3, FS_EmptySet
  <2> QED BY <1>1, <1>3, <2>1
<1>4. CASE S # {}
  <2>1. n # 0
    BY <1>2, <1>4, FS_EmptySet
  <2>2. 1 \in 1 .. n /\ order[1] \in S
    BY <1>1, <1>2, <2>1 DEF Sorts
  <2>3. findMatches(text, triggers) # <<>> /\ findMatches(text, triggers)[1] = MatchAt(text, triggers, order[1])
    BY <1>1, <2>2
  <2>4. ASSUME NEW q \in S, q # order[1] PROVE order[1] \in below[q]
    <3> HIDE DEF below, n, S
    <3>1. PICK k \in 1 .. n : order[k] = q
      BY <1>1 DEF Sorts, n
    <3>2. 1 < k
      BY <1>2, <2>4, <3>1
    <3> QED BY <1>1, <2>2, <3>1, <3>2 DEF Sorts, n
  <2>5. \A q \in S \ {order[1]} : EarlierMatch(text, triggers, order[1], q)
    BY <2>4 DEF FoundBefore
  <2> QED BY <1>4, <2>2, <2>3, <2>5
<1> QED BY <1>3, <1>4

\* For every input and every registry, the input goes to an agent with a trigger
\* no other trigger beats, the first by name and position, and the choice is of
\* low confidence exactly if the one term that hit is a doubt (route.go:50-124).
THEOREM RouteTheorem == Sampled => RouteIsTheBest
<1> SUFFICES ASSUME NEW of \in RouteInputs, sample = [kind |-> "route", of |-> of]
             PROVE  RouteIsTheBest
  BY DEF Sampled, RouteIsTheBest
<1> DEFINE text == of.text
           triggers == of.triggers
           cautious == of.cautious
           r == RouteOf(text, triggers, cautious)
           best == BestTriggers(text, triggers)
           S == Found(text, triggers)
           Trigger(p) == triggers[p[1]][p[2]]
           Doubted(p) == Hits(text, Trigger(p)) = 1 /\ ToSet(Trigger(p).terms) \cap text.doubts # {}
<1>1. AreRouted(triggers) /\ text.doubts \subseteq text.terms
  BY InputsAssumption DEF IsRouteInput, AreRouted
<1>2. SUFFICES IF best = {} THEN r.agent = 0 /\ ~r.requiresUser
               ELSE \E p \in best :
                  /\ \A q \in best \ {p} : Lexicographic(p, q)
                  /\ r.agent = p[1] /\ r.domain = Trigger(p).domain
                  /\ r.confidence = "low" <=> Doubted(p)
                  /\ r.requiresUser <=> Doubted(p) /\ p[1] \in cautious
  BY DEF RouteIsTheBest
<1> HIDE DEF triggers, text, cautious
<1>3. \A p \in Places(triggers) :
               /\ p = <<p[1], p[2]>> /\ p[1] \in Int /\ p[2] \in Int
               /\ MatchAt(text, triggers, p).agent = p[1]
               /\ MatchAt(text, triggers, p).domain = Trigger(p).domain
               /\ MatchAt(text, triggers, p).count \in Nat
               /\ MatchAt(text, triggers, p).count = Hits(text, Trigger(p))
               /\ MatchAt(text, triggers, p).priority \in Int
               /\ MatchAt(text, triggers, p).priority = Trigger(p).priority
               /\ MatchAt(text, triggers, p).weak = weakMatch(text, Trigger(p), matchedTerms(text, Trigger(p)))
  BY <1>1, TriggerFacts
<1>4. \A p : p \in best <=>
         /\ p \in Places(triggers) /\ Hits(text, Trigger(p)) > 0
         /\ \A q \in Places(triggers) :
               ~(\/ Hits(text, Trigger(q)) > Hits(text, Trigger(p))
                 \/ Hits(text, Trigger(q)) = Hits(text, Trigger(p)) /\ Trigger(q).priority > Trigger(p).priority)
  BY DEF BestTriggers
<1> HIDE DEF Trigger, best
<1>5. \A p : p \in S <=> p \in Places(triggers) /\ Hits(text, Trigger(p)) > 0
  BY <1>3 DEF Found
<1>6. CASE S = {}
  <2>1. findMatches(text, triggers) = <<>>
    BY <1>1, <1>6, FirstMatch
  <2>2. best = {}
    BY <1>4, <1>5, <1>6
  <2> QED BY <2>1, <2>2 DEF RouteOf
<1>7. CASE S # {}
  <2>1. PICK p \in S : /\ findMatches(text, triggers) # <<>>
                       /\ findMatches(text, triggers)[1] = MatchAt(text, triggers, p)
                       /\ \A q \in S \ {p} : EarlierMatch(text, triggers, p, q)
    BY <1>1, <1>7, FirstMatch
  <2> HIDE DEF S
  <2>2. p \in Places(triggers)
    BY <1>5
  <2>3. \A q \in S \ {p} : \/ Hits(text, Trigger(p)) > Hits(text, Trigger(q))
                           \/ /\ Hits(text, Trigger(p)) = Hits(text, Trigger(q))
                              /\ \/ Trigger(p).priority > Trigger(q).priority
                                 \/ Trigger(p).priority = Trigger(q).priority /\ Lexicographic(p, q)
    BY <1>3, <1>5, <2>1, <2>2 DEF EarlierMatch, Before, Lexicographic
  <2>4. \A q \in Places(triggers) : Hits(text, Trigger(q)) \in Nat /\ Trigger(q).priority \in Int
    BY <1>3
  <2>5. p \in best
    BY <1>4, <1>5, <2>2, <2>3, <2>4
  <2>6. \A q \in best \ {p} : Lexicographic(p, q)
    BY <1>4, <1>5, <2>2, <2>3, <2>4
  <2> DEFINE m == MatchAt(text, triggers, p)
  <2>7. /\ r.agent = m.agent /\ r.domain = m.domain /\ r.confidence = confidenceFor(m)
        /\ r.requiresUser <=> m.agent \in cautious /\ confidenceFor(m) = "low"
    BY <2>1 DEF RouteOf
  <2>8. m.weak <=> Doubted(p)
    <3>1. m.weak <=> /\ Cardinality(matchedTerms(text, Trigger(p))) = 1
                     /\ \E k \in matchedTerms(text, Trigger(p)) : Trigger(p).terms[k] \in text.doubts
      BY <1>3, <2>2 DEF weakMatch
    <3>2. Hits(text, Trigger(p)) = Cardinality(matchedTerms(text, Trigger(p)))
      BY DEF Hits, matchedTerms
    <3>3. (\E k \in matchedTerms(text, Trigger(p)) : Trigger(p).terms[k] \in text.doubts)
             <=> ToSet(Trigger(p).terms) \cap text.doubts # {}
      BY <1>1 DEF matchedTerms, ToSet, text
    <3> QED BY <3>1, <3>2, <3>3
  <2>9. confidenceFor(m) = "low" <=> Doubted(p)
    <3>1. m.count \in Nat /\ m.count = Hits(text, Trigger(p))
      BY <1>3, <2>2
    <3>2. CASE Doubted(p)
      <4>1. m.count = 1
        BY <3>1, <3>2
      <4> QED BY <2>8, <3>2, <4>1 DEF confidenceFor
    <3>3. CASE ~Doubted(p)
      <4>1. ~m.weak
        BY <2>8, <3>3
      <4> HIDE DEF m
      <4>2. confidenceFor(m) \in {"high", "medium"}
        BY <3>1, <4>1 DEF confidenceFor
      <4> QED BY <3>3, <4>2
    <3> QED BY <3>2, <3>3
  <2>10. m.agent = p[1] /\ m.domain = Trigger(p).domain
    BY <1>3, <2>2
  <2> HIDE DEF m, r, Doubted
  <2>11. /\ r.agent = p[1] /\ r.domain = Trigger(p).domain
         /\ r.confidence = "low" <=> Doubted(p)
         /\ r.requiresUser <=> Doubted(p) /\ p[1] \in cautious
    BY <2>7, <2>9, <2>10
  <2> QED BY <2>5, <2>6, <2>11
<1> QED BY <1>6, <1>7

-----------------------------------------------------------------------------
(* The configuration *)

\* Load is its rounds, one for every layer. Their states have no common type, so
\* the recursion is shown to be a function here.
LEMMA LoadRounds ==
  ASSUME NEW layers, IsSequence(layers)
  PROVE  \E f : /\ f[0] = NoAgents
                /\ \A k \in 1 .. Len(layers) : f[k] = applyPatch(f[k - 1], layers[k])
                /\ f[Len(layers)] = Load(layers)
<1> DEFINE n == Len(layers)
           Round(acc, k) == applyPatch(acc, layers[k])
           iter == CHOOSE iter : iter = [s \in SUBSET (1 .. n) |->
                      IF s = {} THEN NoAgents ELSE Round(iter[s \ {Max(s)}], Max(s))]
<1>1. n \in Nat /\ DOMAIN layers = 1 .. n
  BY SequenceDomain
<1>2. Load(layers) = iter[1 .. n]
  BY <1>1 DEF Load, FoldLeft, MapThenFoldSet
<1> HIDE DEF n, Round, iter
<1>3. \E g : g = [s \in SUBSET (1 .. n) |-> IF s = {} THEN NoAgents ELSE Round(g[s \ {Max(s)}], Max(s))]
  <2> DEFINE Eq(g, m) == g = [s \in SUBSET (1 .. m) |-> IF s = {} THEN NoAgents ELSE Round(g[s \ {Max(s)}], Max(s))]
             T == {m \in 0 .. n : \E g : Eq(g, m)}
  <2>1. 0 \in T
    <3> DEFINE g == [s \in SUBSET (1 .. 0) |-> NoAgents]
    <3>1. SUBSET (1 .. 0) = {{}}
      OBVIOUS
    <3>2. Eq(g, 0)
      BY <3>1
    <3> HIDE DEF g, Eq
    <3> QED BY <1>1, <3>2
  <2>2. ASSUME NEW m \in 0 .. n - 1, m \in T PROVE m + 1 \in T
    <3>1. PICK f : Eq(f, m)
      BY <2>2
    <3> HIDE DEF T
    <3> DEFINE P == SUBSET (1 .. m + 1)
               g == [s \in P |-> IF m + 1 \in s THEN Round(f[s \ {m + 1}], m + 1) ELSE f[s]]
    <3>2. m \in Nat /\ m + 1 \in 0 .. n
      BY <1>1
    <3>3. \A s \in P : /\ s \ {m + 1} \in SUBSET (1 .. m)
                       /\ m + 1 \notin s => s \in SUBSET (1 .. m)
                       /\ s \ {m + 1} \in P
      BY <3>2
    <3>4. \A s \in P : g[s] = IF m + 1 \in s THEN Round(f[s \ {m + 1}], m + 1) ELSE f[s]
      OBVIOUS
    <3>5. \A s \in SUBSET (1 .. m) : f[s] = IF s = {} THEN NoAgents ELSE Round(f[s \ {Max(s)}], Max(s))
      BY <3>1
    <3>6. DOMAIN g = P /\ g = [s \in P |-> g[s]]
      OBVIOUS
    <3> HIDE DEF g
    <3>7. ASSUME NEW s \in P PROVE g[s] = IF s = {} THEN NoAgents ELSE Round(g[s \ {Max(s)}], Max(s))
      <4>1. CASE m + 1 \in s
        <5>1. Max(s) = m + 1
          <6>1. s \in SUBSET (0 .. m + 1) /\ s # {} /\ m + 1 \in Nat
            BY <3>2, <4>1
          <6>2. Max(s) \in s /\ m + 1 <= Max(s)
            BY <4>1, <6>1, MaxOfInterval
          <6>3. Max(s) \in 1 .. m + 1
            BY <6>2
          <6> HIDE DEF P
          <6> QED BY <3>2, <6>2, <6>3
        <5>2. g[s \ {m + 1}] = f[s \ {m + 1}]
          BY <3>3, <3>4
        <5> QED BY <3>4, <4>1, <5>1, <5>2
      <4>2. CASE m + 1 \notin s
        <5>1. s \in SUBSET (1 .. m) /\ s \ {Max(s)} \in SUBSET (1 .. m) /\ s \ {Max(s)} \in P
          BY <3>3, <4>2
        <5>2. g[s] = f[s] /\ g[s \ {Max(s)}] = f[s \ {Max(s)}]
          BY <3>4, <4>2, <5>1
        <5> QED BY <3>5, <5>1, <5>2
      <4> QED BY <4>1, <4>2
    <3>8. Eq(g, m + 1)
      BY <3>6, <3>7
    <3> HIDE DEF Eq
    <3> QED BY <3>2, <3>8 DEF T
  <2> HIDE DEF T
  <2>3. n \in T
    BY <1>1, <2>1, <2>2, SetInduction
  <2> QED BY <2>3 DEF T
<1>4. iter = [s \in SUBSET (1 .. n) |-> IF s = {} THEN NoAgents ELSE Round(iter[s \ {Max(s)}], Max(s))]
  BY <1>3, Zenon DEF iter
<1> DEFINE f == [k \in 0 .. n |-> iter[1 .. k]]
<1>5. f[0] = NoAgents /\ f[n] = iter[1 .. n]
  <2>1. 0 \in 0 .. n /\ n \in 0 .. n /\ 1 .. 0 = {} /\ {} \in SUBSET (1 .. n)
    BY <1>1
  <2>2. iter[{}] = NoAgents
    BY <1>4, <2>1
  <2> QED BY <2>1, <2>2
<1>6. ASSUME NEW k \in 1 .. n PROVE f[k] = Round(f[k - 1], k)
  <2>1. k \in Nat /\ k # 0 /\ k \in 0 .. n /\ k - 1 \in 0 .. n /\ 1 .. k \in SUBSET (1 .. n)
    BY <1>1
  <2>2. Max(1 .. k) = k /\ (1 .. k) \ {k} = 1 .. k - 1 /\ 1 .. k # {}
    BY <2>1, IntervalMax
  <2>3. iter[1 .. k] = Round(iter[1 .. k - 1], k)
    BY <1>4, <2>1, <2>2
  <2> QED BY <2>1, <2>3
<1> HIDE DEF f
<1> QED BY <1>2, <1>5, <1>6 DEF Round, n

\* Lists of tools. Named, so that the provers need not look into it.
ToolLists == Seq(STRING)

\* An option of Load: nil, or one value.
IsOption(option, T) == option = Nil \/ (option = <<option[1]>> /\ option[1] \in T)

\* The fields of an agent.
Fields == Scalars \cup (Lists \ {"tools_append"}) \cup {"tools", "tools_all"}

\* An agent Load makes, ...
IsAgent(agent) ==
    /\ DOMAIN agent = Fields
    /\ agent["tools_all"] \in BOOLEAN
    /\ IsOption(agent["tools"], ToolLists) /\ IsOption(agent["tools_except"], ToolLists)
    /\ IsOption(agent["aliases"], Seq(Nat))
    /\ agent["triggers"] # Nil => AreTriggers(agent["triggers"][1])

\* ... and what Load returns.
AreAgents(agents) ==
    /\ DOMAIN agents \subseteq Nat /\ IsFiniteSet(DOMAIN agents)
    /\ \A name \in DOMAIN agents : IsAgent(agents[name])

\* What Get gives of an option.
LEMMA GetOption ==
  ASSUME NEW option, NEW T, IsOption(option, T), NEW default
  PROVE  /\ option = Nil => Get(option, default) = default
         /\ option # Nil => Get(option, default) = option[1] /\ option[1] \in T /\ option = <<option[1]>>
         /\ default \in T => Get(option, default) \in T
BY DEF IsOption, Get, IsNil

\* A value makes an option.
LEMMA OptionOfValue ==
  ASSUME NEW T, NEW v \in T
  PROVE  IsOption(<<v>>, T) /\ IsOption(Nil, T) /\ <<v>> # Nil /\ \A default : Get(<<v>>, default) = v
BY DEF IsOption, Nil, Get, IsNil

\* Lists of tools can be joined.
LEMMA ConcatFacts ==
  /\ <<>> \in ToolLists
  /\ \A s \in ToolLists : s \o <<>> = s /\ <<>> \o s = s
  /\ \A s, t \in ToolLists : s \o t \in ToolLists
  /\ \A s, t, u \in ToolLists : s \o (t \o u) = (s \o t) \o u
<1>1. \A s \in ToolLists : s \o <<>> = s /\ <<>> \o s = s
  BY DEF ToolLists
<1>2. \A s, t \in ToolLists : s \o t \in ToolLists
  BY DEF ToolLists
<1>3. \A s, t, u \in ToolLists : s \o (t \o u) = (s \o t) \o u
  BY DEF ToolLists
<1>4. <<>> \in ToolLists
  BY DEF ToolLists
<1> QED BY <1>4, <1>1, <1>2, <1>3

\* The options there are differ.
LEMMA OptionFacts == \A v, d : <<v>> # Nil /\ Get(<<v>>, d) = v /\ Get(Nil, d) = d
BY DEF Nil, Get, IsNil

\* What the values of a mapping are.
LEMMA MappingTypes ==
  ASSUME NEW mapping, IsMapping(mapping)
  PROVE  /\ mapping["tools"].kind = "value" => mapping["tools"].value \in ToolLists
         /\ mapping["tools_append"].kind = "value" => mapping["tools_append"].value \in ToolLists
         /\ mapping["tools_except"].kind = "value" => mapping["tools_except"].value \in ToolLists
         /\ mapping["aliases"].kind = "value" => mapping["aliases"].value \in Seq(Nat)
         /\ mapping["triggers"].kind = "value" => AreTriggers(mapping["triggers"].value)
BY DEF IsMapping, ToolLists

\* What append gives: the joined list, and nil only if nothing was appended to
\* nil.
LEMMA AppendedFacts ==
  ASSUME NEW tools, NEW more, IsOption(tools, ToolLists), IsOption(more, ToolLists)
  PROVE  /\ IsOption(Appended(tools, more), ToolLists)
         /\ Get(Appended(tools, more), <<>>) = Get(tools, <<>>) \o Get(more, <<>>)
         /\ Appended(tools, more) = Nil <=> tools = Nil /\ Get(more, <<>>) = <<>>
<1> DEFINE t == Get(tools, <<>>)
           m == Get(more, <<>>)
<1>1. <<>> \in ToolLists
  BY ConcatFacts
<1>2. t \in ToolLists /\ m \in ToolLists /\ (tools = Nil => t = <<>>) /\ (more = Nil => m = <<>>)
  BY <1>1, GetOption
<1>3. Appended(tools, more) = IF more = Nil \/ (tools = Nil /\ m = <<>>) THEN tools ELSE << t \o m >>
  BY DEF Appended, IsNil
<1> HIDE DEF t, m
<1>4. CASE more = Nil \/ (tools = Nil /\ m = <<>>)
  <2>1. m = <<>> /\ t \o m = t
    BY <1>2, <1>4, ConcatFacts
  <2>2. Appended(tools, more) = tools
    BY <1>3, <1>4
  <2> QED BY <2>1, <2>2 DEF t, m
<1>5. CASE ~(more = Nil \/ (tools = Nil /\ m = <<>>))
  <2>1. t \o m \in ToolLists
    BY <1>2, ConcatFacts
  <2>2. Appended(tools, more) = << t \o m >>
    BY <1>3, <1>5
  <2>3. /\ IsOption(Appended(tools, more), ToolLists) /\ Appended(tools, more) # Nil
        /\ Get(Appended(tools, more), <<>>) = t \o m
    BY <2>1, <2>2, OptionOfValue
  <2> QED BY <1>5, <2>3 DEF t, m
<1> QED BY <1>4, <1>5

\* What UnmarshalYAML makes of a mapping (config.go:262-360).
LEMMA UnmarshalFacts ==
  ASSUME NEW mapping, IsMapping(mapping)
  PROVE  LET patch == Unmarshal(mapping)
         IN  /\ patch["tools_set"] = (mapping["tools"].kind # "absent")
             /\ patch["tools_all"] = (mapping["tools"].kind = "all")
             /\ \A field \in {"tools", "tools_append", "tools_except", "aliases", "triggers"} :
                   patch[field] = IF mapping[field].kind = "value" THEN <<mapping[field].value>> ELSE Nil
             /\ \A field \in {"tools", "tools_append", "tools_except"} : IsOption(patch[field], ToolLists)
             /\ IsOption(patch["aliases"], Seq(Nat))
             /\ patch["triggers"] # Nil => AreTriggers(patch["triggers"][1])
<1> DEFINE patch == Unmarshal(mapping)
           F == {"tools", "tools_append", "tools_except", "aliases", "triggers"}
<1>1. patch["tools_set"] = (mapping["tools"].kind # "absent") /\ patch["tools_all"] = (mapping["tools"].kind = "all")
  BY DEF Unmarshal
<1>2. \A field \in F : patch[field] = IF mapping[field].kind = "value" THEN <<mapping[field].value>> ELSE Nil
  BY DEF Unmarshal, Scalars, Lists
<1> HIDE DEF patch
<1>3. \A field \in {"tools", "tools_append", "tools_except"} : IsOption(patch[field], ToolLists)
  BY <1>2, OptionOfValue, MappingTypes DEF IsOption
<1>4. IsOption(patch["aliases"], Seq(Nat))
  BY <1>2, MappingTypes DEF IsOption
<1>5. patch["triggers"] # Nil => AreTriggers(patch["triggers"][1])
  BY <1>2, MappingTypes
<1> QED BY <1>1, <1>2, <1>3, <1>4, <1>5 DEF patch

\* A new agent is an agent.
LEMMA NoAgentType == IsAgent(NoAgent)
<1>1. /\ DOMAIN NoAgent = Fields /\ NoAgent["tools_all"] = FALSE
      /\ NoAgent["tools"] = Nil /\ NoAgent["tools_except"] = Nil
      /\ NoAgent["aliases"] = Nil /\ NoAgent["triggers"] = Nil
  BY DEF NoAgent, Fields, Scalars, Lists
<1> QED BY <1>1 DEF IsAgent, IsOption

\* What a layer's mapping changes of an agent (config.go:178-232).
LEMMA ApplyAgentFacts ==
  ASSUME NEW agent, IsAgent(agent), NEW mapping, IsMapping(mapping)
  PROVE  LET patch == Unmarshal(mapping)
             new == ApplyAgent(agent, patch)
         IN  /\ IsAgent(new)
             /\ new["tools"] = Appended(IF patch["tools_set"] THEN patch["tools"] ELSE agent["tools"],
                                        patch["tools_append"])
             /\ new["tools_all"] = IF patch["tools_set"] THEN patch["tools_all"] ELSE agent["tools_all"]
             /\ new["tools_except"] = IF patch["tools_except"] = Nil THEN agent["tools_except"]
                                      ELSE patch["tools_except"]
<1> DEFINE patch == Unmarshal(mapping)
           new == ApplyAgent(agent, patch)
<1>1. DOMAIN new = Fields
  BY DEF ApplyAgent, IsAgent
<1>2. new["tools"] = Appended(IF patch["tools_set"] THEN patch["tools"] ELSE agent["tools"], patch["tools_append"])
  BY DEF ApplyAgent, IsAgent, MergedTools, Fields, Scalars, Lists
<1>3. new["tools_all"] = IF patch["tools_set"] THEN patch["tools_all"] ELSE agent["tools_all"]
  BY DEF ApplyAgent, IsAgent, Fields, Scalars, Lists
<1>4. new["tools_except"] = IF patch["tools_except"] = Nil THEN agent["tools_except"] ELSE patch["tools_except"]
  BY DEF ApplyAgent, IsAgent, ToolsExcept, IsNil, Fields, Scalars, Lists
<1>5. \A field \in {"aliases", "triggers"} : new[field] = IF patch[field] = Nil THEN agent[field] ELSE patch[field]
  BY DEF ApplyAgent, IsAgent, IsNil, Fields, Scalars, Lists
<1>6. /\ patch["tools_set"] \in BOOLEAN /\ patch["tools_all"] \in BOOLEAN
      /\ \A field \in {"tools", "tools_append", "tools_except"} : IsOption(patch[field], ToolLists)
      /\ IsOption(patch["aliases"], Seq(Nat))
      /\ patch["triggers"] # Nil => AreTriggers(patch["triggers"][1])
  BY UnmarshalFacts
<1> HIDE DEF patch, new
<1>7. IsOption(new["tools"], ToolLists)
  BY <1>2, <1>6, AppendedFacts DEF IsAgent
<1>8. IsAgent(new)
  BY <1>1, <1>3, <1>4, <1>5, <1>6, <1>7 DEF IsAgent
<1> QED BY <1>2, <1>3, <1>4, <1>8 DEF new, patch

\* A layer turns agents into agents.
LEMMA ApplyPatchType ==
  ASSUME NEW agents, AreAgents(agents), NEW layer, IsLayer(layer)
  PROVE  /\ AreAgents(applyPatch(agents, layer))
         /\ DOMAIN applyPatch(agents, layer) = DOMAIN agents \cup DOMAIN layer
<1> DEFINE new == applyPatch(agents, layer)
<1>1. DOMAIN new = DOMAIN agents \cup DOMAIN layer
  BY DEF applyPatch
<1>2. IsFiniteSet(DOMAIN new) /\ DOMAIN new \subseteq Nat
  BY <1>1, FS_Union DEF AreAgents, IsLayer
<1>3. ASSUME NEW name \in DOMAIN new PROVE IsAgent(new[name])
  <2> DEFINE old == IF name \in DOMAIN agents THEN agents[name] ELSE NoAgent
  <2>1. new[name] = IF name \notin DOMAIN layer THEN agents[name] ELSE ApplyAgent(old, Unmarshal(layer[name]))
    BY <1>1 DEF applyPatch
  <2>2. IsAgent(old)
    BY NoAgentType DEF AreAgents
  <2> HIDE DEF old, new
  <2>3. CASE name \in DOMAIN layer
    <3>1. IsMapping(layer[name])
      BY <2>3 DEF IsLayer
    <3> QED BY <2>1, <2>2, <2>3, <3>1, ApplyAgentFacts
  <2>4. CASE name \notin DOMAIN layer
    BY <1>1, <2>1, <2>4 DEF AreAgents
  <2> QED BY <2>3, <2>4
<1> QED BY <1>1, <1>2, <1>3 DEF AreAgents

\* No agents are agents.
LEMMA NoAgentsType == AreAgents(NoAgents) /\ DOMAIN NoAgents = {}
<1>1. DOMAIN NoAgents = {}
  BY DEF NoAgents
<1> QED BY <1>1, FS_EmptySet DEF AreAgents

\* Load returns agents (config.go:128-154).
LEMMA LoadType ==
  ASSUME NEW layers, AreLayers(layers)
  PROVE  AreAgents(Load(layers))
<1> DEFINE n == Len(layers)
<1>1. n \in Nat /\ DOMAIN layers = 1 .. n /\ \A k \in 1 .. n : IsLayer(layers[k])
  BY SequenceDomain DEF AreLayers
<1>2. PICK f : /\ f[0] = NoAgents
               /\ \A k \in 1 .. n : f[k] = applyPatch(f[k - 1], layers[k])
               /\ f[n] = Load(layers)
  BY LoadRounds DEF AreLayers
<1> DEFINE T == {k \in 0 .. n : AreAgents(f[k])}
<1> HIDE DEF n
<1>3. 0 \in T
  BY <1>1, <1>2, NoAgentsType
<1>4. ASSUME NEW k \in 0 .. n - 1, k \in T PROVE k + 1 \in T
  <2>1. k \in Nat /\ k + 1 \in 1 .. n /\ k + 1 \in 0 .. n /\ (k + 1) - 1 = k
    BY <1>1
  <2>2. f[k + 1] = applyPatch(f[k], layers[k + 1])
    BY <1>2, <2>1
  <2>3. AreAgents(f[k]) /\ IsLayer(layers[k + 1])
    BY <1>1, <1>4, <2>1
  <2>4. AreAgents(f[k + 1])
    BY <2>2, <2>3, ApplyPatchType
  <2> QED BY <2>1, <2>4
<1> HIDE DEF T
<1>5. n \in T
  BY <1>1, <1>3, <1>4, SetInduction
<1> QED BY <1>2, <1>5 DEF T

\* The lists joined.
Joined(lists) == LET Join(list, more) == list \o more IN FoldLeft(Join, <<>>, lists)

\* Joining is its rounds.
LEMMA JoinRounds ==
  ASSUME NEW n \in Nat, NEW lists \in [1 .. n -> ToolLists]
  PROVE  \E h \in [0 .. n -> ToolLists] :
            /\ h[0] = <<>>
            /\ \A k \in 1 .. n : h[k] = h[k - 1] \o lists[k]
            /\ h[n] = Joined(lists)
<1> DEFINE S == ToolLists
           Round(acc, k) == acc \o lists[k]
           D == [p \in S \X (1 .. n) |-> Round(p[1], p[2])]
           iter == CHOOSE iter : iter = [s \in SUBSET (1 .. n) |->
                      IF s = {} THEN <<>> ELSE Round(iter[s \ {Max(s)}], Max(s))]
<1>1. <<>> \in S
  BY ConcatFacts
<1>2. IsRound(n, S, D)
  BY ConcatFacts DEF IsRound
<1>3. \A x \in S, k \in 1 .. n : D[<<x, k>>] = Round(x, k)
  OBVIOUS
<1>4. Joined(lists) = iter[1 .. n]
  <2>1. DOMAIN lists = 1 .. n
    OBVIOUS
  <2> QED BY <2>1 DEF Joined, FoldLeft, MapThenFoldSet
<1> HIDE DEF D, S, Round, iter
<1>5. PICK g : Folds(n, S, D, <<>>, g)
  BY <1>1, <1>2, FoldExists
<1>6. g = [s \in SUBSET (1 .. n) |-> IF s = {} THEN <<>> ELSE Round(g[s \ {Max(s)}], Max(s))]
  <2>1. ASSUME NEW s \in SUBSET (1 .. n)
        PROVE  g[s] = IF s = {} THEN <<>> ELSE Round(g[s \ {Max(s)}], Max(s))
    BY <1>3, <1>5, MaxOfPart DEF Folds
  <2> QED BY <1>5, <2>1 DEF Folds
<1>7. iter = [s \in SUBSET (1 .. n) |-> IF s = {} THEN <<>> ELSE Round(iter[s \ {Max(s)}], Max(s))]
  BY <1>6, Zenon DEF iter
<1>8. \A s \in SUBSET (1 .. n) : iter[s] \in S
  <2> DEFINE T == {m \in 0 .. n : \A s \in SUBSET (1 .. m) : iter[s] \in S}
  <2>1. 0 \in T
    <3>1. \A s \in SUBSET (1 .. 0) : s = {} /\ s \in SUBSET (1 .. n)
      OBVIOUS
    <3> QED BY <1>1, <1>7, <3>1
  <2>2. ASSUME NEW m \in 0 .. n - 1, m \in T PROVE m + 1 \in T
    <3>1. m \in Nat /\ m + 1 \in 0 .. n /\ m + 1 \in 1 .. n
      OBVIOUS
    <3>2. ASSUME NEW s \in SUBSET (1 .. m + 1) PROVE iter[s] \in S
      <4>1. s \in SUBSET (1 .. n)
        BY <3>1
      <4>2. CASE s = {}
        BY <1>1, <1>7, <4>1, <4>2
      <4>3. CASE s # {}
        <5>1. Max(s) \in s /\ \A y \in s : y <= Max(s)
          <6>1. s \in SUBSET (0 .. m + 1) /\ m + 1 \in Nat
            BY <3>1
          <6> QED BY <4>3, <6>1, MaxOfInterval
        <5>2. s \ {Max(s)} \in SUBSET (1 .. m)
          <6>1. ASSUME NEW y \in s \ {Max(s)} PROVE y \in 1 .. m
            <7>1. y \in 1 .. m + 1 /\ Max(s) \in 1 .. m + 1 /\ y <= Max(s) /\ y # Max(s)
              BY <5>1
            <7> QED BY <3>1, <7>1
          <6> QED BY <6>1
        <5>3. iter[s \ {Max(s)}] \in S
          BY <2>2, <5>2
        <5>4. Max(s) \in 1 .. n
          BY <4>1, <5>1
        <5>5. Round(iter[s \ {Max(s)}], Max(s)) \in S
          BY <5>3, <5>4, ConcatFacts DEF S, Round
        <5> QED BY <1>7, <4>1, <4>3, <5>5
      <4> QED BY <4>2, <4>3
    <3> QED BY <3>1, <3>2
  <2> HIDE DEF T
  <2>3. n \in T
    BY <2>1, <2>2, SetInduction
  <2> QED BY <2>3 DEF T
<1> DEFINE h == [k \in 0 .. n |-> iter[1 .. k]]
<1>9. h \in [0 .. n -> S] /\ h[0] = <<>> /\ h[n] = iter[1 .. n]
  <2>1. 0 \in 0 .. n /\ n \in 0 .. n /\ 1 .. 0 = {} /\ {} \in SUBSET (1 .. n)
    OBVIOUS
  <2>2. iter[{}] = <<>>
    BY <1>7, <2>1
  <2>3. \A k \in 0 .. n : 1 .. k \in SUBSET (1 .. n)
    OBVIOUS
  <2> QED BY <1>8, <2>1, <2>2, <2>3
<1>10. ASSUME NEW k \in 1 .. n PROVE h[k] = Round(h[k - 1], k)
  <2>1. k \in Nat /\ k # 0 /\ k \in 0 .. n /\ k - 1 \in 0 .. n /\ 1 .. k \in SUBSET (1 .. n)
    OBVIOUS
  <2>2. Max(1 .. k) = k /\ (1 .. k) \ {k} = 1 .. k - 1 /\ 1 .. k # {}
    BY <2>1, IntervalMax
  <2>3. iter[1 .. k] = Round(iter[1 .. k - 1], k)
    BY <1>7, <2>1, <2>2
  <2> QED BY <2>1, <2>3
<1> HIDE DEF h
<1> QED BY <1>4, <1>9, <1>10 DEF Round, S

\* The parts of the reference definition PolicyAsStated.
SetsTools(layer, name) == name \in DOMAIN layer /\ layer[name]["tools"].kind # "absent"

Excepts(layer, name) == name \in DOMAIN layer /\ layer[name]["tools_except"].kind = "value"

Adds(layer, name) ==
    IF name \in DOMAIN layer /\ layer[name]["tools_append"].kind = "value"
    THEN layer[name]["tools_append"].value ELSE <<>>

SetLast(layers, name) == Max({0} \cup {k \in DOMAIN layers : SetsTools(layers[k], name)})
ExceptLast(layers, name) == Max({0} \cup {k \in DOMAIN layers : Excepts(layers[k], name)})

AddsFrom(layers, name, from) ==
    [k \in DOMAIN layers |-> IF k < from THEN <<>> ELSE Adds(layers[k], name)]

KindAt(layers, name, from) == IF from = 0 THEN "absent" ELSE layers[from][name]["tools"].kind
BaseAt(layers, name, from) ==
    IF KindAt(layers, name, from) = "value" THEN layers[from][name]["tools"].value ELSE <<>>
ExceptAt(layers, name, ex) == IF ex = 0 THEN <<>> ELSE layers[ex][name]["tools_except"].value

PolicyFrom(kind, base, except, appended) ==
    CASE kind = "all" -> ToolPolicy("all_except", <<>>, except)
      [] kind # "all" /\ except # <<>> -> NoPolicy
      [] kind # "all" /\ except = <<>> /\ (kind = "value" \/ appended # <<>>) ->
            ToolPolicy("allowlist", base \o appended, <<>>)
      [] OTHER -> ToolPolicy("default", <<>>, <<>>)

\* They make it up.
LEMMA PolicyUnfolded ==
  ASSUME NEW layers, NEW name
  PROVE  PolicyAsStated(layers, name) =
            PolicyFrom(KindAt(layers, name, SetLast(layers, name)), BaseAt(layers, name, SetLast(layers, name)),
                       ExceptAt(layers, name, ExceptLast(layers, name)),
                       Joined(AddsFrom(layers, name, SetLast(layers, name))))
BY DEF PolicyAsStated, LastLayer, PolicyFrom, KindAt, BaseAt, ExceptAt, SetLast, ExceptLast, Joined, AddsFrom,
       Adds, SetsTools, Excepts

\* The last of some layers is one of them and none comes after it.
LEMMA LastFacts ==
  ASSUME NEW n \in Nat, NEW A \in SUBSET (1 .. n)
  PROVE  LET last == Max({0} \cup A)
         IN  last \in 0 .. n /\ (last # 0 => last \in A) /\ \A k \in A : k <= last
<1>1. {0} \cup A \in SUBSET (0 .. n) /\ {0} \cup A # {}
  OBVIOUS
<1>2. Max({0} \cup A) \in {0} \cup A /\ \A y \in {0} \cup A : y <= Max({0} \cup A)
  BY <1>1, MaxOfInterval
<1> QED BY <1>1, <1>2

\* The agent after some layers.
AgentIn(agents, name) == IF name \in DOMAIN agents THEN agents[name] ELSE NoAgent

\* What is known of it when the layers up to m are applied, if from and ex are
\* the last layers that set its tools and its exceptions: nothing before from,
\* and then that it has the tools of that layer and those appended since.
PolicyInv(from, kind, base, ex, except, appended, m, agent) ==
    /\ IsAgent(agent)
    /\ m < from => appended = <<>>
    /\ m >= from => /\ agent["tools_all"] <=> kind = "all"
                    /\ Get(agent["tools"], <<>>) = base \o appended
                    /\ agent["tools"] = Nil <=> kind # "value" /\ appended = <<>>
    /\ m >= ex => Get(agent["tools_except"], <<>>) = except

\* What one layer does to it.
LEMMA PatchedAgent ==
  ASSUME NEW agents, AreAgents(agents), NEW layer, IsLayer(layer), NEW name
  PROVE  AgentIn(applyPatch(agents, layer), name) =
            IF name \in DOMAIN layer THEN ApplyAgent(AgentIn(agents, name), Unmarshal(layer[name]))
            ELSE AgentIn(agents, name)
BY DEF AgentIn, applyPatch

\* A layer keeps it (config.go:206-215).
LEMMA PolicyStep ==
  ASSUME NEW n \in Nat, NEW from \in 0 .. n, NEW ex \in 0 .. n, NEW kind, NEW base \in ToolLists, NEW except,
         NEW m \in 0 .. n - 1, NEW name, NEW layer, IsLayer(layer),
         m + 1 > from => ~SetsTools(layer, name),
         m + 1 = from => /\ SetsTools(layer, name) /\ kind = layer[name]["tools"].kind
                         /\ base = IF kind = "value" THEN layer[name]["tools"].value ELSE <<>>,
         m + 1 > ex => ~Excepts(layer, name),
         m + 1 = ex => Excepts(layer, name) /\ except = layer[name]["tools_except"].value,
         NEW appended \in ToolLists, NEW more,
         more = IF m + 1 < from THEN <<>> ELSE Adds(layer, name),
         NEW agent, PolicyInv(from, kind, base, ex, except, appended, m, agent),
         NEW new, new = IF name \in DOMAIN layer THEN ApplyAgent(agent, Unmarshal(layer[name])) ELSE agent
  PROVE  PolicyInv(from, kind, base, ex, except, appended \o more, m + 1, new)
<1>1. m \in Nat /\ from \in Nat /\ ex \in Nat /\ IsAgent(agent)
  BY DEF PolicyInv
<1>2. CASE name \notin DOMAIN layer
  <2>1. new = agent /\ more = <<>> /\ ~SetsTools(layer, name) /\ ~Excepts(layer, name)
    BY <1>2 DEF Adds, SetsTools, Excepts
  <2>2. appended \o more = appended
    BY <2>1, ConcatFacts
  <2>3. m + 1 # from /\ m + 1 # ex
    BY <2>1
  <2>4. (m + 1 >= from <=> m >= from) /\ (m + 1 >= ex <=> m >= ex) /\ (m + 1 < from => m < from)
    BY <1>1, <2>3
  <2> QED BY <2>1, <2>2, <2>4 DEF PolicyInv
<1>3. CASE name \in DOMAIN layer
  <2> DEFINE mapping == layer[name]
             patch == Unmarshal(mapping)
             old == IF patch["tools_set"] THEN patch["tools"] ELSE agent["tools"]
  <2>1. IsMapping(mapping)
    BY <1>3 DEF IsLayer
  <2>2. /\ patch["tools_set"] = (mapping["tools"].kind # "absent")
        /\ patch["tools_all"] = (mapping["tools"].kind = "all")
        /\ patch["tools"] = IF mapping["tools"].kind = "value" THEN <<mapping["tools"].value>> ELSE Nil
        /\ patch["tools_append"] = IF mapping["tools_append"].kind = "value"
                                     THEN <<mapping["tools_append"].value>> ELSE Nil
        /\ patch["tools_except"] = IF mapping["tools_except"].kind = "value"
                                     THEN <<mapping["tools_except"].value>> ELSE Nil
        /\ IsOption(patch["tools"], ToolLists) /\ IsOption(patch["tools_append"], ToolLists)
        /\ IsOption(patch["tools_except"], ToolLists)
    BY <2>1, UnmarshalFacts
  <2>3. /\ IsAgent(new) /\ new["tools"] = Appended(old, patch["tools_append"])
        /\ new["tools_all"] = IF patch["tools_set"] THEN patch["tools_all"] ELSE agent["tools_all"]
        /\ new["tools_except"] = IF patch["tools_except"] = Nil THEN agent["tools_except"]
                                      ELSE patch["tools_except"]
    BY <1>1, <1>3, <2>1, ApplyAgentFacts
  <2>4. /\ SetsTools(layer, name) <=> patch["tools_set"]
        /\ Excepts(layer, name) <=> patch["tools_except"] # Nil
        /\ Excepts(layer, name) => Get(patch["tools_except"], <<>>) = mapping["tools_except"].value
        /\ Adds(layer, name) = Get(patch["tools_append"], <<>>)
    <3>1. SetsTools(layer, name) <=> patch["tools_set"]
      BY <1>3, <2>2 DEF SetsTools
    <3>2. Excepts(layer, name) <=> mapping["tools_except"].kind = "value"
      BY <1>3 DEF Excepts
    <3>3. Adds(layer, name) = IF mapping["tools_append"].kind = "value" THEN mapping["tools_append"].value ELSE <<>>
      BY <1>3 DEF Adds
    <3> HIDE DEF patch, mapping
    <3>4. Adds(layer, name) = Get(patch["tools_append"], <<>>)
      BY <2>2, <3>3, OptionFacts
    <3>5. (Excepts(layer, name) <=> patch["tools_except"] # Nil)
      BY <2>2, <3>2, OptionFacts
    <3>6. Excepts(layer, name) => Get(patch["tools_except"], <<>>) = mapping["tools_except"].value
      BY <2>2, <3>2, OptionFacts
    <3> QED BY <3>1, <3>4, <3>5, <3>6
  <2> HIDE DEF patch, mapping
  <2>5. IsOption(old, ToolLists) /\ patch["tools_set"] \in BOOLEAN
    BY <1>1, <2>2 DEF IsAgent
  <2> HIDE DEF old
  <2>6. /\ Get(new["tools"], <<>>) = Get(old, <<>>) \o Adds(layer, name)
        /\ new["tools"] = Nil <=> old = Nil /\ Adds(layer, name) = <<>>
    <3> DEFINE more1 == patch["tools_append"]
    <3>1. IsOption(more1, ToolLists) /\ new["tools"] = Appended(old, more1) /\ Adds(layer, name) = Get(more1, <<>>)
      BY <2>2, <2>3, <2>4
    <3> HIDE DEF more1
    <3>2. /\ Get(Appended(old, more1), <<>>) = Get(old, <<>>) \o Get(more1, <<>>)
          /\ Appended(old, more1) = Nil <=> old = Nil /\ Get(more1, <<>>) = <<>>
      BY <2>5, <3>1, AppendedFacts
    <3> QED BY <3>1, <3>2
  <2>7. Adds(layer, name) \in ToolLists /\ Get(old, <<>>) \in ToolLists
    <3>1. <<>> \in ToolLists
      BY ConcatFacts
    <3> QED BY <2>2, <2>4, <2>5, <3>1, GetOption
  <2>8. m + 1 < from => appended \o more = <<>>
    BY <1>1, ConcatFacts DEF PolicyInv
  <2>9. m + 1 >= ex => Get(new["tools_except"], <<>>) = except
    <3>1. CASE m + 1 = ex
      BY <2>3, <2>4, <3>1 DEF mapping
    <3>2. CASE m + 1 > ex
      <4>1. new["tools_except"] = agent["tools_except"] /\ m >= ex
        BY <1>1, <2>3, <2>4, <3>2
      <4> QED BY <4>1 DEF PolicyInv
    <3> QED BY <1>1, <3>1, <3>2
  <2>10. ASSUME m + 1 >= from
         PROVE  /\ new["tools_all"] <=> kind = "all"
                /\ Get(new["tools"], <<>>) = base \o (appended \o more)
                /\ new["tools"] = Nil <=> kind # "value" /\ appended \o more = <<>>
    <3>0. more = Adds(layer, name)
      BY <1>1, <2>10
    <3>1. CASE m + 1 = from
      <4>1. SetsTools(layer, name) /\ kind = mapping["tools"].kind
        BY <3>1 DEF mapping
      <4>2. old = patch["tools"] /\ new["tools_all"] = patch["tools_all"]
        BY <2>3, <2>4, <4>1 DEF old
      <4>3. base = Get(old, <<>>) /\ (old = Nil <=> kind # "value")
        BY <2>2, <3>1, <4>1, <4>2, OptionFacts DEF mapping
      <4>4. appended = <<>>
        BY <1>1, <3>1 DEF PolicyInv
      <4>5. appended \o more = Adds(layer, name)
        BY <2>7, <3>0, <4>4, ConcatFacts
      <4> QED BY <2>2, <2>6, <4>1, <4>2, <4>3, <4>5
    <3>2. CASE m + 1 > from
      <4>1. ~SetsTools(layer, name) /\ m >= from
        BY <1>1, <3>2
      <4>2. old = agent["tools"] /\ new["tools_all"] = agent["tools_all"]
        BY <2>3, <2>4, <4>1 DEF old
      <4>3. /\ agent["tools_all"] <=> kind = "all"
            /\ Get(old, <<>>) = base \o appended
            /\ old = Nil <=> kind # "value" /\ appended = <<>>
        BY <4>1, <4>2 DEF PolicyInv
      <4>4. Get(new["tools"], <<>>) = base \o (appended \o more)
        <5>1. (base \o appended) \o more = base \o (appended \o more)
          <6>1. more \in ToolLists
            BY <2>7, <3>0
          <6> QED BY <6>1, ConcatFacts, Zenon
        <5> QED BY <2>6, <3>0, <4>3, <5>1
      <4>5. appended \o more = <<>> <=> appended = <<>> /\ Adds(layer, name) = <<>>
        <5>1. Len(appended \o more) = Len(appended) + Len(more) /\ Len(appended) \in Nat /\ Len(more) \in Nat
          BY <2>7, <3>0 DEF ToolLists
        <5>2. \A s \in ToolLists : s = <<>> <=> Len(s) = 0
          BY DEF ToolLists
        <5>3. appended \o more \in ToolLists
          BY <2>7, <3>0, ConcatFacts
        <5> QED BY <2>7, <3>0, <5>1, <5>2, <5>3
      <4>6. new["tools"] = Nil <=> kind # "value" /\ appended \o more = <<>>
        BY <2>6, <4>3, <4>5
      <4> QED BY <4>2, <4>3, <4>4, <4>6
    <3> QED BY <1>1, <2>10, <3>1, <3>2
  <2> QED BY <2>3, <2>8, <2>9, <2>10 DEF PolicyInv
<1> QED BY <1>2, <1>3

\* So every agent Load returns has the policy its layers state, once
\* normalizeTools has read its tools (registry.go:159-170).
LEMMA PolicyOfAgent ==
  ASSUME NEW layers, AreLayers(layers), NEW name \in DOMAIN Load(layers)
  PROVE  normalizeTools(Load(layers)[name]) = PolicyAsStated(layers, name)
<1> DEFINE n == Len(layers)
           from == SetLast(layers, name)
           ex == ExceptLast(layers, name)
           kind == KindAt(layers, name, from)
           base == BaseAt(layers, name, from)
           except == ExceptAt(layers, name, ex)
           lists == AddsFrom(layers, name, from)
<1>1. n \in Nat /\ DOMAIN layers = 1 .. n /\ \A k \in 1 .. n : IsLayer(layers[k])
  BY SequenceDomain DEF AreLayers
<1>2. /\ from \in 0 .. n /\ (from # 0 => SetsTools(layers[from], name))
      /\ \A k \in 1 .. n : SetsTools(layers[k], name) => k <= from
  <2> DEFINE A == {k \in DOMAIN layers : SetsTools(layers[k], name)}
  <2>1. A \in SUBSET (1 .. n) /\ from = Max({0} \cup A)
    BY <1>1 DEF SetLast
  <2>2. \A k \in 1 .. n : k \in A <=> SetsTools(layers[k], name)
    BY <1>1
  <2> HIDE DEF A, n
  <2>3. from \in 0 .. n /\ (from # 0 => from \in A) /\ \A k \in A : k <= from
    BY <1>1, <2>1, LastFacts
  <2> HIDE DEF from
  <2> QED BY <2>1, <2>2, <2>3
<1>3. /\ ex \in 0 .. n /\ (ex # 0 => Excepts(layers[ex], name))
      /\ \A k \in 1 .. n : Excepts(layers[k], name) => k <= ex
  <2> DEFINE A == {k \in DOMAIN layers : Excepts(layers[k], name)}
  <2>1. A \in SUBSET (1 .. n) /\ ex = Max({0} \cup A)
    BY <1>1 DEF ExceptLast
  <2>2. \A k \in 1 .. n : k \in A <=> Excepts(layers[k], name)
    BY <1>1
  <2> HIDE DEF A, n
  <2>3. ex \in 0 .. n /\ (ex # 0 => ex \in A) /\ \A k \in A : k <= ex
    BY <1>1, <2>1, LastFacts
  <2> HIDE DEF ex
  <2> QED BY <2>1, <2>2, <2>3
<1>4. PICK f : /\ f[0] = NoAgents
               /\ \A k \in 1 .. n : f[k] = applyPatch(f[k - 1], layers[k])
               /\ f[n] = Load(layers)
  BY LoadRounds DEF AreLayers
<1> HIDE DEF n, from, ex
<1>5. \A k \in 1 .. n : Adds(layers[k], name) \in ToolLists
  BY <1>1, MappingTypes, ConcatFacts DEF Adds, IsLayer
<1>6. lists \in [1 .. n -> ToolLists] /\ \A k \in 1 .. n : lists[k] = IF k < from THEN <<>> ELSE Adds(layers[k], name)
  BY <1>1, <1>5, ConcatFacts DEF AddsFrom
<1> HIDE DEF lists
<1>7. PICK h \in [0 .. n -> ToolLists] :
         h[0] = <<>> /\ (\A k \in 1 .. n : h[k] = h[k - 1] \o lists[k]) /\ h[n] = Joined(lists)
  BY <1>1, <1>6, JoinRounds
<1>8. base \in ToolLists
  <2>1. CASE from = 0
    BY <2>1, ConcatFacts DEF BaseAt, KindAt
  <2>2. CASE from # 0
    <3>1. from \in 1 .. n /\ SetsTools(layers[from], name)
      BY <1>1, <1>2, <2>2
    <3>2. IsMapping(layers[from][name])
      BY <1>1, <3>1 DEF IsLayer, SetsTools
    <3> QED BY <2>2, <3>2, MappingTypes, ConcatFacts DEF BaseAt, KindAt
  <2> QED BY <2>1, <2>2
<1> DEFINE Holds(m) == AreAgents(f[m]) /\ PolicyInv(from, kind, base, ex, except, h[m], m, AgentIn(f[m], name))
           T == {m \in 0 .. n : Holds(m)}
<1>9. 0 \in T
  <2>1. AreAgents(f[0]) /\ AgentIn(f[0], name) = NoAgent
    BY <1>4, NoAgentsType DEF AgentIn
  <2>2. /\ NoAgent["tools_all"] = FALSE /\ NoAgent["tools"] = Nil /\ NoAgent["tools_except"] = Nil
    BY DEF NoAgent, Scalars, Lists
  <2>3. Get(NoAgent["tools"], <<>>) = <<>> /\ Get(NoAgent["tools_except"], <<>>) = <<>>
    BY <2>2 DEF Get, IsNil
  <2>4. 0 >= from => kind = "absent" /\ base = <<>>
    BY <1>1, <1>2 DEF KindAt, BaseAt
  <2>5. 0 >= ex => except = <<>>
    BY <1>1, <1>3 DEF ExceptAt
  <2>6. <<>> \o <<>> = <<>>
    BY ConcatFacts
  <2> HIDE DEF kind, base, except
  <2>7. PolicyInv(from, kind, base, ex, except, <<>>, 0, NoAgent)
    BY <2>2, <2>3, <2>4, <2>5, <2>6, NoAgentType DEF PolicyInv
  <2> QED BY <1>1, <1>7, <2>1, <2>7
<1>10. ASSUME NEW m \in 0 .. n - 1, m \in T PROVE m + 1 \in T
  <2> DEFINE k == m + 1
             layer == layers[k]
  <2>1. m \in Nat /\ k \in 1 .. n /\ k \in 0 .. n /\ k - 1 = m /\ m \in 0 .. n
    BY <1>1
  <2>2. f[k] = applyPatch(f[m], layer) /\ h[k] = h[m] \o lists[k] /\ h[m] \in ToolLists
    BY <1>4, <1>7, <2>1
  <2>3. Holds(m) /\ IsLayer(layer)
    BY <1>1, <1>10, <2>1
  <2>4. AreAgents(f[k])
    BY <2>2, <2>3, ApplyPatchType
  <2>5. AgentIn(f[k], name) = IF name \in DOMAIN layer THEN ApplyAgent(AgentIn(f[m], name), Unmarshal(layer[name]))
                              ELSE AgentIn(f[m], name)
    BY <2>2, <2>3, PatchedAgent
  <2>6. /\ k > from => ~SetsTools(layer, name)
        /\ k = from => /\ SetsTools(layer, name) /\ kind = layer[name]["tools"].kind
                       /\ base = IF kind = "value" THEN layer[name]["tools"].value ELSE <<>>
    BY <1>1, <1>2, <2>1 DEF KindAt, BaseAt
  <2>7. /\ k > ex => ~Excepts(layer, name)
        /\ k = ex => Excepts(layer, name) /\ except = layer[name]["tools_except"].value
    BY <1>1, <1>3, <2>1 DEF ExceptAt
  <2>8. lists[k] = IF k < from THEN <<>> ELSE Adds(layer, name)
    BY <1>6, <2>1
  <2> HIDE DEF layer, kind, base, except
  <2>9. PolicyInv(from, kind, base, ex, except, h[m] \o lists[k], m + 1, AgentIn(f[k], name))
    BY <1>1, <1>2, <1>3, <1>8, <2>2, <2>3, <2>5, <2>6, <2>7, <2>8, PolicyStep
  <2> QED BY <2>1, <2>2, <2>4, <2>9
<1> HIDE DEF T
<1>11. n \in T
  BY <1>1, <1>9, <1>10, SetInduction
<1>12. PolicyInv(from, kind, base, ex, except, Joined(lists), n, Load(layers)[name])
  BY <1>4, <1>7, <1>11 DEF T, AgentIn
<1> DEFINE agent == Load(layers)[name]
           appended == Joined(lists)
<1>13. PolicyAsStated(layers, name) = PolicyFrom(kind, base, except, appended)
  BY PolicyUnfolded DEF from, ex, lists
<1> HIDE DEF kind, base, except, agent, appended
<1>14. /\ IsAgent(agent) /\ (agent["tools_all"] <=> kind = "all")
       /\ Get(agent["tools"], <<>>) = base \o appended
       /\ agent["tools"] = Nil <=> kind # "value" /\ appended = <<>>
       /\ Get(agent["tools_except"], <<>>) = except
  BY <1>1, <1>2, <1>3, <1>12 DEF PolicyInv, agent, appended
<1>15. normalizeTools(agent) = PolicyFrom(kind, base, except, appended)
  <2>1. CASE kind = "all"
    BY <1>14, <2>1 DEF normalizeTools, PolicyFrom
  <2>2. CASE kind # "all" /\ except # <<>>
    BY <1>14, <2>2 DEF normalizeTools, PolicyFrom
  <2>3. CASE kind # "all" /\ except = <<>> /\ (kind = "value" \/ appended # <<>>)
    <3>1. normalizeTools(agent) = ToolPolicy("allowlist", Get(agent["tools"], <<>>), <<>>)
      BY <1>14, <2>3 DEF normalizeTools, IsNil
    <3>2. PolicyFrom(kind, base, except, appended) = ToolPolicy("allowlist", base \o appended, <<>>)
      BY <2>3 DEF PolicyFrom
    <3> QED BY <1>14, <3>1, <3>2
  <2>4. CASE kind # "all" /\ except = <<>> /\ ~(kind = "value" \/ appended # <<>>)
    BY <1>14, <2>4 DEF normalizeTools, PolicyFrom, IsNil
  <2> QED BY <2>1, <2>2, <2>3, <2>4
<1> QED BY <1>13, <1>15 DEF agent

\* For every list of layers, the agent has the tool policy the layers state: a
\* layer that narrows the tools is not undone by an earlier one, and exceptions
\* without "all" are refused (config.go:206-215, registry.go:159-170).
THEOREM PolicyTheorem == Sampled => PolicyIsAsStated
<1> SUFFICES ASSUME NEW layers \in LayerLists, sample = [kind |-> "policy", layers |-> layers]
             PROVE  \/ 1 \notin DOMAIN Load(layers)
                    \/ normalizeTools(Load(layers)[1]) = PolicyAsStated(layers, 1)
  BY DEF Sampled, PolicyIsAsStated
<1>1. AreLayers(layers)
  BY InputsAssumption
<1> QED BY <1>1, PolicyOfAgent

-----------------------------------------------------------------------------
(* The registry *)

\* What the aliases of the active agents are, and that they are finitely many.
LEMMA AliasFacts ==
  ASSUME NEW agents, AreAgents(agents)
  PROVE  /\ Active(agents) \subseteq Nat /\ Active(agents) \subseteq DOMAIN agents /\ IsFiniteSet(Active(agents))
         /\ \A name \in Active(agents) : Aliases(agents, name) \in Seq(Nat)
         /\ IsFiniteSet(AliasPlaces(agents))
         /\ \A name \in Active(agents) : \A k \in DOMAIN Aliases(agents, name) : <<name, k>> \in AliasPlaces(agents)
         /\ \A p \in AliasPlaces(agents) :
               /\ p = <<p[1], p[2]>> /\ p[1] \in Active(agents) /\ p[1] \in Nat /\ p[2] \in Nat
               /\ p[2] \in DOMAIN Aliases(agents, p[1]) /\ Aliases(agents, p[1])[p[2]] \in Nat
<1> DEFINE part == [name \in Active(agents) |-> DOMAIN Aliases(agents, name)]
<1>1. Active(agents) \subseteq DOMAIN agents /\ Active(agents) \subseteq Nat
  BY DEF Active, AreAgents
<1>2. IsFiniteSet(Active(agents))
  BY <1>1, FS_Subset DEF AreAgents
<1>3. \A name \in Active(agents) : Aliases(agents, name) \in Seq(Nat)
  <2>1. <<>> \in Seq(Nat)
    OBVIOUS
  <2>2. ASSUME NEW name \in Active(agents) PROVE Aliases(agents, name) \in Seq(Nat)
    <3>1. IsOption(agents[name]["aliases"], Seq(Nat))
      BY <1>1 DEF AreAgents, IsAgent
    <3> QED BY <2>1, <3>1, GetOption DEF Aliases
  <2> QED BY <2>2
<1>4. AliasPlaces(agents) = NestedPlaces(Active(agents), part)
  BY DEF AliasPlaces, NestedPlaces
<1>5. \A name \in Active(agents) : part[name] = DOMAIN Aliases(agents, name)
  OBVIOUS
<1> HIDE DEF part
<1>6. ASSUME NEW name \in Active(agents)
      PROVE  /\ IsFiniteSet(part[name]) /\ part[name] \subseteq Nat
             /\ \A k \in part[name] : Aliases(agents, name)[k] \in Nat
  <2>1. Aliases(agents, name) \in Seq(Nat)
    BY <1>3
  <2>2. DOMAIN Aliases(agents, name) = 1 .. Len(Aliases(agents, name)) /\ Len(Aliases(agents, name)) \in Nat
    BY <2>1
  <2>3. IsFiniteSet(1 .. Len(Aliases(agents, name)))
    BY <2>2, FS_Interval
  <2> QED BY <1>5, <2>1, <2>2, <2>3
<1>7. IsFiniteSet(AliasPlaces(agents))
  BY <1>2, <1>4, <1>6, NestedPlacesFinite
<1>8. ASSUME NEW name \in Active(agents), NEW k \in DOMAIN Aliases(agents, name)
      PROVE  <<name, k>> \in AliasPlaces(agents)
  BY <1>4, <1>5, NestedPlacesMembers
<1>9. ASSUME NEW p \in AliasPlaces(agents)
      PROVE  /\ p = <<p[1], p[2]>> /\ p[1] \in Active(agents) /\ p[1] \in Nat /\ p[2] \in Nat
             /\ p[2] \in DOMAIN Aliases(agents, p[1]) /\ Aliases(agents, p[1])[p[2]] \in Nat
  <2>1. PICK name \in Active(agents) : \E k \in part[name] : p = <<name, k>>
    BY <1>4, NestedPlacesMembers
  <2>2. PICK k \in part[name] : p = <<name, k>>
    BY <2>1
  <2>3. p[1] = name /\ p[2] = k
    BY <2>2
  <2> QED BY <1>1, <1>5, <1>6, <2>2, <2>3
<1> QED BY <1>1, <1>2, <1>3, <1>7, <1>8, <1>9

\* The aliases before each of them.
PlacesBefore(agents) == [p \in AliasPlaces(agents) |-> {q \in AliasPlaces(agents) : Lexicographic(q, p)}]

\* The second loop of Build takes them in order (registry.go:107-121).
LEMMA AliasOrder ==
  ASSUME NEW agents, AreAgents(agents)
  PROVE  \E order :
            /\ IsTotalOrder(AliasPlaces(agents), PlacesBefore(agents))
            /\ Sorts(AliasPlaces(agents), PlacesBefore(agents), order)
            /\ AliasPairs(agents) = [k \in 1 .. Cardinality(AliasPlaces(agents)) |-> PairAt(agents, order[k])]
<1> DEFINE S == AliasPlaces(agents)
           below == PlacesBefore(agents)
           order == [k \in 1 .. Cardinality(S) |->
                       CHOOSE x \in S : Cardinality({q \in S : Lexicographic(q, x)}) = k - 1]
<1>1. AliasPairs(agents) = [k \in 1 .. Cardinality(S) |-> PairAt(agents, order[k])]
  BY DEF AliasPairs, PairsInOrder, SortedBy
<1>2. IsFiniteSet(S) /\ \A p \in S : p = <<p[1], p[2]>> /\ p[1] \in Nat /\ p[2] \in Nat
  BY AliasFacts
<1> HIDE DEF S
<1>3. \A x \in S : below[x] = {q \in S : Lexicographic(q, x)}
  BY DEF PlacesBefore, S
<1>4. DOMAIN below = S /\ below \in [S -> SUBSET S]
  BY DEF PlacesBefore, S
<1> HIDE DEF below
<1>5. IsSort(S, below, order)
  <2>1. \A k \in 1 .. Cardinality(S) : order[k] = CHOOSE x \in S : Cardinality({q \in S : Lexicographic(q, x)}) = k - 1
    OBVIOUS
  <2>2. order = [k \in 1 .. Cardinality(S) |-> order[k]]
    <3> DEFINE At(k) == CHOOSE x \in S : Cardinality({q \in S : Lexicographic(q, x)}) = k - 1
    <3>1. order = [k \in 1 .. Cardinality(S) |-> At(k)]
      OBVIOUS
    <3> HIDE DEF order, At
    <3> QED BY <3>1
  <2> HIDE DEF order
  <2>3. ASSUME NEW k \in 1 .. Cardinality(S), NEW x \in S, Cardinality(below[x]) = k - 1
        PROVE  order[k] \in S /\ Cardinality(below[order[k]]) = k - 1
    <3>1. Cardinality({q \in S : Lexicographic(q, x)}) = k - 1
      BY <1>3, <2>3
    <3>2. order[k] \in S /\ Cardinality({q \in S : Lexicographic(q, order[k])}) = k - 1
      BY <2>1, <3>1
    <3> QED BY <1>3, <3>2
  <2> QED BY <2>2, <2>3 DEF IsSort
<1>6. IsTotalOrder(S, below)
  <2>1. \A x, y \in S : y \in below[x] <=> y[1] < x[1] \/ (y[1] = x[1] /\ y[2] < x[2])
    BY <1>3 DEF Lexicographic
  <2>2. \A x, y \in S : x[1] = y[1] /\ x[2] = y[2] => x = y
    BY <1>2
  <2>3. \A x \in S : x[1] \in Int /\ x[2] \in Int
    BY <1>2
  <2> QED BY <1>4, <2>1, <2>2, <2>3 DEF IsTotalOrder
<1> HIDE DEF order
<1>7. Sorts(S, below, order)
  BY <1>2, <1>5, <1>6, SortOfTotalOrder
<1> QED BY <1>1, <1>6, <1>7 DEF S, below

\* The map before any alias, and what maps are.
AliasStart == [ok |-> TRUE, map |-> [alias \in {} |-> 0]]

AliasMaps == UNION {[N -> Nat] : N \in SUBSET Nat}

\* A member of AliasMaps maps numbers to numbers.
LEMMA AliasMapsMembers == \A m : m \in AliasMaps <=> m \in [DOMAIN m -> Nat] /\ DOMAIN m \subseteq Nat
BY DEF AliasMaps

AliasTypes == [ok : BOOLEAN, map : AliasMaps]

\* A round of the loop keeps the type.
LEMMA AddAliasType ==
  ASSUME NEW agents, NEW acc \in AliasTypes, NEW pair, pair[1] \in Nat, pair[2] \in Nat
  PROVE  AddAlias(agents, acc, pair) \in AliasTypes
<1> DEFINE new == [alias \in DOMAIN acc.map \cup {pair[2]} |-> IF alias = pair[2] THEN pair[1] ELSE acc.map[alias]]
<1>1. acc.map \in [DOMAIN acc.map -> Nat] /\ DOMAIN acc.map \subseteq Nat
  BY AliasMapsMembers DEF AliasTypes
<1>2. new \in [DOMAIN new -> Nat] /\ DOMAIN new \subseteq Nat
  BY <1>1
<1>3. new \in AliasMaps
  BY <1>2, AliasMapsMembers
<1>4. AddAlias(agents, acc, pair) \in {acc, [acc EXCEPT !.ok = FALSE], [acc EXCEPT !.map = new]}
  BY DEF AddAlias
<1> HIDE DEF new
<1> QED BY <1>3, <1>4 DEF AliasTypes

\* AliasMap is its rounds, one for every alias.
LEMMA AliasRounds ==
  ASSUME NEW agents, AreAgents(agents), NEW order,
         NEW n \in Nat, order \in [1 .. n -> AliasPlaces(agents)],
         AliasPairs(agents) = [k \in 1 .. n |-> PairAt(agents, order[k])]
  PROVE  \E f : /\ f[0] = AliasStart
                /\ \A k \in 1 .. n : f[k] = AddAlias(agents, f[k - 1], PairAt(agents, order[k]))
                /\ f[n] = AliasMap(agents)
<1> DEFINE pairs == AliasPairs(agents)
           Round(acc, k) == AddAlias(agents, acc, pairs[k])
           S == AliasTypes
           b == AliasStart
           D == [p \in S \X (1 .. n) |-> Round(p[1], p[2])]
           iter == CHOOSE iter : iter = [s \in SUBSET (1 .. n) |->
                      IF s = {} THEN b ELSE Round(iter[s \ {Max(s)}], Max(s))]
<1>1. DOMAIN pairs = 1 .. n /\ \A k \in 1 .. n : pairs[k] = PairAt(agents, order[k])
  OBVIOUS
<1>2. \A k \in 1 .. n : pairs[k][1] \in Nat /\ pairs[k][2] \in Nat
  BY <1>1, AliasFacts DEF PairAt
<1> HIDE DEF pairs
<1>3. b \in S
  BY AliasMapsMembers DEF AliasStart, AliasTypes
<1>4. IsRound(n, S, D)
  BY <1>2, AddAliasType DEF IsRound
<1>5. \A x \in S, k \in 1 .. n : D[<<x, k>>] = Round(x, k)
  OBVIOUS
<1>6. AliasMap(agents) = iter[1 .. n]
  BY <1>1 DEF AliasMap, FoldLeft, MapThenFoldSet, AliasStart, pairs
<1> HIDE DEF D, S, b, Round, iter
<1>7. PICK g : Folds(n, S, D, b, g)
  BY <1>3, <1>4, FoldExists
<1>8. g = [s \in SUBSET (1 .. n) |-> IF s = {} THEN b ELSE Round(g[s \ {Max(s)}], Max(s))]
  <2>1. ASSUME NEW s \in SUBSET (1 .. n)
        PROVE  g[s] = IF s = {} THEN b ELSE Round(g[s \ {Max(s)}], Max(s))
    BY <1>5, <1>7, MaxOfPart DEF Folds
  <2> QED BY <1>7, <2>1 DEF Folds
<1>9. iter = [s \in SUBSET (1 .. n) |-> IF s = {} THEN b ELSE Round(iter[s \ {Max(s)}], Max(s))]
  BY <1>8, Zenon DEF iter
<1> DEFINE f == [k \in 0 .. n |-> iter[1 .. k]]
<1>10. f[0] = b /\ f[n] = iter[1 .. n]
  <2>1. 0 \in 0 .. n /\ n \in 0 .. n /\ 1 .. 0 = {} /\ {} \in SUBSET (1 .. n)
    OBVIOUS
  <2>2. iter[{}] = b
    BY <1>9, <2>1
  <2> QED BY <2>1, <2>2
<1>11. ASSUME NEW k \in 1 .. n PROVE f[k] = Round(f[k - 1], k)
  <2>1. k \in Nat /\ k # 0 /\ k \in 0 .. n /\ k - 1 \in 0 .. n /\ 1 .. k \in SUBSET (1 .. n)
    OBVIOUS
  <2>2. Max(1 .. k) = k /\ (1 .. k) \ {k} = 1 .. k - 1 /\ 1 .. k # {}
    BY <2>1, IntervalMax
  <2>3. iter[1 .. k] = Round(iter[1 .. k - 1], k)
    BY <1>9, <2>1, <2>2
  <2> QED BY <2>1, <2>3
<1> HIDE DEF f
<1> QED BY <1>1, <1>6, <1>10, <1>11 DEF Round, b

\* What is known when the aliases at the places seen were added: the map has
\* exactly those, each for its agent, and none is another agent's name; or one
\* could mean two agents.
AliasInv(agents, seen, acc) ==
    /\ acc \in AliasTypes
    /\ acc.ok =>
          /\ \A p \in seen : LET alias == Aliases(agents, p[1])[p[2]]
                             IN  alias # 0 => /\ alias \in DOMAIN acc.map /\ acc.map[alias] = p[1]
                                              /\ alias \in Active(agents) => alias = p[1]
          /\ \A alias \in DOMAIN acc.map :
                alias # 0 /\ \E p \in seen : Aliases(agents, p[1])[p[2]] = alias /\ acc.map[alias] = p[1]
    /\ ~acc.ok => ~Unambiguous(agents)

\* A round keeps it.
LEMMA AliasStep ==
  ASSUME NEW agents, AreAgents(agents), NEW seen \in SUBSET AliasPlaces(agents),
         NEW x \in AliasPlaces(agents), NEW acc, AliasInv(agents, seen, acc)
  PROVE  AliasInv(agents, seen \cup {x}, AddAlias(agents, acc, PairAt(agents, x)))
<1> DEFINE name == x[1]
           alias == Aliases(agents, x[1])[x[2]]
           pair == PairAt(agents, x)
           next == AddAlias(agents, acc, pair)
           new == [a \in DOMAIN acc.map \cup {alias} |-> IF a = alias THEN name ELSE acc.map[a]]
<1>1. /\ name \in Active(agents) /\ name \in Nat /\ alias \in Nat /\ x[2] \in DOMAIN Aliases(agents, name)
      /\ pair[1] = name /\ pair[2] = alias /\ acc \in AliasTypes
  BY AliasFacts DEF PairAt, AliasInv
<1>2. next \in AliasTypes
  BY <1>1, AddAliasType
<1>3. alias \in ToSet(Aliases(agents, name))
  BY <1>1 DEF ToSet
<1>4. next = IF ~acc.ok \/ alias = 0 THEN acc
             ELSE IF Collides(acc.map, Active(agents), name, alias) THEN [acc EXCEPT !.ok = FALSE]
             ELSE [acc EXCEPT !.map = new]
  BY <1>1 DEF AddAlias
<1> SUFFICES AliasInv(agents, seen \cup {x}, next)
  OBVIOUS
<1> HIDE DEF next, pair, new, alias
<1>5. CASE ~acc.ok
  BY <1>2, <1>4, <1>5 DEF AliasInv
<1>6. CASE acc.ok /\ alias = 0
  <2>1. next = acc
    BY <1>4, <1>6
  <2> QED BY <1>2, <1>6, <2>1 DEF AliasInv, alias
<1>7. CASE acc.ok /\ alias # 0 /\ Collides(acc.map, Active(agents), name, alias)
  <2>1. next = [acc EXCEPT !.ok = FALSE]
    BY <1>4, <1>7
  <2>2. ~next.ok
    BY <1>1, <2>1 DEF AliasTypes
  <2>3. ~Unambiguous(agents)
    <3>1. CASE alias \in Active(agents) /\ alias # name
      BY <1>1, <1>3, <3>1 DEF Unambiguous
    <3>2. CASE alias \in DOMAIN acc.map /\ acc.map[alias] # name
      <4>1. PICK p \in seen : Aliases(agents, p[1])[p[2]] = alias /\ acc.map[alias] = p[1]
        BY <1>7, <3>2 DEF AliasInv
      <4>2. p[1] \in Active(agents) /\ p[2] \in DOMAIN Aliases(agents, p[1]) /\ p[1] # name
        BY <3>2, <4>1, AliasFacts
      <4>3. alias \in ToSet(Aliases(agents, p[1]))
        BY <4>1, <4>2 DEF ToSet
      <4> QED BY <1>1, <1>3, <1>7, <4>2, <4>3 DEF Unambiguous
    <3> QED BY <1>7, <3>1, <3>2 DEF Collides
  <2> QED BY <1>2, <2>2, <2>3 DEF AliasInv
<1>8. CASE acc.ok /\ alias # 0 /\ ~Collides(acc.map, Active(agents), name, alias)
  <2>1. next = [acc EXCEPT !.map = new]
    BY <1>4, <1>8
  <2>2. next.ok /\ next.map = new
    BY <1>1, <1>8, <2>1 DEF AliasTypes
  <2>3. /\ DOMAIN new = DOMAIN acc.map \cup {alias} /\ new[alias] = name
        /\ \A a \in DOMAIN acc.map : a # alias => new[a] = acc.map[a]
    BY DEF new
  <2>4. (alias \in Active(agents) => alias = name) /\ (alias \in DOMAIN acc.map => acc.map[alias] = name)
    BY <1>8 DEF Collides
  <2>5. \A a \in DOMAIN acc.map : new[a] = acc.map[a]
    BY <2>3, <2>4
  <2>6. ASSUME NEW p \in seen \cup {x}, Aliases(agents, p[1])[p[2]] # 0
        PROVE  LET a == Aliases(agents, p[1])[p[2]]
               IN  a \in DOMAIN new /\ new[a] = p[1] /\ (a \in Active(agents) => a = p[1])
    <3>1. CASE p \in seen
      BY <1>8, <2>3, <2>5, <2>6, <3>1 DEF AliasInv
    <3>2. CASE p = x
      BY <2>3, <2>4, <3>2 DEF alias
    <3> QED BY <3>1, <3>2
  <2>7. ASSUME NEW a \in DOMAIN new
        PROVE  a # 0 /\ \E p \in seen \cup {x} : Aliases(agents, p[1])[p[2]] = a /\ new[a] = p[1]
    <3>1. CASE a = alias
      <4>1. Aliases(agents, x[1])[x[2]] = a /\ new[a] = x[1]
        BY <2>3, <3>1 DEF alias
      <4> QED BY <1>8, <3>1, <4>1
    <3>2. CASE a # alias
      <4>1. a \in DOMAIN acc.map
        BY <2>3, <3>2
      <4>2. a # 0 /\ \E p \in seen : Aliases(agents, p[1])[p[2]] = a /\ acc.map[a] = p[1]
        BY <1>8, <4>1 DEF AliasInv
      <4> QED BY <2>5, <4>1, <4>2
    <3> QED BY <3>1, <3>2
  <2> QED BY <1>2, <2>2, <2>6, <2>7 DEF AliasInv
<1> QED BY <1>5, <1>6, <1>7, <1>8

\* So it holds for all aliases.
LEMMA AliasAll ==
  ASSUME NEW agents, AreAgents(agents)
  PROVE  AliasInv(agents, AliasPlaces(agents), AliasMap(agents))
<1> DEFINE S == AliasPlaces(agents)
           below == PlacesBefore(agents)
           n == Cardinality(S)
<1>1. PICK order : /\ IsTotalOrder(S, below) /\ Sorts(S, below, order)
                   /\ AliasPairs(agents) = [k \in 1 .. n |-> PairAt(agents, order[k])]
  BY AliasOrder
<1>2. n \in Nat /\ order \in [1 .. n -> S]
  BY <1>1 DEF Sorts
<1>3. PICK f : /\ f[0] = AliasStart
               /\ \A k \in 1 .. n : f[k] = AddAlias(agents, f[k - 1], PairAt(agents, order[k]))
               /\ f[n] = AliasMap(agents)
  BY <1>1, <1>2, AliasRounds
<1> DEFINE T == {k \in 0 .. n : AliasInv(agents, Seen(order, k), f[k])}
<1>4. 0 \in T
  <2>1. AliasStart \in AliasTypes /\ AliasStart.ok /\ DOMAIN AliasStart.map = {}
    BY AliasMapsMembers DEF AliasStart, AliasTypes
  <2>2. AliasInv(agents, {}, AliasStart)
    BY <2>1 DEF AliasInv
  <2>3. Seen(order, 0) = {}
    BY SeenRound
  <2> HIDE DEF n, S
  <2>4. 0 \in 0 .. n
    BY <1>2
  <2>5. f[0] = AliasStart
    BY <1>3
  <2>6. AliasInv(agents, Seen(order, 0), f[0])
    BY <2>2, <2>3, <2>5
  <2> QED BY <2>4, <2>6
<1>5. ASSUME NEW k \in 0 .. n - 1, k \in T PROVE k + 1 \in T
  <2>1. k \in Nat /\ k + 1 \in 1 .. n /\ k + 1 \in 0 .. n /\ (k + 1) - 1 = k
    BY <1>2
  <2>2. f[k + 1] = AddAlias(agents, f[k], PairAt(agents, order[k + 1]))
    BY <1>3, <2>1
  <2>3. Seen(order, k) \in SUBSET S /\ order[k + 1] \in S /\ Seen(order, k + 1) = Seen(order, k) \cup {order[k + 1]}
    <3>1. Seen(order, k + 1) = Seen(order, k) \cup {order[k + 1]}
      BY <2>1, SeenRound
    <3>2. Seen(order, k) \in SUBSET S /\ order[k + 1] \in S \ Seen(order, k)
      BY <1>1, SeenInOrder
    <3> QED BY <3>1, <3>2
  <2>4. AliasInv(agents, Seen(order, k), f[k])
    BY <1>5
  <2>5. AliasInv(agents, Seen(order, k + 1), f[k + 1])
    BY <2>2, <2>3, <2>4, AliasStep
  <2> QED BY <2>1, <2>5
<1> HIDE DEF T, n
<1>6. n \in T
  BY <1>2, <1>4, <1>5, SetInduction
<1>7. Seen(order, n) = S
  BY <1>1, SeenAll DEF n
<1> QED BY <1>3, <1>6, <1>7 DEF T

\* What a registry of any agents is.
LEMMA BuildFacts ==
  ASSUME NEW agents, AreAgents(agents), NEW strict
  PROVE  LET registry == Build(agents, strict)
             accepted == \A name \in Active(agents) : ~Rejected(name, agents[name], strict)
         IN  /\ registry.ok <=> accepted /\ Unambiguous(agents)
             /\ registry.ok => \A name \in Active(agents) :
                  \A alias \in ToSet(Aliases(agents, name)) \ {0} :
                      /\ ResolveAlias(registry, alias) = name
                      /\ alias \in Active(agents) => alias = name
<1> DEFINE acc == AliasMap(agents)
           registry == Build(agents, strict)
           accepted == \A name \in Active(agents) : ~Rejected(name, agents[name], strict)
<1>1. AliasInv(agents, AliasPlaces(agents), acc)
  BY AliasAll
<1>2. registry.ok = (accepted /\ acc.ok) /\ registry.aliases = acc.map
  BY DEF Build
<1> HIDE DEF acc, registry
<1>3. ASSUME acc.ok, NEW name \in Active(agents), NEW alias \in ToSet(Aliases(agents, name)), alias # 0
      PROVE  alias \in DOMAIN acc.map /\ acc.map[alias] = name /\ (alias \in Active(agents) => alias = name)
  <2>1. PICK k \in DOMAIN Aliases(agents, name) : alias = Aliases(agents, name)[k]
    BY <1>3 DEF ToSet
  <2> DEFINE p == <<name, k>>
  <2>2. p \in AliasPlaces(agents) /\ p[1] = name /\ p[2] = k
    BY <2>1, AliasFacts
  <2> HIDE DEF p
  <2>3. Aliases(agents, p[1])[p[2]] = alias
    BY <2>1, <2>2
  <2> QED BY <1>1, <1>3, <2>2, <2>3 DEF AliasInv
<1>4. ASSUME registry.ok PROVE Unambiguous(agents)
  <2>1. acc.ok /\ 0 \notin Active(agents)
    BY <1>2, <1>4 DEF Rejected
  <2>2. SUFFICES ASSUME NEW a \in Active(agents), NEW b \in Active(agents), a # b
                 PROVE  /\ b \notin ToSet(Aliases(agents, a))
                        /\ ToSet(Aliases(agents, a)) \cap ToSet(Aliases(agents, b)) \subseteq {0}
    BY DEF Unambiguous
  <2>3. b \notin ToSet(Aliases(agents, a))
    BY <1>3, <2>1, <2>2
  <2>4. ASSUME NEW alias \in ToSet(Aliases(agents, a)) \cap ToSet(Aliases(agents, b)) PROVE alias = 0
    BY <1>3, <2>1, <2>2
  <2> QED BY <2>3, <2>4
<1>5. ASSUME accepted, Unambiguous(agents) PROVE registry.ok
  BY <1>1, <1>2, <1>5 DEF AliasInv
<1>6. ASSUME registry.ok, NEW name \in Active(agents), NEW alias \in ToSet(Aliases(agents, name)) \ {0}
      PROVE  ResolveAlias(registry, alias) = name /\ (alias \in Active(agents) => alias = name)
  <2>1. alias \in DOMAIN acc.map /\ acc.map[alias] = name /\ (alias \in Active(agents) => alias = name)
    BY <1>2, <1>3, <1>6
  <2> QED BY <1>2, <2>1 DEF ResolveAlias
<1>7. registry.ok => accepted
  BY <1>2
<1> QED BY <1>4, <1>5, <1>6, <1>7 DEF registry

\* For every set of agents and either strictness, a registry is built exactly if
\* every active agent is acceptable and no alias could mean two of them; and then
\* every alias leads to the agent that has it (registry.go:75-121).
THEOREM AliasTheorem == Sampled => AliasesAreUnambiguous
<1> SUFFICES ASSUME NEW layer \in Rosters, NEW strict \in BOOLEAN,
                    sample = [kind |-> "registry", layer |-> layer, strict |-> strict]
             PROVE  AliasesAreUnambiguous
  BY DEF Sampled, AliasesAreUnambiguous
<1> DEFINE agents == Load(<<layer>>)
<1>1. AreLayers(<<layer>>)
  <2>1. IsLayer(layer)
    BY InputsAssumption
  <2> DEFINE layers == <<layer>>
  <2>2. Len(layers) = 1 /\ DOMAIN layers = {1} /\ layers[1] = layer
    OBVIOUS
  <2>3. layers \in Seq({layers[k] : k \in DOMAIN layers})
    OBVIOUS
  <2> QED BY <2>1, <2>2, <2>3 DEF AreLayers, IsSequence, ToSet
<1>2. AreAgents(agents)
  BY <1>1, LoadType
<1> HIDE DEF agents
<1> QED BY <1>2, BuildFacts DEF AliasesAreUnambiguous, agents

-----------------------------------------------------------------------------
(* on-submit *)

\* A text goes to an agent that is there, or to none.
LEMMA RoutedAgent ==
  ASSUME NEW text, NEW triggers, AreRouted(triggers), NEW cautious
  PROVE  RouteOf(text, triggers, cautious).agent \in {0} \cup DOMAIN triggers
<1> DEFINE matches == findMatches(text, triggers)
<1>1. CASE Found(text, triggers) = {}
  <2>1. matches = <<>>
    BY <1>1, FirstMatch
  <2> QED BY <2>1 DEF RouteOf
<1>2. CASE Found(text, triggers) # {}
  <2>1. PICK p \in Found(text, triggers) : matches # <<>> /\ matches[1] = MatchAt(text, triggers, p)
    BY <1>2, FirstMatch
  <2>2. p \in Places(triggers)
    BY DEF Found
  <2>3. matches[1].agent \in DOMAIN triggers
    BY <2>1, <2>2, TriggerFacts
  <2> HIDE DEF matches
  <2>4. RouteOf(text, triggers, cautious).agent = matches[1].agent
    BY <2>1 DEF RouteOf, matches
  <2> QED BY <2>3, <2>4
<1> QED BY <1>1, <1>2

\* The sections of defaultPromptSections.
SectionNames ==
    {"route/identity", "guardrails", "tool-policy", "autonomy", "agent-description", "role-fit", "project-rules"}

SectionTypes == [name : SectionNames, tokens : Nat, required : BOOLEAN, priority : Int]

\* Sections appended leave the third where it is.
LEMMA HeadStays ==
  ASSUME NEW R, NEW s \in Seq(R), NEW t \in Seq(R), Len(s) >= 4
  PROVE  s \o t \in Seq(R) /\ Len(s \o t) >= 4 /\ (s \o t)[3] = s[3]
OBVIOUS

\* The third section is the tool policy (orchestrator.go:254-287).
LEMMA DefaultSections ==
  ASSUME NEW name, NEW extras
  PROVE  LET sections == defaultPromptSections(name, extras)
         IN  AreSections(sections) /\ 3 \in DOMAIN sections /\ sections[3] = ToolPolicySection
<1> DEFINE R == SectionTypes
           r1 == [name |-> "route/identity", tokens |-> 2, required |-> TRUE, priority |-> 100]
           r2 == [name |-> "guardrails", tokens |-> 2, required |-> TRUE, priority |-> 95]
           r3 == ToolPolicySection
           r4 == [name |-> "autonomy", tokens |-> 1, required |-> TRUE, priority |-> 85]
           r5 == [name |-> "agent-description", tokens |-> 2, required |-> FALSE, priority |-> 80]
           r6 == [name |-> "role-fit", tokens |-> 1, required |-> FALSE, priority |-> 70]
           r7 == [name |-> "project-rules", tokens |-> 3, required |-> FALSE, priority |-> 60]
           head == <<r1, r2, r3, r4>>
           a == When(name # 0, r5)
           b == When(name # 0 /\ "role-fit" \in extras, r6)
           c == When("project-rules" \in extras, r7)
<1> DEFINE sections == head \o a \o b \o c
<1>6. defaultPromptSections(name, extras) = sections
  BY DEF defaultPromptSections
<1>1. r1 \in R /\ r2 \in R /\ r3 \in R /\ r4 \in R /\ r5 \in R /\ r6 \in R /\ r7 \in R
  BY DEF SectionTypes, SectionNames, ToolPolicySection
<1>2. a \in {<<>>, <<r5>>} /\ b \in {<<>>, <<r6>>} /\ c \in {<<>>, <<r7>>}
  BY DEF When
<1> HIDE DEF R, r1, r2, r4, r5, r6, r7, a, b, c
<1>3. \A r \in R : <<>> \in Seq(R) /\ <<r>> \in Seq(R)
  OBVIOUS
<1>4. a \in Seq(R) /\ b \in Seq(R) /\ c \in Seq(R)
  BY <1>1, <1>2, <1>3
<1>5. head \in Seq(R) /\ Len(head) >= 4 /\ head[3] = ToolPolicySection
  BY <1>1
<1> HIDE DEF head
<1>7. (head \o a) \in Seq(R) /\ Len(head \o a) >= 4 /\ (head \o a)[3] = ToolPolicySection
  BY <1>4, <1>5, HeadStays
<1> DEFINE ha == head \o a
<1> HIDE DEF ha
<1>8. (ha \o b) \in Seq(R) /\ Len(ha \o b) >= 4 /\ (ha \o b)[3] = ToolPolicySection
  BY <1>4, <1>7, HeadStays DEF ha
<1> DEFINE hb == ha \o b
<1> HIDE DEF hb
<1>9. (hb \o c) \in Seq(R) /\ Len(hb \o c) >= 4 /\ (hb \o c)[3] = ToolPolicySection
  BY <1>4, <1>8, HeadStays DEF hb
<1>10. sections = hb \o c
  BY DEF hb, ha
<1> HIDE DEF sections
<1>11. sections \in Seq(R) /\ Len(sections) >= 4 /\ sections[3] = ToolPolicySection
  BY <1>9, <1>10
<1>12. 3 \in DOMAIN sections /\ \A k \in DOMAIN sections : sections[k] \in R
  BY <1>11
<1>13. sections \in Seq({sections[k] : k \in DOMAIN sections})
  BY <1>11
<1>14. AreSections(sections)
  BY <1>12, <1>13 DEF AreSections, IsSequence, ToSet, R, SectionTypes
<1> QED BY <1>6, <1>11, <1>12, <1>14

\* A prompt has every required section that is not blank (prompt.go:64-91).
LEMMA RequiredIsBuilt ==
  ASSUME NEW sections, AreSections(sections), NEW max \in Int, BuildPrompt(sections, max).ok,
         NEW x \in Required(sections), sections[x].tokens > 0
  PROVE  sections[x].name \in ToSet(BuildPrompt(sections, max).prompt)
<1> DEFINE chosen == selectSections(sections, max)
           Q == {k \in chosen.selected : sections[k].tokens > 0}
           order == [k \in 1 .. Cardinality(Q) |-> CHOOSE y \in Q : Cardinality({z \in Q : z < y}) = k - 1]
           below == [k \in Q |-> {z \in Q : z < k}]
<1>1. chosen.ok /\ BuildPrompt(sections, max).prompt = [k \in 1 .. Cardinality(Q) |-> sections[order[k]].name]
  BY DEF BuildPrompt, NamesInOrder, SortedBy
<1>2. chosen.selected \in SUBSET DOMAIN sections /\ x \in chosen.selected
  <2>1. x \in DOMAIN sections /\ Required(sections) \in SUBSET DOMAIN sections
    BY DEF Required
  <2>2. CASE max <= 0
    <3>1. chosen.selected = DOMAIN sections
      BY <2>2 DEF selectSections
    <3> QED BY <2>1, <3>1
  <2>3. CASE max > 0
    <3>1. totalTokens(sections, Required(sections)) \in Nat
      BY <2>1, TotalOfPart
    <3>2. totalTokens(sections, Required(sections)) <= max
      <4>1. SUFFICES ASSUME totalTokens(sections, Required(sections)) > max PROVE FALSE
        BY <3>1
      <4>2. ~(max <= 0)
        BY <2>3
      <4>3. ~chosen.ok
        BY <4>1, <4>2 DEF selectSections
      <4> QED BY <1>1, <4>3
    <3>3. KeepInv(sections, max, Len(sections) + 1, chosen)
      BY <2>3, <3>2, KeepAll
    <3> HIDE DEF chosen
    <3> QED BY <3>3 DEF KeepInv, SelectTypes
  <2> QED BY <2>2, <2>3
<1> HIDE DEF chosen
<1>3. Q \in SUBSET DOMAIN sections /\ x \in Q
  BY <1>2
<1>4. IsFiniteSet(Q) /\ \A k \in Q : k \in Int
  BY <1>3, SectionFacts, FS_Subset
<1> HIDE DEF Q
<1>5. IsTotalOrder(Q, below)
  BY <1>4 DEF IsTotalOrder
<1>6. IsSort(Q, below, order)
  <2>1. \A y \in Q : below[y] = {z \in Q : z < y}
    OBVIOUS
  <2>2. \A k \in 1 .. Cardinality(Q) : order[k] = CHOOSE y \in Q : Cardinality({z \in Q : z < y}) = k - 1
    OBVIOUS
  <2>3. order = [k \in 1 .. Cardinality(Q) |-> order[k]]
    <3> DEFINE At(k) == CHOOSE y \in Q : Cardinality({z \in Q : z < y}) = k - 1
    <3>1. order = [k \in 1 .. Cardinality(Q) |-> At(k)]
      OBVIOUS
    <3> HIDE DEF order, At
    <3> QED BY <3>1
  <2> HIDE DEF order, below
  <2>4. ASSUME NEW k \in 1 .. Cardinality(Q), NEW y \in Q, Cardinality(below[y]) = k - 1
        PROVE  order[k] \in Q /\ Cardinality(below[order[k]]) = k - 1
    <3>1. Cardinality({z \in Q : z < y}) = k - 1
      BY <2>1, <2>4
    <3>2. order[k] \in Q /\ Cardinality({z \in Q : z < order[k]}) = k - 1
      BY <2>2, <3>1
    <3> QED BY <2>1, <3>2
  <2> QED BY <2>3, <2>4 DEF IsSort
<1> HIDE DEF order, below
<1>7. Sorts(Q, below, order)
  BY <1>4, <1>5, <1>6, SortOfTotalOrder
<1>8. PICK k \in 1 .. Cardinality(Q) : order[k] = x
  BY <1>3, <1>7 DEF Sorts
<1> QED BY <1>1, <1>8 DEF ToSet

\* For every configuration, payload, set of other sections and budget, an answer
\* to on-submit tells the model the tool policy its agent's layers state, or the
\* host's if no agent is chosen (orchestrator.go:64-100, 254-287).
THEOREM SubmitTheorem == Sampled => PolicyReachesPrompt
<1> SUFFICES ASSUME NEW of \in SubmitInputs, sample = [kind |-> "submit", of |-> of]
             PROVE  TellsPolicy(of, HandleSubmit(of.site, of.payload, of.extras, of.budget))
  BY DEF Sampled, PolicyReachesPrompt
<1> DEFINE reply == HandleSubmit(of.site, of.payload, of.extras, of.budget)
           layers == of.site.layers
           agents == Load(layers)
           registry == Registry(of.site)
           text == payloadText(of.payload)
           route == Routed(text, registry)
           sections == defaultPromptSections(route.agent, of.extras)
           built == BuildPrompt(sections, of.budget)
<1>1. AreLayers(layers) /\ of.budget \in Int
  BY InputsAssumption
<1>2. SUFFICES ASSUME reply.ok
               PROVE  /\ "tool-policy" \in ToSet(reply.prompt)
                      /\ reply.policy = IF reply.route.agent = 0 THEN ToolPolicy("default", <<>>, <<>>)
                                        ELSE PolicyAsStated(layers, reply.route.agent)
  BY DEF TellsPolicy
<1>3. reply = IF ~of.site.readable THEN Failure ELSE Submitted(registry, route, built)
  BY DEF HandleSubmit, SubmitIn, SubmitRouted
<1>4. registry = Build(agents, FALSE)
  BY DEF Registry
<1>5. AreAgents(agents)
  BY <1>1, LoadType
<1> HIDE DEF reply, route, built, registry
<1>6. ~Failure.ok
  BY DEF Failure
<1>7. /\ registry.ok /\ built.ok /\ reply.route = route /\ reply.prompt = built.prompt
      /\ reply.policy = StatedPolicy(registry, route.agent)
  BY <1>2, <1>3, <1>6 DEF Submitted
<1>8. "tool-policy" \in ToSet(reply.prompt)
  <2>1. AreSections(sections) /\ 3 \in DOMAIN sections /\ sections[3] = ToolPolicySection
    BY DefaultSections
  <2> HIDE DEF sections
  <2>2. 3 \in Required(sections) /\ sections[3].tokens > 0 /\ sections[3].name = "tool-policy"
    BY <2>1 DEF Required, ToolPolicySection
  <2>3. sections[3].name \in ToSet(BuildPrompt(sections, of.budget).prompt)
    BY <1>1, <1>7, <2>1, <2>2, RequiredIsBuilt DEF built
  <2> QED BY <1>7, <2>2, <2>3 DEF built
<1>9. route.agent \in {0} \cup Active(agents)
  <2> DEFINE triggers == [name \in DOMAIN registry.agents |-> Get(registry.agents[name]["triggers"], <<>>)]
             cautious == {name \in DOMAIN registry.agents : registry.agents[name]["autonomy"] = "cautious"}
  <2>1. route = RouteOf(text, triggers, cautious)
    BY DEF route, Routed
  <2>2. registry.agents = [name \in Active(agents) |-> agents[name]]
    BY <1>4 DEF Build
  <2>3. DOMAIN registry.agents = Active(agents) /\ \A name \in Active(agents) : registry.agents[name] = agents[name]
    BY <2>2
  <2>4. Active(agents) \subseteq Nat /\ Active(agents) \subseteq DOMAIN agents /\ IsFiniteSet(Active(agents))
    BY <1>5, AliasFacts
  <2>5. AreTriggers(<<>>)
    <3>1. <<>> \in Seq({<<>>[k] : k \in DOMAIN <<>>}) /\ DOMAIN <<>> = {}
      OBVIOUS
    <3> QED BY <3>1 DEF AreTriggers, IsSequence, ToSet
  <2>6. ASSUME NEW name \in Active(agents) PROVE AreTriggers(triggers[name])
    <3>1. IsAgent(agents[name])
      BY <1>5, <2>4 DEF AreAgents
    <3>2. triggers[name] = Get(agents[name]["triggers"], <<>>)
      BY <2>3
    <3> HIDE DEF triggers
    <3>3. CASE agents[name]["triggers"] = Nil
      BY <2>5, <3>2, <3>3 DEF Get, IsNil
    <3>4. CASE agents[name]["triggers"] # Nil
      BY <3>1, <3>2, <3>4 DEF Get, IsNil, IsAgent
    <3> QED BY <3>3, <3>4
  <2>7. DOMAIN triggers = Active(agents)
    BY <2>3
  <2> HIDE DEF triggers, cautious, text
  <2>8. AreRouted(triggers)
    BY <2>4, <2>6, <2>7 DEF AreRouted
  <2> QED BY <2>1, <2>7, <2>8, RoutedAgent
<1>10. reply.policy = IF route.agent = 0 THEN ToolPolicy("default", <<>>, <<>>) ELSE PolicyAsStated(layers, route.agent)
  <2>1. CASE route.agent = 0
    BY <1>7, <2>1 DEF StatedPolicy
  <2>2. CASE route.agent # 0
    <3>1. route.agent \in Active(agents) /\ route.agent \in DOMAIN agents
      BY <1>9, <2>2 DEF Active
    <3>2. registry.agents[route.agent] = agents[route.agent]
      BY <1>4, <3>1 DEF Build
    <3>3. normalizeTools(agents[route.agent]) = PolicyAsStated(layers, route.agent)
      BY <1>1, <3>1, PolicyOfAgent
    <3> QED BY <1>7, <2>2, <3>2, <3>3 DEF StatedPolicy
  <2> QED BY <2>1, <2>2
<1> QED BY <1>7, <1>8, <1>10

=============================================================================
