------------------------- MODULE Evaluation_proofs -------------------------
(* Theorems about Evaluation, for every finite set of chats and of terms,  *)
(* every set of rules, of histories and of answers of the LLM, and every   *)
(* MAX_FINDINGS_PER_CHAT.  What a theorem needs of the weights is named in *)
(* its assumption; the default weights have it.                            *)
EXTENDS Evaluation, FiniteSetTheorems, WellFoundedInduction, TLAPS

-----------------------------------------------------------------------------
(* Numbers.                                                                *)

LEMMA SmallestIn ==
  ASSUME NEW S \in SUBSET Nat, S # {}
  PROVE  \E m \in S : \A n \in S : m <= n
<1>1. PICK m \in S : \A n \in S : ~ (<<n, m>> \in OpToRel(<, Nat))
  BY NatLessThanWellFounded, WFMin
<1>2. ASSUME NEW n \in S PROVE m <= n
  <2>1. m \in Nat /\ n \in Nat /\ ~ (<<n, m>> \in OpToRel(<, Nat))
    BY <1>1
  <2>2. n < m => <<n, m>> \in OpToRel(<, Nat)
    BY <2>1, Zenon DEF OpToRel
  <2>3. m \in Nat /\ n \in Nat /\ ~ (n < m)
    BY <2>1, <2>2, Zenon
  <2> QED
    BY <2>3
<1> QED
  BY <1>2

LEMMA LargestIn ==
  ASSUME NEW S \in SUBSET (0 .. 100), S # {}
  PROVE  Largest(S) \in S /\ \A n \in S : n <= Largest(S)
<1> DEFINE Below == {100 - n : n \in S}
<1>1. Below \in SUBSET Nat /\ Below # {}
  <2>1. ASSUME NEW n \in S PROVE 100 - n \in Nat
    OBVIOUS
  <2> QED
    BY <2>1
<1>2. PICK m \in Below : \A n \in Below : m <= n
  <2> HIDE DEF Below
  <2> QED
    BY <1>1, SmallestIn
<1>3. PICK n \in S : m = 100 - n
  OBVIOUS
<1>4. ASSUME NEW k \in S PROVE k <= n
  <2>1. 100 - k \in Below
    OBVIOUS
  <2>2. m <= 100 - k
    BY <1>2, <2>1
  <2> QED
    BY <1>3, <2>2
<1> QED
  BY <1>4 DEF Largest

LEMMA RoundedType ==
  ASSUME NEW n \in 0 .. 200
  PROVE  Rounded(n) \in 0 .. 100
BY DEF Rounded

LEMMA RoundedMonotone ==
  ASSUME NEW m \in Int, NEW n \in Int, m <= n
  PROVE  Rounded(m) <= Rounded(n)
BY DEF Rounded

LEMMA RoundedEven ==
  ASSUME NEW n \in Int
  PROVE  Rounded(2 * n) = n
BY DEF Rounded

LEMMA RoundedBounds ==
  ASSUME NEW n \in Int, NEW k \in Int
  PROVE  (2 * k <= n => k <= Rounded(n)) /\ (n <= 2 * k => Rounded(n) <= k)
BY DEF Rounded

-----------------------------------------------------------------------------
(* Scores.                                                                 *)

Histories == [state : {"seen", "unseen", "unknown"}, count : Nat]

LEMMA WeightTypes ==
  ASSUME NEW e \in Evidences, NEW h \in Histories
  PROVE  BaseWeight(e) \in Int /\ HistoryWeight(h) \in Int /\ HistoryWeight(h) \in HistoryWeights
<1>1. \A w \in {"explicit_rule", "regex", "fuzzy", "ai", "unseen", "rare",
                "frequent_use", "explicit_floor"} : Weights[w] \in Int
  BY ConstantsAssumption
<1>2. BaseWeight(e) \in Int
  BY <1>1 DEF BaseWeight, Evidences, Deterministic
<1>3. HistoryWeight(h) \in HistoryWeights
  BY DEF HistoryWeight, HistoryWeights, Histories
<1>4. HistoryWeights \subseteq Int
  BY <1>1 DEF HistoryWeights
<1> QED
  BY <1>2, <1>3, <1>4

(* The score before it is rounded.                                         *)
Halves(e, h) ==
  LET sum == BaseWeight(e) + HistoryWeight(h)
      floored == IF e \in Deterministic
                 THEN AtLeast(2 * Weights["explicit_floor"], sum) ELSE sum
  IN  AtLeast(0, AtMost(200, floored))

LEMMA HalvesType ==
  ASSUME NEW e \in Evidences, NEW h \in Histories
  PROVE  Halves(e, h) \in 0 .. 200 /\ Risk(e, h) = Rounded(Halves(e, h)) /\ Risk(e, h) \in 0 .. 100
<1>1. BaseWeight(e) + HistoryWeight(h) \in Int /\ 2 * Weights["explicit_floor"] \in Int
  BY WeightTypes, ConstantsAssumption
<1>2. Halves(e, h) \in 0 .. 200
  BY <1>1 DEF Halves, AtLeast, AtMost
<1>3. Risk(e, h) = Rounded(Halves(e, h))
  BY DEF Risk, Halves
<1> QED
  BY <1>2, <1>3, RoundedType

(* A rule is never below the floor, and what is no rule never above it.    *)
LEMMA DeterministicRisk ==
  ASSUME FloorIsScore, NEW e \in Deterministic, NEW h \in Histories
  PROVE  Risk(e, h) >= Weights["explicit_floor"]
<1>1. BaseWeight(e) + HistoryWeight(h) \in Int /\ e \in Evidences
  BY WeightTypes DEF Evidences
<1>2. 2 * Weights["explicit_floor"] <= Halves(e, h)
  BY <1>1 DEF Halves, AtLeast, AtMost, FloorIsScore
<1>3. Weights["explicit_floor"] \in Int
  BY DEF FloorIsScore
<1>4. Halves(e, h) \in Int /\ Risk(e, h) = Rounded(Halves(e, h))
  BY <1>1, HalvesType
<1>5. Weights["explicit_floor"] <= Rounded(Halves(e, h))
  BY <1>2, <1>3, <1>4, RoundedBounds
<1>6. Risk(e, h) \in Int
  BY <1>1, HalvesType
<1> QED
  BY <1>3, <1>4, <1>5, <1>6

LEMMA SoftRisk ==
  ASSUME FloorIsScore, SoftStaysBelow, NEW e \in Evidences \ Deterministic, NEW h \in Histories
  PROVE  Risk(e, h) < Weights["explicit_floor"]
<1> DEFINE f == Weights["explicit_floor"]
<1>1. f \in 1 .. 100 /\ f - 1 \in Int
  BY DEF FloorIsScore
<1>2. PICK w \in {"fuzzy", "ai", "unseen"} : BaseWeight(e) = 2 * Weights[w]
  BY DEF BaseWeight, Evidences, Deterministic
<1>3. BaseWeight(e) + HistoryWeight(h) <= 2 * f - 2
  BY <1>2, WeightTypes DEF SoftStaysBelow
<1>4. BaseWeight(e) + HistoryWeight(h) \in Int
  BY WeightTypes
<1> HIDE DEF f
<1>5. Halves(e, h) <= 2 * (f - 1)
  BY <1>1, <1>3, <1>4 DEF Halves, AtLeast, AtMost
<1>6. Rounded(Halves(e, h)) <= f - 1
  <2>1. Halves(e, h) \in Int
    BY HalvesType
  <2> QED
    BY <1>1, <1>5, <2>1, RoundedBounds
<1>7. Risk(e, h) <= f - 1 /\ Risk(e, h) \in 0 .. 100
  BY <1>6, HalvesType
<1> QED
  BY <1>1, <1>7 DEF f

LEMMA RiskMonotone ==
  ASSUME NEW e \in Evidences, NEW g \in Histories, NEW h \in Histories,
         HistoryWeight(g) <= HistoryWeight(h)
  PROVE  Risk(e, g) <= Risk(e, h)
<1>1. /\ BaseWeight(e) \in Int /\ HistoryWeight(g) \in Int /\ HistoryWeight(h) \in Int
      /\ 2 * Weights["explicit_floor"] \in Int
  BY WeightTypes, ConstantsAssumption
<1>2. Halves(e, g) <= Halves(e, h)
  BY <1>1 DEF Halves, AtLeast, AtMost
<1>3. Halves(e, g) \in Int /\ Halves(e, h) \in Int
  BY HalvesType
<1>4. Rounded(Halves(e, g)) <= Rounded(Halves(e, h))
  BY <1>2, <1>3, RoundedMonotone
<1> QED
  BY <1>4, HalvesType

LEMMA UseLowersWeight ==
  ASSUME UseDiscounts, NEW g \in Histories, NEW h \in Histories, g.state = "seen",
         h.state = "unseen" \/ (h.state = "seen" /\ h.count <= g.count)
  PROVE  HistoryWeight(g) <= HistoryWeight(h)
<1>1. /\ Weights["unseen"] \in Int /\ Weights["rare"] \in Int /\ Weights["frequent_use"] \in Int
      /\ g.count \in Nat /\ h.count \in Nat
  BY ConstantsAssumption DEF Histories
<1> QED
  BY <1>1 DEF HistoryWeight, UseDiscounts

-----------------------------------------------------------------------------
(* Findings.                                                               *)

LEMMA FiniteMessage ==
  ASSUME NEW S \in SUBSET Terms
  PROVE  IsFiniteSet(S)
BY ConstantsAssumption, FS_Subset

(* What a chat tells of a term: unseen only if its coverage is complete,   *)
(* unknown only if it is not.                                              *)
LEMMA HistoryType ==
  ASSUME NEW w \in Worlds, NEW t \in Terms
  PROVE  /\ History(w, t) \in Histories
         /\ RequireCoverage /\ History(w, t).state = "unseen" => w.complete
         /\ History(w, t).state = "unknown" => ~w.complete
<1>1. /\ w.indexed[t] \in Nat /\ w.found[t] \in Nat
      /\ w.complete \in BOOLEAN /\ RequireCoverage \in BOOLEAN
  BY ConstantsAssumption DEF ChatRows
<1>2. Hits(w, t) \in Nat
  BY <1>1 DEF Hits
<1>3. History(w, t) \in Histories
  BY <1>1, <1>2 DEF History, Histories
<1>4. RequireCoverage /\ History(w, t).state = "unseen" => w.complete
  BY <1>1 DEF History
<1>5. History(w, t).state = "unknown" => ~w.complete
  BY <1>1 DEF History
<1> QED
  BY <1>3, <1>4, <1>5

LEMMA ScoredType ==
  ASSUME NEW e \in Evidences, NEW h \in Histories
  PROVE  /\ Scored(e, h) \in FindingType
         /\ Scored(e, h).evidence = e /\ Scored(e, h).history = h
         /\ Scored(e, h).risk = Risk(e, h)
BY HalvesType DEF Scored, FindingType, Histories

(* The score of a chat is that of its riskiest finding.                    *)
LEMMA TopIsLargest ==
  ASSUME NEW F, \A t \in DOMAIN F : F[t].risk \in 0 .. 100
  PROVE  /\ Top(F) \in 0 .. 100
         /\ \A t \in DOMAIN F : F[t].risk <= Top(F)
         /\ Top(F) = 0 \/ \E t \in DOMAIN F : F[t].risk = Top(F)
<1> DEFINE S == {0} \cup {F[t].risk : t \in DOMAIN F}
<1>1. S \in SUBSET (0 .. 100) /\ S # {}
  OBVIOUS
<1>2. Largest(S) \in S /\ \A n \in S : n <= Largest(S)
  <2> HIDE DEF S
  <2> QED
    BY <1>1, LargestIn
<1>3. Top(F) = Largest(S)
  BY DEF Top
<1> QED
  BY <1>1, <1>2, <1>3

(* Findings that are dropped for want of room are no riskier than those    *)
(* that stay: the score does not change.                                   *)
LEMMA KeptKeepsTop ==
  ASSUME NEW F, IsFiniteSet(DOMAIN F), \A t \in DOMAIN F : F[t].risk \in 0 .. 100,
         NEW k \in Kept(F)
  PROVE  /\ DOMAIN k \subseteq DOMAIN F
         /\ \A t \in DOMAIN k : k[t] = F[t]
         /\ Cardinality(DOMAIN k) <= MaxFindings
         /\ Top(k) = Top(F)
<1>1. PICK s \in SUBSET DOMAIN F :
        /\ k = [t \in s |-> F[t]]
        /\ Cardinality(s) = AtMost(MaxFindings, Cardinality(DOMAIN F))
        /\ \A t \in s, u \in DOMAIN F \ s : F[u].risk <= F[t].risk
  BY DEF Kept
<1>2. DOMAIN k = s /\ \A t \in s : k[t] = F[t]
  BY <1>1
<1>3. Cardinality(DOMAIN F) \in Nat /\ MaxFindings \in Nat \ {0}
  BY FS_CardinalityType, ConstantsAssumption
<1>4. Cardinality(s) <= MaxFindings
  BY <1>1, <1>3 DEF AtMost
<1>5. ASSUME NEW u \in DOMAIN F PROVE s # {}
  <2>1. Cardinality(DOMAIN F) # 0
    BY FS_EmptySet
  <2>2. Cardinality(s) # 0
    BY <1>1, <1>3, <2>1 DEF AtMost
  <2> QED
    BY <2>2, FS_EmptySet
<1>6. /\ Top(F) \in 0 .. 100 /\ \A t \in DOMAIN F : F[t].risk <= Top(F)
      /\ Top(F) = 0 \/ \E t \in DOMAIN F : F[t].risk = Top(F)
  BY TopIsLargest
<1>7. /\ Top(k) \in 0 .. 100 /\ \A t \in s : F[t].risk <= Top(k)
      /\ Top(k) = 0 \/ \E t \in s : F[t].risk = Top(k)
  <2>1. \A t \in DOMAIN k : k[t].risk \in 0 .. 100
    BY <1>2
  <2>2. /\ Top(k) \in 0 .. 100 /\ \A t \in DOMAIN k : k[t].risk <= Top(k)
        /\ Top(k) = 0 \/ \E t \in DOMAIN k : k[t].risk = Top(k)
    BY <2>1, TopIsLargest
  <2> QED
    BY <1>2, <2>2
<1>8. Top(k) <= Top(F)
  BY <1>6, <1>7
<1>9. Top(F) <= Top(k)
  <2>1. ASSUME NEW u \in DOMAIN F PROVE F[u].risk <= Top(k)
    <3>1. CASE u \in s
      BY <1>7, <3>1
    <3>2. CASE u \notin s
      <4>1. PICK t \in s : TRUE
        BY <1>5
      <4>2. F[u].risk <= F[t].risk /\ F[t].risk <= Top(k)
        BY <1>1, <1>7, <3>2
      <4>3. F[u].risk \in Int /\ F[t].risk \in Int /\ Top(k) \in Int
        BY <1>7
      <4> QED
        BY <4>2, <4>3
    <3> QED
      BY <3>1, <3>2
  <2> QED
    BY <1>6, <1>7, <2>1
<1>10. Top(k) = Top(F)
  BY <1>6, <1>7, <1>8, <1>9
<1> QED
  BY <1>2, <1>4, <1>10

-----------------------------------------------------------------------------
(* The inductive invariant.                                                *)

Variables ==
  /\ rules \subseteq Rules
  /\ age \in [Rules -> {"absent", "fresh", "expired"}]
  /\ step \in {"idle", "llm", "chats", "merge", "done"}
  /\ message \subseteq Terms /\ flagged \subseteq Terms /\ todo \subseteq Chats
  /\ world \in [Chats -> Worlds]
  /\ overall \in 0 .. 100 /\ warned \in BOOLEAN
  /\ DOMAIN results = Chats

IsResult(r) ==
  /\ r.status \in {"none", "ok", "unknown", "error"}
  /\ Cardinality(DOMAIN r.findings) <= MaxFindings
  /\ r.score = Top(r.findings)

ResultsFit == \A c \in Chats : IsResult(results[c])

(* A rule of the chat that reports the term, and no allowlist rule of it   *)
(* that names the same fragment and works.                                 *)
Reported(c, t) ==
  \E r \in rules : r \in InScope(c) /\ ~r.allow /\ r.hits = t /\ t \notin Allowed(c)

(* What may be said of a term of the message in a chat.                    *)
Sound(c, t, f) ==
  /\ t \in message
  /\ f \in FindingType
  /\ f.risk = Risk(f.evidence, f.history)
  /\ RequireCoverage /\ f.history.state = "unseen" => world[c].complete
  /\ f.history.state = "unknown" => f.evidence = "semantic_match" \/ ~world[c].complete
  /\ f.evidence \in Deterministic => Reported(c, t)

FindingsAreSound ==
  \A c \in Chats : \A t \in DOMAIN results[c].findings : Sound(c, t, results[c].findings[t])

(* A request starts from nothing.                                          *)
Pending ==
  /\ step = "idle" => overall = 0
  /\ step \in {"idle", "llm"} => results = [c \in Chats |-> NoResult]

(* What was told in the end was computed from the results.                 *)
Told ==
  step = "done" =>
    /\ overall = Largest({0} \cup {results[c].score : c \in Ok})
    /\ \A c \in Ok : ~world[c].complete => warned

IInv == Variables /\ ResultsFit /\ FindingsAreSound /\ Pending /\ Told

LEMMA NoResultFits ==
  /\ IsResult(NoResult)
  /\ NoResult.findings = <<>> /\ DOMAIN NoResult.findings = {}
  /\ \A s \in {"unknown", "error"} :
       /\ IsResult(Failed(s)) /\ DOMAIN Failed(s).findings = {} /\ Failed(s).status = s
<1>1. DOMAIN <<>> = {}
  OBVIOUS
<1>2. Cardinality({}) = 0 /\ MaxFindings \in Nat
  BY FS_EmptySet, ConstantsAssumption
<1>3. Top(<<>>) = 0
  <2>1. \A t \in DOMAIN <<>> : <<>>[t].risk \in 0 .. 100
    BY <1>1
  <2> QED
    BY <1>1, <2>1, TopIsLargest
<1>4. /\ NoResult.status = "none" /\ NoResult.findings = <<>> /\ NoResult.score = 0
      /\ \A s \in {"unknown", "error"} :
           /\ Failed(s).status = s /\ Failed(s).findings = <<>> /\ Failed(s).score = 0
  BY DEF NoResult, Failed
<1> QED
  BY <1>1, <1>2, <1>3, <1>4 DEF IsResult

LEMMA NothingIsSound ==
  ASSUME DOMAIN results = Chats, results = [c \in Chats |-> NoResult]
  PROVE  ResultsFit /\ FindingsAreSound /\ Ok = {}
<1>1. \A c \in Chats : results[c] = NoResult
  OBVIOUS
<1>2. NoResult.status = "none"
  BY DEF NoResult
<1> QED
  BY <1>1, <1>2, NoResultFits DEF ResultsFit, FindingsAreSound, Ok

LEMMA LargestOfNone == Largest({0} \cup {}) = 0
<1>1. {0} \cup {} \in SUBSET (0 .. 100) /\ {0} \cup {} # {}
  OBVIOUS
<1>2. Largest({0} \cup {}) \in {0} \cup {}
  BY <1>1, LargestIn
<1> QED
  BY <1>2

(* Patterns age, and what an allowlist rule silences becomes less.         *)
Fades == \A r \in Rules : Works(r)' => Works(r)

LEMMA CompileFades ==
  ASSUME Variables, NEW c \in Chats, Compile(c)
  PROVE  Fades /\ age' \in [Rules -> {"absent", "fresh", "expired"}]
BY DEF Variables, Compile, Fades, Works

LEMMA SoundStays ==
  ASSUME Variables, Fades, rules' = rules, message' = message, world' = world,
         NEW c \in Chats, NEW t, NEW f, Sound(c, t, f)
  PROVE  Sound(c, t, f)'
<1>1. InScope(c)' = InScope(c)
  BY DEF InScope
<1>2. \A r \in InScope(c) : r \in Rules
  BY DEF InScope, Variables
<1>3. Allowed(c)' \subseteq Allowed(c)
  BY <1>1, <1>2 DEF Allowed, Matches, Fades
<1>4. Reported(c, t) => Reported(c, t)'
  BY <1>1, <1>3 DEF Reported
<1> QED
  BY <1>4 DEF Sound

(* The result of one chat is replaced while the request goes on.           *)
LEMMA Replaced ==
  ASSUME IInv, Fades, age' \in [Rules -> {"absent", "fresh", "expired"}],
         rules' = rules, message' = message, world' = world, overall' = overall,
         warned' = warned, step' \in {"chats", "merge"},
         flagged' \subseteq flagged, todo' \subseteq todo,
         NEW c \in Chats, NEW r, results' = [results EXCEPT ![c] = r],
         IsResult(r), \A t \in DOMAIN r.findings : Sound(c, t, r.findings[t])
  PROVE  IInv'
<1>1. /\ DOMAIN results' = Chats /\ results'[c] = r
      /\ \A d \in Chats \ {c} : results'[d] = results[d]
  BY DEF IInv, Variables
<1>2. Variables'
  BY <1>1 DEF IInv, Variables
<1>3. ResultsFit'
  BY <1>1 DEF IInv, ResultsFit, IsResult
<1>4. FindingsAreSound'
  <2>1. SUFFICES ASSUME NEW d \in Chats, NEW t \in DOMAIN results'[d].findings
                 PROVE  Sound(d, t, results[d].findings[t])'
    BY DEF FindingsAreSound
  <2>2. Sound(d, t, results'[d].findings[t])
    BY <1>1 DEF IInv, FindingsAreSound
  <2>3. PICK f : f = results'[d].findings[t]
    OBVIOUS
  <2>4. Variables /\ Sound(d, t, f)
    BY <2>2, <2>3 DEF IInv
  <2>5. Sound(d, t, f)'
    BY <2>4, SoundStays
  <2> QED
    BY <2>3, <2>5 DEF Sound, Reported
<1>5. Pending' /\ Told'
  BY DEF Pending, Told
<1> QED
  BY <1>2, <1>3, <1>4, <1>5 DEF IInv

-----------------------------------------------------------------------------
(* The analysis of a chat.                                                 *)

LEMMA FindingsSound ==
  ASSUME Variables, NEW c \in Chats,
         NEW explicit \in RuleEvidence(c), NEW novel \in SUBSET Novel(c)
  PROVE  /\ DOMAIN Findings(c, explicit, novel) \subseteq message
         /\ \A t \in DOMAIN Findings(c, explicit, novel) :
              Sound(c, t, Findings(c, explicit, novel)[t])
         /\ \A t \in DOMAIN explicit :
              /\ t \in DOMAIN Findings(c, explicit, novel)
              /\ Findings(c, explicit, novel)[t].evidence \in Deterministic
<1> DEFINE F == Findings(c, explicit, novel)
           Sign(t) == IF t \in DOMAIN explicit THEN explicit[t]
                      ELSE IF t \in SimilarTo(c) THEN "fuzzy_rule_match" ELSE "unseen"
<1>1. /\ DOMAIN explicit = {r.hits : r \in Blocked(c)}
      /\ \A t \in DOMAIN explicit : explicit[t] \in Deterministic
  BY DEF RuleEvidence
<1>2. \A t \in DOMAIN explicit : t \in message /\ Reported(c, t)
  BY <1>1 DEF Blocked, Matches, InScope, Reported
<1>3. SimilarTo(c) \subseteq message /\ novel \subseteq message
  BY DEF SimilarTo, Variant, Novel
<1>4. /\ DOMAIN F = DOMAIN explicit \cup SimilarTo(c) \cup novel
      /\ \A t \in DOMAIN F : F[t] = Scored(Sign(t), History(world[c], t))
  BY DEF Findings
<1>5. DOMAIN F \subseteq message
  BY <1>2, <1>3, <1>4
<1>6. ASSUME NEW t \in DOMAIN F
      PROVE  Sound(c, t, F[t]) /\ (t \in DOMAIN explicit => F[t].evidence \in Deterministic)
  <2>1. t \in message /\ t \in Terms /\ world[c] \in Worlds
    BY <1>5 DEF Variables
  <2>2. Sign(t) \in Evidences \ {"semantic_match"}
    BY <1>1 DEF Evidences, Deterministic
  <2>3. Sign(t) \in Deterministic => t \in DOMAIN explicit
    BY DEF Deterministic
  <2>4. PICK e \in Evidences, h \in Histories : e = Sign(t) /\ h = History(world[c], t)
    BY <2>1, <2>2, HistoryType
  <2>5. F[t] = Scored(e, h)
    BY <1>4, <2>4
  <2>6. F[t] \in FindingType /\ F[t].evidence = e /\ F[t].history = h /\ F[t].risk = Risk(e, h)
    BY <2>5, ScoredType
  <2>7. /\ RequireCoverage /\ h.state = "unseen" => world[c].complete
        /\ h.state = "unknown" => ~world[c].complete
    BY <2>1, <2>4, HistoryType
  <2>8. e \in Deterministic => Reported(c, t)
    BY <1>2, <2>3, <2>4
  <2>9. Sound(c, t, F[t])
    BY <2>1, <2>6, <2>7, <2>8 DEF Sound
  <2>10. t \in DOMAIN explicit => F[t].evidence \in Deterministic
    BY <1>1, <2>4, <2>6
  <2> QED
    BY <2>9, <2>10
<1>7. DOMAIN explicit \subseteq DOMAIN F
  BY <1>4
<1> QED
  BY <1>5, <1>6, <1>7

LEMMA SoundRisk ==
  ASSUME NEW c, NEW t, NEW f, Sound(c, t, f)
  PROVE  f.risk \in 0 .. 100
BY DEF Sound, FindingType

(* The answer for a chat, out of sound findings.                           *)
LEMMA AnswerFits ==
  ASSUME Variables, NEW c \in Chats, NEW F, DOMAIN F \subseteq message,
         \A t \in DOMAIN F : Sound(c, t, F[t]), NEW k \in Kept(F)
  PROVE  /\ IsResult(Answer(k))
         /\ Answer(k).status = "ok" /\ Answer(k).findings = k
         /\ Answer(k).score = Top(F)
         /\ \A t \in DOMAIN k : Sound(c, t, k[t])
<1>1. IsFiniteSet(DOMAIN F)
  BY FiniteMessage DEF Variables
<1>2. \A t \in DOMAIN F : F[t].risk \in 0 .. 100
  BY SoundRisk
<1>3. /\ DOMAIN k \subseteq DOMAIN F /\ \A t \in DOMAIN k : k[t] = F[t]
      /\ Cardinality(DOMAIN k) <= MaxFindings /\ Top(k) = Top(F)
  BY <1>1, <1>2, KeptKeepsTop
<1>4. Answer(k).status = "ok" /\ Answer(k).findings = k /\ Answer(k).score = Top(k)
  BY DEF Answer
<1>5. \A t \in DOMAIN k : Sound(c, t, k[t])
  BY <1>3
<1> QED
  BY <1>3, <1>4, <1>5 DEF IsResult

LEMMA AnalyzeChatKeeps ==
  ASSUME IInv, NEW c \in Chats, AnalyzeChat(c)
  PROVE  IInv'
<1>1. PICK explicit \in RuleEvidence(c), novel \in SUBSET Novel(c) :
        \E findings \in Kept(Findings(c, explicit, novel)) :
          results' = [results EXCEPT ![c] = Answer(findings)]
  BY DEF AnalyzeChat
<1>2. PICK k \in Kept(Findings(c, explicit, novel)) :
        results' = [results EXCEPT ![c] = Answer(k)]
  BY <1>1
<1>3. Variables
  BY DEF IInv
<1>4. PICK F : F = Findings(c, explicit, novel)
  OBVIOUS
<1>5. DOMAIN F \subseteq message /\ \A t \in DOMAIN F : Sound(c, t, F[t])
  BY <1>3, <1>4, FindingsSound
<1>6. PICK r : r = Answer(k)
  OBVIOUS
<1>7. IsResult(r) /\ \A t \in DOMAIN r.findings : Sound(c, t, r.findings[t])
  BY <1>2, <1>3, <1>4, <1>5, <1>6, AnswerFits
<1>8. Fades /\ age' \in [Rules -> {"absent", "fresh", "expired"}]
  BY <1>3, CompileFades DEF AnalyzeChat
<1>9. /\ rules' = rules /\ message' = message /\ world' = world /\ overall' = overall
      /\ warned' = warned /\ step' \in {"chats", "merge"}
      /\ flagged' \subseteq flagged /\ todo' \subseteq todo
  BY DEF AnalyzeChat
<1>10. results' = [results EXCEPT ![c] = r]
  BY <1>2, <1>6
<1> QED
  BY <1>7, <1>8, <1>9, <1>10, Replaced

LEMMA NoAnswerKeeps ==
  ASSUME IInv, NEW c \in Chats, SkipChat(c) \/ ChatFails(c)
  PROVE  IInv'
<1>1. PICK r : /\ results' = [results EXCEPT ![c] = r]
               /\ r = Failed("unknown") \/ r = Failed("error")
  BY DEF SkipChat, ChatFails
<1>2. IsResult(r) /\ DOMAIN r.findings = {}
  BY <1>1, NoResultFits
<1>3. Fades /\ age' \in [Rules -> {"absent", "fresh", "expired"}]
  <2>1. CASE SkipChat(c)
    BY <2>1 DEF SkipChat, Fades, Works, IInv, Variables
  <2>2. CASE ChatFails(c)
    BY <2>2, CompileFades DEF ChatFails, IInv
  <2> QED
    BY <2>1, <2>2
<1>4. /\ rules' = rules /\ message' = message /\ world' = world /\ overall' = overall
      /\ warned' = warned /\ step' \in {"chats", "merge"}
      /\ flagged' \subseteq flagged /\ todo' \subseteq todo
  BY DEF SkipChat, ChatFails
<1>5. \A t \in DOMAIN r.findings : Sound(c, t, r.findings[t])
  BY <1>2
<1> QED
  BY <1>1, <1>2, <1>3, <1>4, <1>5, Replaced

(* One more finding, of the LLM, in the first chat that has an answer.     *)
LEMMA SemanticSound ==
  ASSUME Variables, FindingsAreSound, NEW c \in Chats, NEW t \in message
  PROVE  LET F == [u \in DOMAIN results[c].findings \cup {t} |->
                     IF u = t THEN Semantic ELSE results[c].findings[u]]
         IN  DOMAIN F \subseteq message /\ \A u \in DOMAIN F : Sound(c, u, F[u])
<1> DEFINE F == [u \in DOMAIN results[c].findings \cup {t} |->
                   IF u = t THEN Semantic ELSE results[c].findings[u]]
<1>1. \A u \in DOMAIN results[c].findings : Sound(c, u, results[c].findings[u])
  BY DEF FindingsAreSound
<1>2. DOMAIN F \subseteq message
  BY <1>1 DEF Sound
<1>3. PICK h \in Histories : h = [state |-> "unknown", count |-> 0]
  BY DEF Histories
<1>4. "semantic_match" \in Evidences /\ "semantic_match" \notin Deterministic
  BY DEF Evidences, Deterministic
<1>5. Semantic = Scored("semantic_match", h)
  BY <1>3 DEF Semantic
<1>6. /\ Semantic \in FindingType /\ Semantic.evidence = "semantic_match"
      /\ Semantic.history = h /\ Semantic.risk = Risk("semantic_match", h)
  BY <1>4, <1>5, ScoredType
<1>7. h.state = "unknown"
  BY <1>3
<1>8. Sound(c, t, Semantic)
  BY <1>4, <1>6, <1>7 DEF Sound
<1>9. ASSUME NEW u \in DOMAIN F PROVE Sound(c, u, F[u])
  BY <1>1, <1>8
<1> QED
  BY <1>2, <1>9

LEMMA FirstIsOk ==
  ASSUME Ok # {}
  PROVE  (CHOOSE c \in Ok : \A d \in Ok : c <= d) \in Ok
<1>1. Ok \in SUBSET Nat
  BY ConstantsAssumption DEF Ok
<1> QED
  BY <1>1, SmallestIn

(* The results stay while the request goes on.                             *)
LEMMA ResultsStay ==
  ASSUME IInv, Fades, age' \in [Rules -> {"absent", "fresh", "expired"}],
         rules' = rules, message' = message, world' = world, overall' = overall,
         warned' = warned, results' = results, step' = step \/ step' = "chats",
         flagged' \subseteq Terms, todo' = todo
  PROVE  IInv'
<1>1. Variables'
  BY DEF IInv, Variables
<1>2. ResultsFit'
  BY DEF IInv, ResultsFit, IsResult
<1>3. FindingsAreSound'
  <2>1. SUFFICES ASSUME NEW d \in Chats, NEW t \in DOMAIN results[d].findings
                 PROVE  Sound(d, t, results[d].findings[t])'
    BY DEF FindingsAreSound
  <2>2. PICK f : f = results[d].findings[t]
    OBVIOUS
  <2>3. Variables /\ Sound(d, t, f)
    BY <2>2 DEF IInv, FindingsAreSound
  <2>4. Sound(d, t, f)'
    BY <2>3, SoundStays
  <2> QED
    BY <2>2, <2>4 DEF Sound, Reported
<1>4. Pending'
  BY DEF IInv, Pending
<1>5. Told'
  BY DEF IInv, Told, Ok
<1> QED
  BY <1>1, <1>2, <1>3, <1>4, <1>5 DEF IInv

LEMMA MergeAiKeeps ==
  ASSUME IInv, NEW t \in Terms, MergeAi(t)
  PROVE  IInv'
<1> DEFINE first == CHOOSE c \in Ok : \A d \in Ok : c <= d
<1>1. /\ rules' = rules /\ age' = age /\ message' = message /\ world' = world
      /\ overall' = overall /\ warned' = warned /\ step = "merge" /\ step' = step
      /\ flagged' \subseteq flagged /\ todo' = todo
  BY DEF MergeAi
<1>2. Variables /\ FindingsAreSound
  BY DEF IInv
<1>3. Fades /\ age' \in [Rules -> {"absent", "fresh", "expired"}] /\ flagged' \subseteq Terms
  BY <1>1, <1>2 DEF Fades, Works, Variables
<1>4. CASE results' = results
  BY <1>1, <1>3, <1>4, ResultsStay
<1>5. CASE results' # results
  <2>1. /\ Ok # {} /\ t \in message
        /\ \E findings \in WithSemantic(first, t) :
             results' = [results EXCEPT ![first] = Answer(findings)]
    BY <1>5 DEF MergeAi
  <2>2. PICK c \in Chats : c = first
    BY <2>1, FirstIsOk DEF Ok
  <2>3. PICK F : F = [u \in DOMAIN results[c].findings \cup {t} |->
                        IF u = t THEN Semantic ELSE results[c].findings[u]]
    OBVIOUS
  <2>4. PICK k \in Kept(F) : results' = [results EXCEPT ![c] = Answer(k)]
    <3>1. WithSemantic(c, t) = Kept(F)
      BY <2>3 DEF WithSemantic
    <3>2. \E findings \in WithSemantic(c, t) : results' = [results EXCEPT ![c] = Answer(findings)]
      BY <2>1, <2>2
    <3> QED
      BY <3>1, <3>2
  <2>5. DOMAIN F \subseteq message /\ \A u \in DOMAIN F : Sound(c, u, F[u])
    BY <1>2, <2>1, <2>3, SemanticSound
  <2>6. PICK r : r = Answer(k)
    OBVIOUS
  <2>7. IsResult(r) /\ \A u \in DOMAIN r.findings : Sound(c, u, r.findings[u])
    BY <1>2, <2>4, <2>5, <2>6, AnswerFits
  <2>8. results' = [results EXCEPT ![c] = r] /\ step' \in {"chats", "merge"} /\ todo' \subseteq todo
    BY <1>1, <2>4, <2>6
  <2> QED
    BY <1>1, <1>3, <2>7, <2>8, Replaced
<1> QED
  BY <1>4, <1>5

-----------------------------------------------------------------------------
(* The other steps.                                                        *)

Nothing == overall = 0 /\ results = [c \in Chats |-> NoResult]

LEMMA FromNothing == Variables /\ Nothing => IInv
<1> SUFFICES ASSUME Variables, Nothing PROVE IInv
  OBVIOUS
<1>1. ResultsFit /\ FindingsAreSound /\ Ok = {}
  BY NothingIsSound DEF Variables, Nothing
<1>2. {results[c].score : c \in Ok} = {}
  BY <1>1
<1>3. overall = Largest({0} \cup {results[c].score : c \in Ok})
  BY <1>2, LargestOfNone DEF Nothing
<1>4. Told
  BY <1>1, <1>3 DEF Told
<1> QED
  BY <1>1, <1>4 DEF IInv, Pending, Nothing

LEMMA SomeWorld == [c \in Chats |-> CHOOSE w \in Worlds : TRUE] \in [Chats -> Worlds]
BY ConstantsAssumption

LEMMA Forgotten ==
  ASSUME Forget
  PROVE  /\ message' = {} /\ flagged' = {} /\ todo' = {} /\ world' \in [Chats -> Worlds]
         /\ results' = [c \in Chats |-> NoResult] /\ overall' = 0 /\ warned' = FALSE
BY SomeWorld, Zenon DEF Forget

LEMMA InitInv == Init => IInv
<1> SUFFICES ASSUME Init PROVE Variables /\ Nothing
  BY FromNothing
<1>1. world \in [Chats -> Worlds]
  BY SomeWorld, Zenon DEF Init
<1>2. /\ rules = {} /\ age = [r \in Rules |-> "absent"] /\ step = "idle"
      /\ message = {} /\ flagged = {} /\ todo = {}
      /\ results = [c \in Chats |-> NoResult] /\ overall = 0 /\ warned = FALSE
  BY Zenon DEF Init
<1>3. age \in [Rules -> {"absent", "fresh", "expired"}]
  BY <1>2
<1>4. DOMAIN results = Chats
  BY <1>2
<1>5. overall \in 0 .. 100 /\ rules \subseteq Rules
  BY <1>2
<1>6. /\ step \in {"idle", "llm", "chats", "merge", "done"} /\ warned \in BOOLEAN
      /\ message \subseteq Terms /\ flagged \subseteq Terms /\ todo \subseteq Chats
  BY <1>2, Zenon
<1>7. Variables
  BY <1>1, <1>3, <1>4, <1>5, <1>6, Zenon DEF Variables
<1> QED
  BY <1>2, <1>7 DEF Nothing

LEMMA RequestKeeps ==
  ASSUME IInv, Begin \/ LlmRaises \/ Deliver \/ \E r \in Rules : AddRule(r) \/ DeleteRule(r)
  PROVE  IInv' /\ Nothing'
<1>1. Variables'
  <2>1. CASE Begin
    <3>1. PICK w \in [todo' -> Worlds] :
            world' = [c \in Chats |-> IF c \in todo' THEN w[c] ELSE world[c]]
      BY <2>1 DEF Begin
    <3>2. world' \in [Chats -> Worlds]
      BY <3>1 DEF IInv, Variables
    <3>3. /\ message' \subseteq Terms /\ todo' \subseteq Chats
          /\ step' \in {"idle", "llm", "chats", "merge", "done"}
      BY <2>1 DEF Begin, Messages, EnabledChats
    <3> QED
      BY <2>1, <3>2, <3>3 DEF Begin, IInv, Variables
  <2>2. CASE LlmRaises
    <3>1. rules' = rules /\ age' = age /\ step' = "idle" /\ Forget
      BY <2>2 DEF LlmRaises
    <3> QED
      BY <3>1, Forgotten DEF IInv, Variables
  <2>3. CASE Deliver
    <3>1. rules' = rules /\ age' = age /\ step' = "idle" /\ Forget
      BY <2>3 DEF Deliver
    <3> QED
      BY <3>1, Forgotten DEF IInv, Variables
  <2>4. ASSUME NEW r \in Rules, AddRule(r) \/ DeleteRule(r) PROVE Variables'
    BY <2>4 DEF AddRule, DeleteRule, IInv, Variables
  <2> QED
    BY <2>1, <2>2, <2>3, <2>4
<1>2. Nothing'
  BY DEF Begin, LlmRaises, Deliver, Forget, AddRule, DeleteRule, IInv, Pending, Nothing
<1>3. IInv'
  BY <1>1, <1>2, FromNothing, PTL
<1> QED
  BY <1>2, <1>3

LEMMA FinishKeeps ==
  ASSUME IInv, Finish
  PROVE  IInv'
<1>1. /\ rules' = rules /\ age' = age /\ message' = message /\ world' = world
      /\ flagged' = flagged /\ todo' = todo /\ results' = results /\ step' = "done"
      /\ overall' = Largest({0} \cup {results[c].score : c \in Ok})
      /\ warned' = (\E c \in Analysed : ~world[c].complete)
  BY DEF Finish
<1>2. overall' \in 0 .. 100
  <2> DEFINE S == {0} \cup {results[c].score : c \in Ok}
  <2>1. ASSUME NEW c \in Ok PROVE results[c].score \in 0 .. 100
    <3>1. c \in Chats /\ results[c].score = Top(results[c].findings)
      BY DEF Ok, IInv, ResultsFit, IsResult
    <3>2. \A t \in DOMAIN results[c].findings : results[c].findings[t].risk \in 0 .. 100
      BY <3>1, SoundRisk DEF IInv, FindingsAreSound
    <3> QED
      BY <3>1, <3>2, TopIsLargest
  <2>2. S \in SUBSET (0 .. 100) /\ S # {}
    BY <2>1
  <2> HIDE DEF S
  <2>3. Largest(S) \in S
    BY <2>2, LargestIn
  <2>4. overall' = Largest(S)
    BY <1>1 DEF S
  <2> QED
    BY <2>2, <2>3, <2>4
<1>3. warned' \in BOOLEAN
  BY <1>1, Zenon
<1>4. Variables'
  BY <1>1, <1>2, <1>3 DEF IInv, Variables
<1>5. ResultsFit'
  BY <1>1 DEF IInv, ResultsFit, IsResult
<1>6. FindingsAreSound'
  BY <1>1 DEF IInv, FindingsAreSound, Sound, Reported, InScope, Allowed, Matches, Works
<1>7. Ok' = Ok
  BY <1>1 DEF Ok
<1>8. \A c \in Ok : ~world[c].complete => warned'
  <2>1. Ok \subseteq Analysed
    BY DEF Ok, Analysed
  <2> QED
    BY <1>1, <2>1, Zenon
<1>9. Told'
  BY <1>1, <1>7, <1>8 DEF Told
<1>10. Pending'
  BY <1>1 DEF Pending
<1> QED
  BY <1>4, <1>5, <1>6, <1>9, <1>10 DEF IInv

LEMMA StepInv == IInv /\ [Next]_vars => IInv'
<1> SUFFICES ASSUME IInv, [Next]_vars PROVE IInv'
  OBVIOUS
<1>1. ASSUME NEW r \in Rules, Expire(r) PROVE IInv'
  <2>1. /\ rules' = rules /\ message' = message /\ world' = world /\ overall' = overall
        /\ warned' = warned /\ results' = results /\ step' = step
        /\ flagged' = flagged /\ todo' = todo /\ age' = [age EXCEPT ![r] = "expired"]
    BY <1>1 DEF Expire
  <2>2. age' \in [Rules -> {"absent", "fresh", "expired"}] /\ flagged' \subseteq Terms /\ Fades
    BY <2>1 DEF IInv, Variables, Fades, Works
  <2> QED
    BY <2>1, <2>2, ResultsStay
<1>2. CASE AskLlm
  <2>1. /\ rules' = rules /\ message' = message /\ world' = world /\ overall' = overall
        /\ warned' = warned /\ results' = results /\ step' = "chats"
        /\ todo' = todo /\ age' = age /\ flagged' \subseteq Terms
    BY <1>2, ConstantsAssumption DEF AskLlm
  <2>2. age' \in [Rules -> {"absent", "fresh", "expired"}] /\ Fades
    BY <2>1 DEF IInv, Variables, Fades, Works
  <2> QED
    BY <2>1, <2>2, ResultsStay
<1>3. CASE UNCHANGED vars
  <2>1. /\ rules' = rules /\ message' = message /\ world' = world /\ overall' = overall
        /\ warned' = warned /\ results' = results /\ step' = step
        /\ todo' = todo /\ age' = age /\ flagged' = flagged
    BY <1>3 DEF vars
  <2>2. age' \in [Rules -> {"absent", "fresh", "expired"}] /\ Fades /\ flagged' \subseteq Terms
    BY <2>1 DEF IInv, Variables, Fades, Works
  <2> QED
    BY <2>1, <2>2, ResultsStay
<1>4. CASE Next
  BY <1>1, <1>2, <1>4, AnalyzeChatKeeps, NoAnswerKeeps, MergeAiKeeps, RequestKeeps, FinishKeeps
     DEF Next
<1> QED
  BY <1>3, <1>4

LEMMA Invariant == Spec => []IInv
BY InitInv, StepInv, PTL DEF Spec

-----------------------------------------------------------------------------
(* Theorems.                                                               *)

(* Scores stay between 0 and 100 and a chat keeps at most MaxFindings,     *)
(* whatever the weights and the history.                                   *)
THEOREM TypeCorrect == Spec => []TypeOK
<1>1. IInv => TypeOK
  <2> SUFFICES ASSUME IInv PROVE TypeOK
    OBVIOUS
  <2>1. ASSUME NEW c \in Chats
        PROVE  /\ results[c].status \in {"none", "ok", "unknown", "error"}
               /\ Cardinality(DOMAIN results[c].findings) <= MaxFindings
               /\ \A t \in DOMAIN results[c].findings : results[c].findings[t] \in FindingType
    BY DEF IInv, ResultsFit, IsResult, FindingsAreSound, Sound
  <2> QED
    BY <2>1, Zenon DEF TypeOK, IInv, Variables
<1> QED
  BY <1>1, Invariant, PTL

(* A term is called unseen only in a chat whose history is covered, for    *)
(* every history and whatever the LLM adds.                                *)
THEOREM UnseenCovered == Spec => []UnseenNeedsCoverage
<1>1. IInv => UnseenNeedsCoverage
  BY DEF IInv, FindingsAreSound, Sound, UnseenNeedsCoverage, Ok
<1> QED
  BY <1>1, Invariant, PTL

(* Whoever is shown a term of unknown history is told that the coverage is *)
(* incomplete.                                                             *)
THEOREM UnknownExplained == Spec => []UnknownIsExplained
<1>1. IInv => UnknownIsExplained
  BY DEF IInv, FindingsAreSound, Sound, Told, UnknownIsExplained, Ok
<1> QED
  BY <1>1, Invariant, PTL

(* The overall score is that of the riskiest finding that is shown, however*)
(* many were dropped and wherever those of the LLM were put.               *)
THEOREM OverallCorrect == Spec => []OverallIsWorst
<1>1. IInv => OverallIsWorst
  <2> SUFFICES ASSUME IInv, step = "done" PROVE OverallIsWorst
    BY DEF OverallIsWorst
  <2> DEFINE S == {0} \cup {results[c].score : c \in Ok}
  <2>1. ASSUME NEW c \in Ok
        PROVE  /\ results[c].score \in 0 .. 100
               /\ \A t \in DOMAIN results[c].findings :
                    /\ results[c].findings[t].risk \in 0 .. 100
                    /\ results[c].findings[t].risk <= results[c].score
               /\ \/ results[c].score = 0
                  \/ \E t \in DOMAIN results[c].findings :
                       results[c].findings[t].risk = results[c].score
    <3>1. c \in Chats /\ results[c].score = Top(results[c].findings)
      BY DEF Ok, IInv, ResultsFit, IsResult
    <3>2. \A t \in DOMAIN results[c].findings : results[c].findings[t].risk \in 0 .. 100
      BY <3>1, SoundRisk DEF IInv, FindingsAreSound
    <3> QED
      BY <3>1, <3>2, TopIsLargest
  <2>2. S \in SUBSET (0 .. 100) /\ S # {} /\ \A c \in Ok : results[c].score \in S
    BY <2>1
  <2>3. overall = Largest(S)
    BY DEF IInv, Told
  <2>4. overall \in S /\ \A n \in S : n <= overall
    <3> HIDE DEF S
    <3> QED
      BY <2>2, <2>3, LargestIn
  <2>5. ASSUME NEW c \in Ok, NEW t \in DOMAIN results[c].findings
        PROVE  results[c].findings[t].risk <= overall
    <3>1. results[c].findings[t].risk <= results[c].score /\ results[c].score <= overall
      BY <2>1, <2>2, <2>4
    <3>2. /\ results[c].findings[t].risk \in Int /\ results[c].score \in Int
          /\ overall \in Int
      <4>1. overall \in Int
        BY DEF IInv, Variables
      <4>2. results[c].findings[t].risk \in Int /\ results[c].score \in Int
        BY <2>1
      <4> QED
        BY <4>1, <4>2
    <3> QED
      BY <3>1, <3>2
  <2>6. ASSUME overall > 0
        PROVE  \E c \in Ok : \E t \in DOMAIN results[c].findings :
                 results[c].findings[t].risk = overall
    <3>1. overall # 0
      BY <2>2, <2>4, <2>6
    <3>2. PICK c \in Ok : overall = results[c].score
      BY <2>4, <3>1
    <3> QED
      BY <2>1, <3>1, <3>2
  <2> QED
    BY <2>5, <2>6 DEF OverallIsWorst
<1> QED
  BY <1>1, Invariant, PTL

(* With equal evidence more use never makes a term riskier, in the same    *)
(* chat or in another, if the weights discount use.                        *)
THEOREM UseLowers == ASSUME UseDiscounts PROVE Spec => []UseLowersRisk
<1>1. IInv => UseLowersRisk
  <2> SUFFICES ASSUME IInv,
                      NEW c \in Ok, NEW d \in Ok,
                      NEW t \in DOMAIN results[c].findings, NEW u \in DOMAIN results[d].findings,
                      results[c].findings[t].evidence = results[d].findings[u].evidence,
                      results[c].findings[t].history.state = "seen",
                      \/ results[d].findings[u].history.state = "unseen"
                      \/ /\ results[d].findings[u].history.state = "seen"
                         /\ results[d].findings[u].history.count <= results[c].findings[t].history.count
               PROVE  results[c].findings[t].risk <= results[d].findings[u].risk
    BY DEF UseLowersRisk
  <2>1. PICK f : f = results[c].findings[t]
    OBVIOUS
  <2>2. PICK g : g = results[d].findings[u]
    OBVIOUS
  <2>3. /\ f \in FindingType /\ f.risk = Risk(f.evidence, f.history)
        /\ g \in FindingType /\ g.risk = Risk(g.evidence, g.history)
    BY <2>1, <2>2 DEF IInv, FindingsAreSound, Sound, Ok
  <2>4. /\ f.evidence \in Evidences /\ f.history \in Histories /\ g.history \in Histories
        /\ g.evidence = f.evidence
    BY <2>1, <2>2, <2>3 DEF FindingType, Histories
  <2>5. HistoryWeight(f.history) <= HistoryWeight(g.history)
    BY <2>1, <2>2, <2>4, UseLowersWeight
  <2>6. Risk(f.evidence, f.history) <= Risk(f.evidence, g.history)
    BY <2>4, <2>5, RiskMonotone
  <2> QED
    BY <2>1, <2>2, <2>3, <2>4, <2>6
<1> QED
  BY <1>1, Invariant, PTL

LEMMA FloorDivides ==
  ASSUME FloorIsScore, NEW c, NEW t, NEW f, Sound(c, t, f)
  PROVE  /\ f.evidence \in Deterministic => f.risk >= Weights["explicit_floor"]
         /\ SoftStaysBelow /\ f.risk >= Weights["explicit_floor"] => f.evidence \in Deterministic
<1>1. /\ f.evidence \in Evidences /\ f.history \in Histories
      /\ f.risk = Risk(f.evidence, f.history) /\ f.risk \in 0 .. 100
  BY DEF Sound, FindingType, Histories
<1>2. f.evidence \in Deterministic => f.risk >= Weights["explicit_floor"]
  BY <1>1, DeterministicRisk
<1>3. ASSUME SoftStaysBelow, f.evidence \notin Deterministic
      PROVE  ~ (f.risk >= Weights["explicit_floor"])
  <2>1. f.risk < Weights["explicit_floor"]
    BY <1>1, <1>3, SoftRisk
  <2>2. Weights["explicit_floor"] \in Int
    BY DEF FloorIsScore
  <2> QED
    BY <1>1, <2>1, <2>2
<1> QED
  BY <1>2, <1>3

(* Nothing but a configured rule of the chat makes it HIGH, if the weights *)
(* keep what is no rule below the floor.                                   *)
THEOREM OnlyRules == ASSUME FloorIsScore, SoftStaysBelow PROVE Spec => []OnlyRulesAreHigh
<1>1. IInv => OnlyRulesAreHigh
  <2> SUFFICES ASSUME IInv, NEW c \in Ok, results[c].score >= Weights["explicit_floor"]
               PROVE  \E r \in rules : /\ r \in InScope(c) /\ ~r.allow /\ r.hits \in message
                                       /\ r.hits \notin Allowed(c)
    BY DEF OnlyRulesAreHigh
  <2>1. /\ c \in Chats /\ results[c].score = Top(results[c].findings)
        /\ \A t \in DOMAIN results[c].findings : Sound(c, t, results[c].findings[t])
    BY DEF Ok, IInv, ResultsFit, IsResult, FindingsAreSound
  <2>2. \A t \in DOMAIN results[c].findings : results[c].findings[t].risk \in 0 .. 100
    BY <2>1, SoundRisk
  <2>3. results[c].score # 0
    BY DEF FloorIsScore
  <2>4. PICK t \in DOMAIN results[c].findings : results[c].findings[t].risk = results[c].score
    BY <2>1, <2>2, <2>3, TopIsLargest
  <2>5. PICK f : f = results[c].findings[t]
    OBVIOUS
  <2>6. Sound(c, t, f) /\ f.risk >= Weights["explicit_floor"]
    BY <2>1, <2>4, <2>5
  <2>7. f.evidence \in Deterministic
    BY <2>6, FloorDivides
  <2> QED
    BY <2>6, <2>7 DEF Sound, Reported
<1> QED
  BY <1>1, Invariant, PTL

-----------------------------------------------------------------------------
(* A restricted word puts the chat at the floor: inductive beside IInv.    *)

Held ==
  \A c \in Ok, r \in rules :
    Restricts(r, c) /\ r.kind # "regex" => results[c].score >= Weights["explicit_floor"]

LEMMA AnalyzeChatHolds ==
  ASSUME FloorIsScore, IInv, NEW c \in Chats, AnalyzeChat(c),
         NEW r \in rules, Restricts(r, c), r.kind # "regex"
  PROVE  results'[c].score >= Weights["explicit_floor"]
<1>1. PICK explicit \in RuleEvidence(c), novel \in SUBSET Novel(c) :
        \E findings \in Kept(Findings(c, explicit, novel)) :
          results' = [results EXCEPT ![c] = Answer(findings)]
  BY DEF AnalyzeChat
<1>2. PICK k \in Kept(Findings(c, explicit, novel)) :
        results' = [results EXCEPT ![c] = Answer(k)]
  BY <1>1
<1>3. Variables
  BY DEF IInv
<1>4. PICK F : F = Findings(c, explicit, novel)
  OBVIOUS
<1>5. /\ DOMAIN F \subseteq message /\ \A t \in DOMAIN F : Sound(c, t, F[t])
      /\ \A t \in DOMAIN explicit : t \in DOMAIN F /\ F[t].evidence \in Deterministic
  BY <1>3, <1>4, FindingsSound
<1>6. r \in Blocked(c)
  BY DEF Restricts, Blocked, Matches, Works, Allowed
<1>7. r.hits \in DOMAIN explicit
  BY <1>6 DEF RuleEvidence
<1>8. PICK f : f = F[r.hits]
  OBVIOUS
<1>9. f.risk >= Weights["explicit_floor"]
  BY <1>5, <1>7, <1>8, FloorDivides
<1>10. f.risk <= Top(F) /\ f.risk \in Int /\ Top(F) \in Int
  <2>1. \A t \in DOMAIN F : F[t].risk \in 0 .. 100
    BY <1>5, SoundRisk
  <2> QED
    BY <1>5, <1>7, <1>8, <2>1, TopIsLargest
<1>11. Top(F) >= Weights["explicit_floor"]
  BY <1>9, <1>10 DEF FloorIsScore
<1>12. Answer(k).score = Top(F)
  BY <1>2, <1>3, <1>4, <1>5, AnswerFits
<1>13. results'[c] = Answer(k)
  BY <1>2, <1>3 DEF Variables
<1> QED
  BY <1>11, <1>12, <1>13

(* A finding of the LLM pushes no score down.                              *)
LEMMA MergeAiRaises ==
  ASSUME IInv, NEW t \in Terms, MergeAi(t)
  PROVE  Ok' = Ok /\ \A d \in Ok : results'[d].score >= results[d].score
<1> DEFINE first == CHOOSE c \in Ok : \A d \in Ok : c <= d
<1>1. Variables /\ FindingsAreSound
  BY DEF IInv
<1>2. \A d \in Ok : d \in Chats /\ results[d].score = Top(results[d].findings)
  BY DEF Ok, IInv, ResultsFit, IsResult
<1>3. \A d \in Ok : \A u \in DOMAIN results[d].findings : results[d].findings[u].risk \in 0 .. 100
  BY <1>1, <1>2, SoundRisk DEF FindingsAreSound
<1>4. \A d \in Ok : results[d].score \in Int
  BY <1>2, <1>3, TopIsLargest
<1>5. CASE results' = results
  BY <1>4, <1>5 DEF Ok
<1>6. CASE results' # results
  <2>1. /\ Ok # {} /\ t \in message /\ \A d \in Ok : t \notin DOMAIN results[d].findings
        /\ \E findings \in WithSemantic(first, t) :
             results' = [results EXCEPT ![first] = Answer(findings)]
    BY <1>6 DEF MergeAi
  <2>2. PICK c \in Ok : c = first
    BY <2>1, FirstIsOk
  <2>3. PICK F : F = [u \in DOMAIN results[c].findings \cup {t} |->
                        IF u = t THEN Semantic ELSE results[c].findings[u]]
    OBVIOUS
  <2>4. PICK k \in Kept(F) : results' = [results EXCEPT ![c] = Answer(k)]
    <3>1. WithSemantic(c, t) = Kept(F)
      BY <2>3 DEF WithSemantic
    <3>2. \E findings \in WithSemantic(c, t) : results' = [results EXCEPT ![c] = Answer(findings)]
      BY <2>1, <2>2
    <3> QED
      BY <3>1, <3>2
  <2>5. DOMAIN F \subseteq message /\ \A u \in DOMAIN F : Sound(c, u, F[u])
    BY <1>1, <1>2, <2>1, <2>3, SemanticSound
  <2>6. Answer(k).status = "ok" /\ Answer(k).score = Top(F)
    BY <1>1, <1>2, <2>5, AnswerFits
  <2>7. \A u \in DOMAIN F : F[u].risk \in 0 .. 100
    BY <2>5, SoundRisk
  <2>8. /\ Top(F) \in 0 .. 100 /\ \A u \in DOMAIN F : F[u].risk <= Top(F)
    BY <2>7, TopIsLargest
  <2>9. /\ Top(results[c].findings) \in 0 .. 100
        /\ \/ Top(results[c].findings) = 0
           \/ \E u \in DOMAIN results[c].findings :
                results[c].findings[u].risk = Top(results[c].findings)
    BY <1>3, TopIsLargest
  <2>10. \A u \in DOMAIN results[c].findings : u \in DOMAIN F /\ F[u] = results[c].findings[u]
    BY <2>1, <2>3
  <2>11. Top(F) >= Top(results[c].findings)
    BY <2>8, <2>9, <2>10
  <2>12. DOMAIN results = Chats /\ c \in Chats
    BY <1>1, <1>2 DEF Variables
  <2>13. results'[c] = Answer(k) /\ \A d \in Chats \ {c} : results'[d] = results[d]
    BY <2>4, <2>12
  <2>14. Ok' = Ok
    BY <2>6, <2>12, <2>13 DEF Ok
  <2>15. results'[c].score >= results[c].score
    BY <1>2, <2>6, <2>11, <2>13
  <2>16. ASSUME NEW d \in Ok \ {c} PROVE results'[d].score >= results[d].score
    BY <1>2, <1>4, <2>13
  <2> QED
    BY <2>14, <2>15, <2>16
<1> QED
  BY <1>5, <1>6

LEMMA HeldKept == FloorIsScore /\ IInv /\ Held /\ [Next]_vars => Held'
<1> SUFFICES ASSUME FloorIsScore, IInv, Held, [Next]_vars PROVE Held'
  OBVIOUS
<1> USE DEF Held
<1>1. ASSUME NEW c \in Chats, AnalyzeChat(c) PROVE Held'
  <2>1. rules' = rules /\ message' = message
    BY <1>1 DEF AnalyzeChat
  <2>2. \A r, d : Restricts(r, d)' <=> Restricts(r, d)
    BY <2>1 DEF Restricts, InScope
  <2>3. \A d \in Chats \ {c} : results'[d] = results[d]
    BY <1>1 DEF AnalyzeChat, IInv, Variables
  <2>4. \A d \in Ok' : d = c \/ (d \in Ok /\ results'[d] = results[d])
    BY <2>3 DEF Ok
  <2>5. \A r \in rules : Restricts(r, c) /\ r.kind # "regex" =>
          results'[c].score >= Weights["explicit_floor"]
    BY <1>1, AnalyzeChatHolds
  <2> QED
    BY <2>1, <2>2, <2>4, <2>5
<1>2. ASSUME NEW c \in Chats, SkipChat(c) \/ ChatFails(c) PROVE Held'
  <2>1. rules' = rules /\ message' = message
    BY <1>2 DEF SkipChat, ChatFails
  <2>2. \A r, d : Restricts(r, d)' <=> Restricts(r, d)
    BY <2>1 DEF Restricts, InScope
  <2>3. PICK s \in {"unknown", "error"} : results' = [results EXCEPT ![c] = Failed(s)]
    BY <1>2 DEF SkipChat, ChatFails
  <2>4. Failed(s).status = s
    BY NoResultFits
  <2>5. \A d \in Ok' : d \in Ok /\ results'[d] = results[d]
    BY <2>3, <2>4 DEF Ok, IInv, Variables
  <2> QED
    BY <2>1, <2>2, <2>5
<1>3. ASSUME NEW t \in Terms, MergeAi(t) PROVE Held'
  <2>1. rules' = rules /\ message' = message
    BY <1>3 DEF MergeAi
  <2>2. \A r, d : Restricts(r, d)' <=> Restricts(r, d)
    BY <2>1 DEF Restricts, InScope
  <2>3. Ok' = Ok /\ \A d \in Ok : results'[d].score >= results[d].score
    BY <1>3, MergeAiRaises
  <2>4. /\ \A d \in Ok : results[d].score \in Int /\ results'[d].score \in Int
        /\ Weights["explicit_floor"] \in Int
    <3>1. \A d \in Ok : results[d].score \in Int
      <4>1. SUFFICES ASSUME NEW d \in Ok PROVE results[d].score \in Int
        OBVIOUS
      <4>2. d \in Chats /\ results[d].score = Top(results[d].findings)
        BY DEF Ok, IInv, ResultsFit, IsResult
      <4>3. \A u \in DOMAIN results[d].findings : results[d].findings[u].risk \in 0 .. 100
        BY <4>2, SoundRisk DEF IInv, FindingsAreSound
      <4> QED
        BY <4>2, <4>3, TopIsLargest
    <3>2. IInv'
      BY <1>3, MergeAiKeeps
    <3>3. \A d \in Ok : results'[d].score \in Int
      <4>1. SUFFICES ASSUME NEW d \in Ok PROVE results'[d].score \in Int
        OBVIOUS
      <4>2. d \in Chats /\ IInv'
        BY <3>2 DEF Ok
      <4>3. \A u \in DOMAIN results'[d].findings : Sound(d, u, results[d].findings[u])'
        BY <4>2 DEF IInv, FindingsAreSound
      <4>4. \A u \in DOMAIN results'[d].findings : results'[d].findings[u].risk \in 0 .. 100
        BY <4>3 DEF Sound, FindingType
      <4>5. results'[d].score = Top(results'[d].findings)
        BY <4>2 DEF IInv, ResultsFit, IsResult
      <4> QED
        BY <4>4, <4>5, TopIsLargest
    <3>4. Weights["explicit_floor"] \in Int
      BY DEF FloorIsScore
    <3> QED
      BY <3>1, <3>3, <3>4
  <2>5. ASSUME NEW c \in Ok, NEW r \in rules, Restricts(r, c), r.kind # "regex"
        PROVE  results'[c].score >= Weights["explicit_floor"]
    <3>1. /\ results[c].score >= Weights["explicit_floor"]
          /\ results'[c].score >= results[c].score
      BY <2>3, <2>5
    <3> QED
      BY <2>4, <3>1
  <2> QED
    BY <2>1, <2>2, <2>3, <2>5
<1>4. CASE Begin \/ LlmRaises \/ Deliver \/ \E r \in Rules : AddRule(r) \/ DeleteRule(r)
  <2>1. Nothing'
    BY <1>4, RequestKeeps
  <2>2. Ok' = {}
    <3>1. NoResult.status = "none"
      BY DEF NoResult
    <3> QED
      BY <2>1, <3>1 DEF Nothing, Ok
  <2> QED
    BY <2>2
<1>5. CASE AskLlm \/ Finish \/ UNCHANGED vars \/ \E r \in Rules : Expire(r)
  <2>1. rules' = rules /\ message' = message /\ results' = results
    BY <1>5 DEF AskLlm, Finish, Expire, vars
  <2>2. \A r, d : Restricts(r, d)' <=> Restricts(r, d)
    BY <2>1 DEF Restricts, InScope
  <2> QED
    BY <2>1, <2>2 DEF Ok
<1> QED
  BY <1>1, <1>2, <1>3, <1>4, <1>5 DEF Next

(* A restricted word puts the chat at the floor whatever the history, the  *)
(* findings that crowd it and the LLM say, if the floor is a score.        *)
THEOREM ExplicitRules == ASSUME FloorIsScore PROVE Spec => []ExplicitRulesHold
<1>1. Init => Held
  <2>1. NoResult.status = "none"
    BY DEF NoResult
  <2>2. Init => Ok = {}
    BY <2>1, Zenon DEF Init, Ok
  <2> QED
    BY <2>2 DEF Held
<1>2. IInv /\ Held /\ [Next]_vars => Held'
  BY HeldKept
<1>3. Held => ExplicitRulesHold
  BY DEF Held, ExplicitRulesHold
<1> QED
  BY <1>1, <1>2, <1>3, Invariant, PTL DEF Spec
=============================================================================
