----------------------------- MODULE Evaluation -----------------------------
(***************************************************************************)
(* The analysis of a message in the worker: app/analysis/pipeline.py with  *)
(* the rules of app/rules, the evidence of app/history/searcher.py and the *)
(* scores of app/analysis/scoring.py.                                      *)
(*                                                                         *)
(* A message is the set of its terms, and a rule is known by the term it   *)
(* matches and the term it takes for a variant of it: normalisation and    *)
(* edit distance are library calls.  What survives from one message to the *)
(* next is the table of rules and the cache of compiled patterns, whose    *)
(* entries age.  Scores are counted in half points, because the weight of  *)
(* an unknown term is half that of an unseen one.                          *)
(***************************************************************************)
EXTENDS Integers, FiniteSets

CONSTANTS
  Chats,           \* the target chats, numbered in the order of their rows
  Terms, NoTerm,   \* the terms messages are made of; no term
  Candidates,      \* those long and rare enough to be looked up as novel
  Rules,           \* the rules that can be configured
  Worlds,          \* what may be true of a chat: its row, its history
  AiAnswers,       \* what the LLM may flag: sets of terms
  MaxFindings,     \* MAX_FINDINGS_PER_CHAT
  RequireCoverage, \* require_coverage_for_unseen
  Weights          \* risk_weights: floats in the settings, whole numbers here

Kinds == {"exact", "phrase", "regex"}

(* A rule: its row, the term its pattern matches, the term that is similar *)
(* to it, and whether its regex is malformed or too slow.                  *)
RuleRows == [id : Nat, kind : Kinds, allow : BOOLEAN, scope : {0} \cup Chats,
             hits : Terms \cup {NoTerm}, like : Terms \cup {NoTerm},
             fault : {"none", "invalid", "slow"}]

(* A chat: whether it is accessible, whether its coverage is complete, how *)
(* often a term is in the index and in what a search finds, whether the    *)
(* search works, and which terms resemble a frequent one.                  *)
ChatRows == [accessible : BOOLEAN, complete : BOOLEAN, indexed : [Terms -> Nat],
             found : [Terms -> Nat], searchable : BOOLEAN, alike : SUBSET Terms]

Deterministic == {"explicit_rule", "regex"}
Evidences == Deterministic \cup {"fuzzy_rule_match", "semantic_match", "unseen"}

ASSUME ConstantsAssumption ==
  /\ IsFiniteSet(Chats) /\ Chats \subseteq Nat \ {0}
  /\ IsFiniteSet(Terms) /\ NoTerm \notin Terms
  /\ Candidates \subseteq Terms
  /\ Rules \subseteq RuleRows
  /\ Worlds \subseteq ChatRows /\ Worlds # {}
  /\ AiAnswers \subseteq SUBSET Terms
  /\ MaxFindings \in Nat \ {0}
  /\ RequireCoverage \in BOOLEAN
  /\ Weights \in [{"explicit_rule", "regex", "fuzzy", "ai", "unseen", "rare",
                   "frequent_use", "explicit_floor"} -> Int]

(* What the default weights have in common; no validator asks it of others.*)
(* Use in the history counts against a term, no soft sign reaches the      *)
(* floor with the history that speaks most for it, and the floor is a      *)
(* score.                                                                  *)
HistoryWeights == {2 * Weights[h] : h \in {"unseen", "rare", "frequent_use"}} \cup {Weights["unseen"]}

UseDiscounts == Weights["frequent_use"] <= Weights["rare"] /\ Weights["rare"] <= Weights["unseen"]

SoftStaysBelow ==
  \A w \in {"fuzzy", "ai", "unseen"}, h \in HistoryWeights :
    2 * Weights[w] + h <= 2 * Weights["explicit_floor"] - 2

FloorIsScore == Weights["explicit_floor"] \in 1 .. 100

VARIABLES
  rules,   \* the rows of the table rules that are enabled
  age,     \* the compiled pattern of a rule: "absent", "fresh" or "expired"
  step, message, world, flagged, todo,   \* the request being analysed
  results, overall, warned               \* its outcome

vars == <<rules, age, step, message, world, flagged, todo, results, overall, warned>>

-----------------------------------------------------------------------------
(* Rules.                                                                  *)

(* A pattern that expired is not compiled again: the entry is found, taken *)
(* for None and returned.                                                  *)
Works(r) ==
  \/ r.kind # "regex"
  \/ r.fault = "none" /\ age[r] # "expired"

InScope(c) == {r \in rules : r.scope \in {0, c}}

Matches(c) == {r \in InScope(c) : r.hits \in message /\ Works(r)}

Allowed(c) == {r.hits : r \in {q \in Matches(c) : q.allow}}

Blocked(c) == {r \in Matches(c) : ~r.allow /\ r.hits \notin Allowed(c)}

EvidenceFor(r) == IF r.kind = "regex" THEN "regex" ELSE "explicit_rule"

(* The word of the message that resembles the term of the rule.            *)
Variant(r) == {r.like} \cap message

SimilarTo(c) == UNION {Variant(r) : r \in {q \in InScope(c) : ~q.allow /\ q.kind # "regex"}}

(* Patterns are compiled when a rule is tried; an entry that says "invalid"*)
(* is renewed, one with a pattern is not.                                  *)
Compile(c) ==
  age' = [r \in Rules |->
            IF /\ r \in InScope(c) /\ r.kind = "regex"
               /\ age[r] = "absent" \/ r.fault = "invalid"
            THEN "fresh" ELSE age[r]]

-----------------------------------------------------------------------------
(* Evidence and scores.                                                    *)

Hits(w, t) == IF w.searchable THEN w.found[t] ELSE 0

(* Mutant: a search that finds nothing counts as knowing the history.      *)
HistorySearchSuffices(w, t) ==
  IF w.indexed[t] > 0 THEN [state |-> "seen", count |-> w.indexed[t]]
  ELSE IF Hits(w, t) > 0 THEN [state |-> "seen", count |-> Hits(w, t)]
  ELSE IF w.complete \/ w.searchable THEN [state |-> "unseen", count |-> 0]
  ELSE [state |-> "unknown", count |-> 0]

History(w, t) ==
  IF w.indexed[t] > 0 THEN [state |-> "seen", count |-> w.indexed[t]]
  ELSE IF Hits(w, t) > 0 THEN [state |-> "seen", count |-> Hits(w, t)]
  ELSE IF t \in w.alike THEN [state |-> "seen", count |-> 0]
  ELSE IF w.complete \/ ~RequireCoverage THEN [state |-> "unseen", count |-> 0]
  ELSE [state |-> "unknown", count |-> 0]

BaseWeight(evidence) ==
  2 * CASE evidence = "explicit_rule"    -> Weights["explicit_rule"]
        [] evidence = "regex"            -> Weights["regex"]
        [] evidence = "fuzzy_rule_match" -> Weights["fuzzy"]
        [] evidence = "semantic_match"   -> Weights["ai"]
        [] evidence = "unseen"           -> Weights["unseen"]

(* Mutant: rare and frequent use are mixed up.                             *)
HistoryWeightSwapped(history) ==
  CASE history.state = "unseen"  -> 2 * Weights["unseen"]
    [] history.state = "unknown" -> Weights["unseen"]
    [] history.state = "seen" /\ history.count < 5 -> 2 * Weights["frequent_use"]
    [] OTHER -> 2 * Weights["rare"]

HistoryWeight(history) ==
  CASE history.state = "unseen"  -> 2 * Weights["unseen"]
    [] history.state = "unknown" -> Weights["unseen"]
    [] history.state = "seen" /\ history.count >= 5 -> 2 * Weights["frequent_use"]
    [] OTHER -> 2 * Weights["rare"]

AtLeast(low, n) == IF n < low THEN low ELSE n
AtMost(high, n) == IF n > high THEN high ELSE n

(* Python rounds halves to even.                                           *)
Rounded(halves) ==
  LET down == halves \div 2
  IN  IF halves % 2 = 1 /\ down % 2 = 1 THEN down + 1 ELSE down

(* Mutants: the floor before the discount; no lower bound.                 *)
RiskDiscountsFloor(evidence, history) ==
  LET base == BaseWeight(evidence)
      floored == IF evidence \in Deterministic
                 THEN AtLeast(2 * Weights["explicit_floor"], base) ELSE base
  IN  Rounded(AtLeast(0, AtMost(200, floored + HistoryWeight(history))))

RiskUnbounded(evidence, history) ==
  Rounded(IF evidence \in Deterministic
          THEN AtLeast(2 * Weights["explicit_floor"], BaseWeight(evidence))
          ELSE BaseWeight(evidence) + HistoryWeight(history))

Risk(evidence, history) ==
  LET sum == BaseWeight(evidence) + HistoryWeight(history)
      floored == IF evidence \in Deterministic
                 THEN AtLeast(2 * Weights["explicit_floor"], sum) ELSE sum
  IN  Rounded(AtLeast(0, AtMost(200, floored)))

Level(score) ==
  CASE score < 20 -> "LOW"
    [] score \in 20 .. 39 -> "MODERATE"
    [] score \in 40 .. 69 -> "ELEVATED"
    [] score \in 70 .. 89 -> "HIGH"
    [] OTHER -> "VERY HIGH"

Scored(evidence, history) ==
  [evidence |-> evidence, history |-> history, risk |-> Risk(evidence, history)]

Largest(numbers) == CHOOSE n \in numbers : \A k \in numbers : k <= n

Top(findings) == Largest({0} \cup {findings[t].risk : t \in DOMAIN findings})

(* The findings that stay: as many as there is room for, none of them less *)
(* risky than one that goes.                                               *)
Kept(findings) ==
  {[t \in stay |-> findings[t]] :
     stay \in {s \in SUBSET DOMAIN findings :
       /\ Cardinality(s) = AtMost(MaxFindings, Cardinality(DOMAIN findings))
       /\ \A t \in s, u \in DOMAIN findings \ s : findings[u].risk <= findings[t].risk}}

-----------------------------------------------------------------------------
(* The analysis of a request.                                              *)

NoResult == [status |-> "none", findings |-> <<>>, score |-> 0, level |-> "LOW"]

Failed(status) == [NoResult EXCEPT !.status = status]

Answer(findings) ==
  [status |-> "ok", findings |-> findings, score |-> Top(findings), level |-> Level(Top(findings))]

Init ==
  /\ rules = {}
  /\ age = [r \in Rules |-> "absent"]
  /\ step = "idle"
  /\ message = {} /\ flagged = {} /\ todo = {}
  /\ world = [c \in Chats |-> CHOOSE w \in Worlds : TRUE]
  /\ results = [c \in Chats |-> NoResult]
  /\ overall = 0 /\ warned = FALSE

(* A rule that is added gets a new id, so its pattern is not cached.  The  *)
(* analysis reads the table once: changes under it do not matter to it.    *)
AddRule(r) ==
  /\ step = "idle" /\ r \notin rules
  /\ rules' = rules \cup {r}
  /\ age' = [age EXCEPT ![r] = "absent"]
  /\ UNCHANGED <<step, message, world, flagged, todo, results, overall, warned>>

DeleteRule(r) ==
  /\ step = "idle" /\ r \in rules
  /\ rules' = rules \ {r}
  /\ UNCHANGED <<age, step, message, world, flagged, todo, results, overall, warned>>

(* Five minutes pass since a pattern was compiled.                         *)
Expire(r) ==
  /\ age[r] = "fresh"
  /\ age' = [age EXCEPT ![r] = "expired"]
  /\ UNCHANGED <<rules, step, message, world, flagged, todo, results, overall, warned>>

(* What a user may write, and which chats he may have enabled.             *)
Messages == SUBSET Terms \ {{}}
EnabledChats == SUBSET Chats

Begin ==
  /\ step = "idle"
  /\ message' \in Messages
  /\ todo' \in EnabledChats
  /\ \E w \in [todo' -> Worlds] :
       world' = [c \in Chats |-> IF c \in todo' THEN w[c] ELSE world[c]]
  /\ step' = IF todo' = {} THEN "done" ELSE "llm"
  /\ UNCHANGED <<rules, age, flagged, results, overall, warned>>

(* The phrases an LLM finds suspicious with enough confidence; none if it  *)
(* is disabled, cannot be reached or answers in no readable form.          *)
AskLlm ==
  /\ step = "llm"
  /\ flagged' \in AiAnswers \cup {{}}
  /\ step' = "chats"
  /\ UNCHANGED <<rules, age, message, world, todo, results, overall, warned>>

Forget ==
  /\ message' = {} /\ flagged' = {} /\ todo' = {}
  /\ world' = [c \in Chats |-> CHOOSE w \in Worlds : TRUE]
  /\ results' = [c \in Chats |-> NoResult]
  /\ overall' = 0 /\ warned' = FALSE

(* An answer that is JSON of another shape raises what nobody catches, and *)
(* the request fails as a whole.                                           *)
LlmRaises ==
  /\ step = "llm"
  /\ step' = "idle"
  /\ Forget
  /\ UNCHANGED <<rules, age>>

(* One evidence per term: of a rule that matches it (the rules come in no  *)
(* order), else of a variant, else of its novelty.                         *)
RuleEvidence(c) ==
  {e \in [{r.hits : r \in Blocked(c)} -> Deterministic] :
     \A t \in DOMAIN e : \E r \in Blocked(c) : r.hits = t /\ e[t] = EvidenceFor(r)}

Novel(c) ==
  (message \cap Candidates) \ ({r.hits : r \in Blocked(c)} \cup SimilarTo(c))

(* Mutant: a variant of a term counts as the term.                         *)
FindingsVariantIsRule(c, explicit, novel) ==
  [t \in DOMAIN explicit \cup SimilarTo(c) \cup novel |->
     Scored(IF t \in DOMAIN explicit THEN explicit[t]
            ELSE IF t \in SimilarTo(c) THEN "explicit_rule" ELSE "unseen",
            History(world[c], t))]

Findings(c, explicit, novel) ==
  [t \in DOMAIN explicit \cup SimilarTo(c) \cup novel |->
     Scored(IF t \in DOMAIN explicit THEN explicit[t]
            ELSE IF t \in SimilarTo(c) THEN "fuzzy_rule_match" ELSE "unseen",
            History(world[c], t))]

IsNext(c) == c \in todo /\ \A d \in todo : c <= d

AnalyzeChat(c) ==
  /\ step = "chats" /\ IsNext(c)
  /\ world[c].accessible
  /\ Compile(c)
  /\ \E explicit \in RuleEvidence(c), novel \in SUBSET Novel(c) :
       /\ Cardinality(novel) = AtMost(MaxFindings, Cardinality(Novel(c)))
       /\ \E findings \in Kept(Findings(c, explicit, novel)) :
            results' = [results EXCEPT ![c] = Answer(findings)]
  /\ todo' = todo \ {c}
  /\ step' = IF todo' = {} THEN "merge" ELSE "chats"
  /\ UNCHANGED <<rules, message, world, flagged, overall, warned>>

SkipChat(c) ==
  /\ step = "chats" /\ IsNext(c)
  /\ ~world[c].accessible
  /\ results' = [results EXCEPT ![c] = Failed("unknown")]
  /\ todo' = todo \ {c}
  /\ step' = IF todo' = {} THEN "merge" ELSE "chats"
  /\ UNCHANGED <<rules, age, message, world, flagged, overall, warned>>

(* An exception in the analysis of a chat, after its rules were tried.     *)
ChatFails(c) ==
  /\ step = "chats" /\ IsNext(c)
  /\ world[c].accessible
  /\ Compile(c)
  /\ results' = [results EXCEPT ![c] = Failed("error")]
  /\ todo' = todo \ {c}
  /\ step' = IF todo' = {} THEN "merge" ELSE "chats"
  /\ UNCHANGED <<rules, message, world, flagged, overall, warned>>

Ok == {c \in Chats : results[c].status = "ok"}

Semantic == Scored("semantic_match", [state |-> "unknown", count |-> 0])

(* The findings of the first chat with a flagged phrase as one more.       *)
WithSemantic(c, t) ==
  Kept([u \in DOMAIN results[c].findings \cup {t} |->
          IF u = t THEN Semantic ELSE results[c].findings[u]])

(* Mutant: the score of the chat is not renewed.                           *)
MergeAiKeepsScore(t) ==
  LET first == CHOOSE c \in Ok : \A d \in Ok : c <= d
  IN  /\ step = "merge" /\ t \in flagged
      /\ flagged' = flagged \ {t}
      /\ IF Ok = {} \/ t \notin message \/ \E c \in Ok : t \in DOMAIN results[c].findings
         THEN results' = results
         ELSE \E findings \in WithSemantic(first, t) :
                results' = [results EXCEPT ![first].findings = findings]
      /\ UNCHANGED <<rules, age, step, message, world, todo, overall, warned>>

(* A flagged phrase that is a finding at this point is only explained;     *)
(* another one becomes a finding of the first chat, and may push one out.  *)
MergeAi(t) ==
  LET first == CHOOSE c \in Ok : \A d \in Ok : c <= d
  IN  /\ step = "merge" /\ t \in flagged
      /\ flagged' = flagged \ {t}
      /\ IF Ok = {} \/ t \notin message \/ \E c \in Ok : t \in DOMAIN results[c].findings
         THEN results' = results
         ELSE \E findings \in WithSemantic(first, t) :
                results' = [results EXCEPT ![first] = Answer(findings)]
      /\ UNCHANGED <<rules, age, step, message, world, todo, overall, warned>>

Analysed == {c \in Chats : results[c].status # "none"}

(* Mutant: the warning only if no chat is covered.                         *)
FinishWarnsIfAll ==
  /\ step = "merge" /\ flagged = {}
  /\ overall' = Largest({0} \cup {results[c].score : c \in Ok})
  /\ warned' = \A c \in Analysed : ~world[c].complete
  /\ step' = "done"
  /\ UNCHANGED <<rules, age, message, world, flagged, todo, results>>

Finish ==
  /\ step = "merge" /\ flagged = {}
  /\ overall' = Largest({0} \cup {results[c].score : c \in Ok})
  /\ warned' = \E c \in Analysed : ~world[c].complete
  /\ step' = "done"
  /\ UNCHANGED <<rules, age, message, world, flagged, todo, results>>

(* run_request stores the outcome; the next message starts from nothing.   *)
Deliver ==
  /\ step = "done"
  /\ step' = "idle"
  /\ Forget
  /\ UNCHANGED <<rules, age>>

Next ==
  \/ \E r \in Rules : AddRule(r) \/ DeleteRule(r) \/ Expire(r)
  \/ \E c \in Chats : AnalyzeChat(c) \/ SkipChat(c) \/ ChatFails(c)
  \/ \E t \in Terms : MergeAi(t)
  \/ Begin \/ AskLlm \/ LlmRaises \/ Finish \/ Deliver

Spec == Init /\ [][Next]_vars

-----------------------------------------------------------------------------
(* Properties.                                                             *)

FindingType == [evidence : Evidences, risk : 0 .. 100,
                history : [state : {"seen", "unseen", "unknown"}, count : Nat]]

(* Scores stay between 0 and 100, a chat keeps at most MaxFindings.        *)
TypeOK ==
  /\ rules \subseteq Rules
  /\ age \in [Rules -> {"absent", "fresh", "expired"}]
  /\ step \in {"idle", "llm", "chats", "merge", "done"}
  /\ message \subseteq Terms /\ flagged \subseteq Terms /\ todo \subseteq Chats
  /\ world \in [Chats -> Worlds]
  /\ \A c \in Chats :
       /\ results[c].status \in {"none", "ok", "unknown", "error"}
       /\ Cardinality(DOMAIN results[c].findings) <= MaxFindings
       /\ \A t \in DOMAIN results[c].findings : results[c].findings[t] \in FindingType
  /\ overall \in 0 .. 100 /\ warned \in BOOLEAN

(* Rules that would report term t in chat c: enabled, in scope, and no     *)
(* allowlist rule in scope names the same fragment.                        *)
Restricts(r, c) ==
  /\ r \in InScope(c) /\ ~r.allow /\ r.hits \in message
  /\ \A q \in InScope(c) : q.allow => q.hits # r.hits

(* "A previously observed term lowers risk but never overrides explicit    *)
(* rules" (searcher.py:8): whatever the history, the findings that crowd   *)
(* it and the LLM say, a restricted word puts the chat at the floor.       *)
ExplicitRulesHold ==
  step = "done" =>
    \A c \in Ok, r \in rules :
      Restricts(r, c) /\ r.kind # "regex" => results[c].score >= Weights["explicit_floor"]

(* The same of patterns that compile and are quick.  A compiled pattern is *)
(* taken for an invalid one from its sixth minute on.                      *)
RegexRulesHold ==
  step = "done" =>
    \A c \in Ok, r \in rules :
      Restricts(r, c) /\ r.kind = "regex" /\ r.fault = "none" =>
        results[c].score >= Weights["explicit_floor"]

(* Nothing but a configured rule makes a chat HIGH: not a novel term, not  *)
(* a variant, not the LLM, not all of them together, and not a rule of     *)
(* another chat or one that an allowlist rule of the chat silences.        *)
OnlyRulesAreHigh ==
  step = "done" =>
    \A c \in Ok : results[c].score >= Weights["explicit_floor"] =>
      \E r \in rules : r \in InScope(c) /\ ~r.allow /\ r.hits \in message /\ r.hits \notin Allowed(c)

(* With equal evidence, more use in the history never makes a term         *)
(* riskier, and any use at most as risky as none.                          *)
UseLowersRisk ==
  \A c, d \in Ok : \A t \in DOMAIN results[c].findings, u \in DOMAIN results[d].findings :
    LET f == results[c].findings[t]
        g == results[d].findings[u]
    IN  /\ f.evidence = g.evidence /\ f.history.state = "seen"
        /\ \/ g.history.state = "unseen"
           \/ g.history.state = "seen" /\ g.history.count <= f.history.count
        => f.risk <= g.risk

(* "UNSEEN only when history coverage complete" (README.md:234).           *)
UnseenNeedsCoverage ==
  RequireCoverage =>
    \A c \in Ok : \A t \in DOMAIN results[c].findings :
      results[c].findings[t].history.state = "unseen" => world[c].complete

(* A user who is shown a term of unknown history is told that the coverage *)
(* is incomplete, whichever chat it is.                                    *)
UnknownIsExplained ==
  step = "done" =>
    \A c \in Ok : \A t \in DOMAIN results[c].findings :
      /\ results[c].findings[t].history.state = "unknown"
      /\ results[c].findings[t].evidence # "semantic_match"
      => warned

(* The overall score is that of the riskiest finding that is shown, those  *)
(* of the LLM included; chats that failed do not count.                    *)
OverallIsWorst ==
  step = "done" =>
    /\ \A c \in Ok : \A t \in DOMAIN results[c].findings : results[c].findings[t].risk <= overall
    /\ overall > 0 =>
         \E c \in Ok : \E t \in DOMAIN results[c].findings : results[c].findings[t].risk = overall
=============================================================================
