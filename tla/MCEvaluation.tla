---------------------------- MODULE MCEvaluation ----------------------------
(* Three terms, two chats, four rules, and chats whose histories differ.   *)
EXTENDS Evaluation

CONSTANTS t1, t2, t3

MCTerms == {t1, t2, t3}
MCChats == {1, 2}

Rule(id, kind, allow, scope, hits, like, fault) ==
  [id |-> id, kind |-> kind, allow |-> allow, scope |-> scope, hits |-> hits,
   like |-> like, fault |-> fault]

(* A word that is blocked everywhere and has a variant, a pattern of one   *)
(* chat, an allowlist entry, a pattern that is broken.                     *)
MCRules ==
  {Rule(1, "exact", FALSE, 0, t1, t2, "none"),
   Rule(2, "regex", FALSE, 1, t3, NoTerm, "none"),
   Rule(3, "exact", TRUE, 0, t1, NoTerm, "none")}

OnlyRegex == {Rule(2, "regex", FALSE, 1, t3, NoTerm, "none"),
              Rule(4, "regex", FALSE, 0, t3, NoTerm, "invalid")}

World(accessible, complete, indexed, found, searchable, alike) ==
  [accessible |-> accessible, complete |-> complete, indexed |-> indexed,
   found |-> found, searchable |-> searchable, alike |-> alike]

Never == [t \in MCTerms |-> 0]

(* A chat that is indexed and uses the terms to different degrees, one     *)
(* that is not indexed, with a search or without, and one out of reach.    *)
MCWorlds ==
  {World(TRUE, TRUE, [Never EXCEPT ![t1] = 5, ![t2] = 1], Never, FALSE, {}),
   World(TRUE, FALSE, Never, [Never EXCEPT ![t2] = 5], TRUE, {t1}),
   World(FALSE, FALSE, Never, Never, TRUE, {})}

OneWorld == {World(TRUE, TRUE, Never, Never, TRUE, {})}

MCAnswers == {{t1, t3}}
NoAnswer == {}

DefaultWeights ==
  [w \in {"explicit_rule", "regex", "fuzzy", "ai", "unseen", "rare", "frequent_use", "explicit_floor"} |->
     CASE w = "explicit_rule" -> 30 [] w = "regex" -> 28 [] w = "fuzzy" -> 22 [] w = "ai" -> 15
       [] w = "unseen" -> 8 [] w = "rare" -> 4 [] w = "frequent_use" -> 0 - 14
       [] w = "explicit_floor" -> 70]

(* The default weights meet the hypotheses of the theorems.                *)
ASSUME DefaultsFit == UseDiscounts /\ SoftStaysBelow /\ FloorIsScore
=============================================================================
