CONSTANTS
  t1 = t1
  t2 = t2
  t3 = t3
  NoTerm = NoTerm
  Terms <- MCTerms
  Candidates <- MCTerms
  Chats <- MCChats
  Rules <- MCRules
  Worlds <- MCWorlds
  AiAnswers <- MCAnswers
  MaxFindings = 2
  RequireCoverage = TRUE
  Weights <- DefaultWeights
SPECIFICATION Spec
INVARIANTS TypeOK ExplicitRulesHold OnlyRulesAreHigh UseLowersRisk UnseenNeedsCoverage UnknownIsExplained OverallIsWorst
