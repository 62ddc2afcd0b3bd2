CONSTANTS
  t1 = t1
  t2 = t2
  t3 = t3
  NoTerm = NoTerm
  Terms <- MCTerms
  Candidates <- MCTerms
  Chats <- MCChats
  Rules <- OnlyRegex
  Worlds <- OneWorld
  AiAnswers <- NoAnswer
  MaxFindings = 2
  RequireCoverage = TRUE
  Weights <- DefaultWeights
SPECIFICATION Spec
INVARIANTS RegexRulesHold
