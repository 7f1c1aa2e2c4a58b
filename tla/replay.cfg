CONSTANTS
  Candidates <- SomeCandidates
  Priors <- SomePriors
  Now = 3
  Answers <- SomeAnswers
  Policies <- SomePolicies
SPECIFICATION Spec
INVARIANTS FirstRuleWins ReplayReproduces OutageIsNotAScore
PROPERTY StricterNeverPays
