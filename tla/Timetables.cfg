SPECIFICATION Spec
CONSTANTS
  Width = 4
  Unlimited = Unlimited
  Call <- AllCalls
INVARIANTS
  TypeOK
  BranchesExact
  AnswerSequential
  ResultsExact
  CountExact
PROPERTIES
  ImplementsSkeleton
CHECK_DEADLOCK FALSE
