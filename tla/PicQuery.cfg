SPECIFICATION QuerySpec
CONSTANTS
  Sources = {0, 1, 14}
INVARIANTS
  AnswersInService
