CONSTANTS
  Tables = {"a", "b"}
  Rules <- MCRules
  MaxRules = 2
  Stages = {1, 2}
  StageTable <- MCStageTable
  Allowed <- MCAllowed
  MaxRecursion = 3
  MaxEvals = 2
SPECIFICATION Spec
INVARIANT AnswerExplained
PROPERTIES JumpIsFinal EvaluationEnds
CHECK_DEADLOCK FALSE
