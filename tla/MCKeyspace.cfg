SPECIFICATION Spec
CONSTANTS
  a = a b = b
  Keys = {a, b}
  WeightKey <- MCWeightKey
  Commands <- MCCommands
  Questions <- MCQuestions
  Accepted <- MCAccepted
INVARIANTS AgreeUnlessInDoubt ReadsSeeTheLiving NoEmptyValues RewriteRebuilds
CHECK_DEADLOCK FALSE
