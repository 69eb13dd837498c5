SPECIFICATION Spec
CONSTANTS
  Written <- MCAll
  Atoms <- MCAtoms
  MayTransform = {TRUE, FALSE}
  MaxAnswers = 2
INVARIANTS
  ImpossibleIsUnreachable
  NormalBodyMeansTheSame
  PlainCallsRunLikeSource
  RefusedForAReason
CHECK_DEADLOCK FALSE
