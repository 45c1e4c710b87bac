CONSTANTS
  c1 = c1
  p1 = p1
SPECIFICATION Spec
INVARIANTS
  AnswersMatch
  
  LoginIsFresh
PROPERTIES
  WaitEnds
  
  LoginEnds
\* The bounds end a behaviour.
CHECK_DEADLOCK FALSE
