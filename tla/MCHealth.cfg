SPECIFICATION ProbeFairSpec
CONSTANTS
  k1 = k1
  k2 = k2
  k3 = k3
  Checks <- ThreeChecks
  Stuck <- OneStuck

  
PROPERTIES
  ProbeAnswers
CHECK_DEADLOCK FALSE
