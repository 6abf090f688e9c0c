SPECIFICATION Spec
CONSTANTS
  t1 = t1
  t2 = t2
  t3 = t3
  a1 = a1
  a2 = a2
  Openers = {t1, t3}
  Apps = {a1, a2}
  AppOf <- MCAppOf
  Servers = {s1, s2}
  NoServer = NoServer
  NoApp = NoApp
  ReadyTimeout = 1
  PhaseBudget = 1
  RequiredBudget = 1
  Faults <- MCNoFaults
SYMMETRY ServerSymmetry
INVARIANT ExactlyOneServer
