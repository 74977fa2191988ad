SPECIFICATION Spec
CONSTANTS
  r1 = r1  r2 = r2  r3 = r3
  Reqs = {r1, r2, r3}
  Configs <- Preempting
CHECK_DEADLOCK FALSE
INVARIANTS PagesConserved
PROPERTIES AdmitInOrder OutputKept
