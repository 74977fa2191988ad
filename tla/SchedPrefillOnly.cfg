SPECIFICATION Spec
CONSTANTS
  r1 = r1  r2 = r2  r3 = r3
  Reqs = {r1, r2, r3}
  Configs <- PrefillOnly
INVARIANTS IdleServesQueue
