SPECIFICATION FairSpec
CONSTANTS
  k1 = k1  k2 = k2  r1 = r1  r2 = r2  r3 = r3  g1 = g1  g2 = g2
  Reqs = {r1, r2, r3}  Keys = {g1, g2}
  Key <- SharedKey  Outcome <- Results  MaxPolls = 1
  Configs <- Groups
CHECK_DEADLOCK FALSE
INVARIANTS TypeOK RanksAgree GrammarResolved OneQueue
PROPERTIES Moves
