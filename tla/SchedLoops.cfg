SPECIFICATION FairSpec
CONSTANTS
  r1 = r1  r2 = r2  r3 = r3
  Reqs = {r1, r2, r3}
  Configs <- Loops
INVARIANTS TypeOK NeverDies OnePlace AnsweredOnce PagesConserved ChunkedHasSlot ChunkBudget IgnoreEosFits
PROPERTIES ImplementsLife Served
