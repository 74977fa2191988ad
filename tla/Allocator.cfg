SPECIFICATION Spec
CONSTANTS
  Configs <- Allocators
  NumPages = 3
  Owners = {o1, o2}
  NumRows = 2
  MaxBatch = 2
SYMMETRY Symmetry
INVARIANTS TypeOK PagesPartitioned KvPaged NoneOnlyWhenShort KernelsSequential
PROPERTY PoolSpec
