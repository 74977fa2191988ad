SPECIFICATION Spec
CONSTANTS
  PageSize = 1
  Reqs = {r1, r2}
  Inputs <- EagleInputs
  Tok = {2}
  MaxNew = 2
  NumPages = 5
  IsEagle = TRUE
  Overlap = FALSE
  ChunkSizes = {1}
  Aligned = TRUE
  BatchSlack = 1
SYMMETRY Symmetry
INVARIANTS PageOwnedOnce RowReadsTree
