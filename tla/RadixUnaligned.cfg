SPECIFICATION Spec
CONSTANTS
  PageSize = 2
  Reqs = {r1, r2}
  Inputs <- TwinInputs
  Tok = {2}
  MaxNew = 2
  NumPages = 7
  IsEagle = FALSE
  Overlap = TRUE
  ChunkSizes = {1, 2}
  Aligned = FALSE
  BatchSlack = 2
SYMMETRY Symmetry
INVARIANT RowReadsTree
