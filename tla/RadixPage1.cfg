SPECIFICATION Spec
CONSTANTS
  PageSize = 1
  Reqs = {r1, r2}
  Inputs <- PlainInputs
  Tok = {2}
  MaxNew = 2
  NumPages = 5
  IsEagle = FALSE
  Overlap = FALSE
  ChunkSizes = {1}
  Aligned = TRUE
  BatchSlack = 1
SYMMETRY Symmetry
INVARIANTS TypeOK PageOwnedOnce RowReadsTree
