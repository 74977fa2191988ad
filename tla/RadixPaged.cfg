SPECIFICATION Spec
CONSTANTS
  PageSize = 2
  Reqs = {r1, r2}
  Inputs <- PagedInputs
  Tok = {2}
  MaxNew = 2
  NumPages = 5
  IsEagle = FALSE
  Overlap = TRUE
  ChunkSizes = {2}
  Aligned = TRUE
  BatchSlack = 2
SYMMETRY Symmetry
INVARIANTS StructureOK PageOwnedOnce LockRefExact SizesExact RowReadsTree
PROPERTY HeldPrefixStable
