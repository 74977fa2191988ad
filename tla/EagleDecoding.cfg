SPECIFICATION Spec
CONSTANTS
  V = 4
  PadTo = 3
  EOS = 3
  NumPages = 10
  RowLen = 12
  Configs <- Decoding
INVARIANTS CommittedKV PagesConserved BestOfKept
PROPERTIES GreedyExact AcceptsLongest
