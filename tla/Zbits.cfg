SPECIFICATION Spec
CONSTANTS
  a = a
  b = b
  Map <- Both
  Sizes <- OneWordOrTwo
  FileSizes <- OneWord
  Index <- Edges
  Beyond <- Neighbours
  MaxSearches = 2
INVARIANTS
  UsedCovers
  AnswersExact
PROPERTIES
  IsBitSet
\* A read outside the array ends the program.
CHECK_DEADLOCK FALSE
