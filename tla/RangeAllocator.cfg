SPECIFICATION FairSpec
CONSTANTS
  Start = 2
  End = 10
  Pages = {1, 2, 3}
  Hints = {3, 4, 6, 10}
INVARIANTS RangesTile UsedIsGranted NoSpuriousFailure
PROPERTIES RangesAreAllocator MergeEnds
