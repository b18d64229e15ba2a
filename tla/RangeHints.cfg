SPECIFICATION HintSpec
CONSTANTS
  Start = 2
  End = 10
  Pages = {1, 2, 3}
  Hints = {2, 3, 4, 6, 7, 8, 9}
INVARIANT PagesAsGranted
