SPECIFICATION ExoSpec
CONSTANTS
  Strings = {a, b}
  Chars = {1, 2}
  MaxLength = 3
  Npos = 9
  Positions = {0, 1, 2, 3, 4}
  Aliasing = FALSE
  MaxValue = 3
  MaxShort = 6
  MaxLong = 8
  Capacity = 5
  MaxSum = 9
  kMaxTextLen = 9
  INF = 100
INVARIANTS
  AnswersAgree
  SequenceKernelsAgree
  GraphKernelsAgree
PROPERTIES
  ActsAsString
CHECK_DEADLOCK TRUE
