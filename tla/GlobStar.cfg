SPECIFICATION Call
CONSTANTS
  a = a
  b = b
  Star = Star
  QMark = QMark
  Slash = Slash
  None = None
  Chars <- MCChars
  Patterns <- MCPatterns
  Texts <- MCTexts
INVARIANT EveryMatchIsFound
CHECK_DEADLOCK FALSE
