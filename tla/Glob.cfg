SPECIFICATION FairCall
CONSTANTS
  a = a
  b = b
  Star = Star
  QMark = QMark
  Slash = Slash
  None = None
  Chars <- MCChars
  Patterns <- MCPatterns
  Texts <- MCTexts
INVARIANTS CallTypeOK MatchIsSound MatchIsComplete
PROPERTIES Returns
CHECK_DEADLOCK FALSE
