SPECIFICATION Spec
CONSTANTS
  Chars <- TwoChars
  Space = "a"
  Ascii <- OneLetter
  MaxLines = 3
  MaxLineLength = 3
  ViewportHeight = 2
  BufferSize = 6
  Texts <- MCTexts
  FsMayFail = {}
INVARIANTS CleanMeansSaved
