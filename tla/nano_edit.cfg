SPECIFICATION Spec
CONSTANTS
  Chars <- TwoChars
  Space = "a"
  Ascii <- OneLetter
  MaxLines = 3
  MaxLineLength = 3
  ViewportHeight = 2
  BufferSize = 10
  Texts <- MCTexts
  FsMayFail = {"write"}
INVARIANTS TypeOK CleanMeansSaved
PROPERTIES OneEdit LossOnlyIfAsked MovingShowsCursor
CONSTRAINT SmallFile
