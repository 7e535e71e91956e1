CONSTANTS
  Texts <- MCTexts
  Strings <- MCStrings
  Blank = {" "}
  Newline = "nl"
  EOF = "eof"
SPECIFICATION FairSpec
CHECK_DEADLOCK FALSE
INVARIANTS
  TypeOK
  HitsExact
  PositionsExact
PROPERTIES
  Ends
