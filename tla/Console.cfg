SPECIFICATION Spec
CONSTANTS
  a = "a"
  x = "x"
  p = "p"
  Width = 6
  Height = 2
  Range16 = 64
  Left = "l"
  MaxInt = 127
  TextSize = 5
  Chars <- TheChars
  Outputs <- TheOutputs
  Codes <- TheCodes
  Greeting <- TheGreeting
  Banner <- TheBanner
  Prefix <- ThePrefix
  LineSize = 5
  MaxArgument = 3
  MaxKeys = 6
  MaxOutputs = 1
INVARIANTS
  TypeOK
  ScreenShowsPage
  EchoIsLine
  ArgumentsAreWords
PROPERTY CodeIsShown
CHECK_DEADLOCK FALSE
