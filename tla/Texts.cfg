SPECIFICATION MCSpec
CHECK_DEADLOCK FALSE
CONSTANTS
  NoName = NoName
  Crash = Crash
  Outside = {}
  FileNames = {"a", "b"}
  C = 1
  Strings = {1, 2, 3, 4}
  KnownOS = {"linux", "android"}
  KnownArch = {"amd64"}
  Malformed = {"m@l"}
  TagNames = {"linux", "android", "amd64", "x", "cgo"}
  Parts = {"f", "g", "", "linux", "android", "amd64", "x", "test"}
  Paths = {"p", "q", "C", "rawC", "bad"}
  Literal <- MCLiteral
  Value <- MCValue
  Commands <- MCCommands
  Characters <- MCCharacters
  MaxText = 3
  MaxDiff = 5
  MaxLine = 6
INVARIANTS
  TxtarRight
  DiffRight
  BuildRight
  LineRight
