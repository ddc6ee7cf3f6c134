\* Bytes of four values; codes of 3 and 4 bits, the table never full.
SPECIFICATION Spec
CONSTANTS
  Bytes = 4
  Base = 5
  HexBase = 2
  MinBits = 3
  MaxBits = 4
  MaxCodes = 6
  Documents <- MCDocuments
INVARIANTS
  BytesComeBack
  DecodesCodes
  StringsEnd
  Resynchronises
  TextIsShown
CHECK_DEADLOCK FALSE
