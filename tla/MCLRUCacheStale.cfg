CONSTANTS
  empty = empty  one = one  two = two  three = three  four = four
  NoValue = NoValue
  Idle = Idle
  Key = {k1, k2}
  Value = {empty, one, two, three, four}
  Size <- MCSize
  MaxBytes <- MCMaxBytes
  MaxDebt = 3
  OversizeUpdates = TRUE
SPECIFICATION Spec
PROPERTIES PutUpdates
