CONSTANTS
  small = small  oversized = oversized
  v1 = v1  v2 = v2
  NoValue = NoValue
  Idle = Idle
  Key = {small, oversized}
  Value = {v1, v2}
  Size <- MCSize
  MaxBytes <- MCMaxBytes
  MaxDebt = 0
  OversizeUpdates = TRUE
  Thread = {t1, t2}
  Content <- MCContent
  Reads <- MCReads
  Nobody = Nobody
SPECIFICATION DocSpec
INVARIANTS ReturnsOwnContent CacheSound
PROPERTIES CallReturns
