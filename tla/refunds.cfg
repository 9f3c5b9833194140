SPECIFICATION Spec
CONSTANTS
  a = a
  b = b
  NoRefund = NoRefund
  Refunds = {a, b}
  Cents <- AmountsOf
  Paid = 3
  Settings <- SettingsOf
  MaxTime = 2
INVARIANTS NoDoubleCount SettledTotal OneReceipt
PROPERTIES RefundStands
CHECK_DEADLOCK FALSE
