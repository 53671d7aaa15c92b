CONSTANTS
  CR = CR
  LF = LF
  NUL = NUL
  Text = {x}
  Size = 8
SPECIFICATION Spec
INVARIANTS TypeOK NewlineAloneIsBad
PROPERTIES ImplementsStream ScanAdvances
