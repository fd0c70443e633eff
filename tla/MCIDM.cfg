SPECIFICATION Spec
CONSTANTS
  Base = 1
  Size = 8
INVARIANTS NeverTakenTwice
PROPERTIES OnlyLostPastTheHead
