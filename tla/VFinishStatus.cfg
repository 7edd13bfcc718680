SPECIFICATION RunsvSpec
CONSTANTS
  MaxProcs = 3
  MaxLetters = 1
  MainLetters = {"d", "x"}
  LogLetters = {"t"}
  Handled = {}
INVARIANT FinishGetsItsStatus
