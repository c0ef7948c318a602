SPECIFICATION TerminalSpec
CONSTANTS
  Session = {s1, s2}
  None = None
  MaxKeys = 2
  MaxClicks = 3
  MaxFaults = 2
SYMMETRY Symmetric
INVARIANTS InputArrivesInOrder TickedTerminalsHaveCards
CHECK_DEADLOCK FALSE
