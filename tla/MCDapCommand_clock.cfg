SPECIFICATION Spec
CONSTANTS
  MaxCommands = 4
  MaxItems = 3
  Bits = {0, 1, 9}
  Counts = {0, 2}
  Clocks = {10, 30, 400}
  Source = 800
  DefaultClock = 100
INVARIANT NeverFaster
