SPECIFICATION Spec
CONSTANTS
  MaxCommands = 4
  MaxItems = 3
  Bits = {0, 1, 9}
  Counts = {0, 2}
  Clocks = {0, 2, 10, 400, 1000}
  Source = 800
  DefaultClock = 100
INVARIANTS TypeOK Aligned NeverFaster
