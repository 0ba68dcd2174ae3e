CONSTANTS
  x = x
  y = y
  Moments = {x, y}
  BatchEntries = 1
  MaxTime = 3
  MaxSerial = 3
SYMMETRY Symmetry
SPECIFICATION Spec
INVARIANTS TypeOK NothingLeftUnsent NothingMissed ClearedStaysCleared ClearVoidsCaptures
PROPERTY JumpsLeaveByClearing
