CONSTANTS
  MaxDevices = 2
  MaxTurns = 1
  MaxWaiting = 2
  Calls = {"start", "restore", "everywhere", "disconnect"}
  Events = {"signIn", "remote", "lost", "busy", "die"}
SPECIFICATION Spec
INVARIANT TypeOK
PROPERTIES NeverReplayed DurableKept LeftOnlyAsKnown
