CONSTANTS
  MaxDevices = 2
  MaxTurns = 1
  MaxWaiting = 2
  Calls = {"use", "everywhere", "connect", "restore", "cancel", "disconnect"}
  Events = {"signIn", "busy", "garble"}
SPECIFICATION FairSpec
PROPERTIES OutdatedStoresNothing QueueDrains
