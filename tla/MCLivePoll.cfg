CONSTANTS
  ada = ada
  bob = bob
  Logins = {ada, bob}
  NoLogin = NoLogin
  FailureCap = 3
SYMMETRY Symmetry
SPECIFICATION PollSpec
INVARIANTS PollTypeOK ResultsOfOpenChannel TimerAndSnapshotAgree
PROPERTY NeverDropsThePoll
