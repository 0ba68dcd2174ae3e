SPECIFICATION Spec
CONSTANTS
  ada = ada
  bob = bob
  m1 = m1
  m2 = m2
  Accounts = {ada, bob}
  Local = Local
  Moments = {m1, m2}
  Mixes <- SomeMixes
  MaxQueue = 1
  MaxEpoch = 2
INVARIANTS TypeOK SavesKept RecordedWhereTimed
INVARIANT ForgottenStaysForgotten
PROPERTY NotesKept
