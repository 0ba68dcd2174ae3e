SPECIFICATION Spec
CONSTANTS
  Logins = {c}
  Handlers = {h1, h2}
  MaxEnrolments = 1
  MaxStops = 1
INVARIANT TypeOK
PROPERTY Converges
