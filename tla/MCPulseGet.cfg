CONSTANTS
  s1 = s1
  r1 = r1
  r2 = r2
  NoStream = NoStream
  Nothing = Nothing
  Streams = {s1}
  Requests = {r1, r2}
  Asks <- PollAsks
  Events = {"restart"}
  MinGap = 1
  Cooldown = 1
  Ttl = 1
SYMMETRY Symmetry
SPECIFICATION Spec
INVARIANTS TypeOK RightStream
PROPERTY RevalidationsSpaced
