CONSTANTS
  s1 = s1
  r1 = r1
  r2 = r2
  NoStream = NoStream
  Nothing = Nothing
  Streams = {s1}
  Requests = {r1}
  Asks <- AnswerAsks
  Events = {"navigate"}
  MinGap = 1
  Cooldown = 1
  Ttl = 1
SPECIFICATION FairSpec
PROPERTY EveryRequestEnds
