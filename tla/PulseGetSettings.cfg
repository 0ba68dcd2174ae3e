CONSTANTS
  s1 = s1
  r1 = r1
  r2 = r2
  NoStream = NoStream
  Nothing = Nothing
  Streams = {s1}
  Requests = {r1}
  Asks <- OneAsk
  Events = {"navigate", "on", "off", "clear", "evict"}
  MinGap = 1
  Cooldown = 1
  Ttl = 1
SPECIFICATION Spec
PROPERTY OffStaysEmpty
