SPECIFICATION Spec
CONSTANTS
  Channels = {a, b}
  Vods = {v, w}
  Nowhere = Nowhere
  MaxWaiting = 2
INVARIANT TypeOK
INVARIANT PollFollowsRoute
PROPERTY GrowingVodPolled
PROPERTY ShowsSession
PROPERTY Settles
