SPECIFICATION Spec
CONSTANTS
  Emissions = {e1}
  MaxTickets = 2
  MaxIssued = 3
  MaxWaiting = 2
INVARIANT TypeOK
INVARIANT SentUnderConsent
INVARIANT DeadTicketsGrantNothing
PROPERTY ConsentKept
