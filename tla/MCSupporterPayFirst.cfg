SPECIFICATION Spec
CONSTANTS
  Accounts = {a, b}
  None = None
  MaxNow = 1
  MaxAttempts = 2
SYMMETRY Symmetry
INVARIANT TypeOK
INVARIANT PaymentsRemembered
INVARIANT OnePayment
