SPECIFICATION Spec
CONSTANTS
  i1 = i1  i2 = i2  payee = payee  r1 = r1  r2 = r2  s1 = s1  s2 = s2  x1 = x1
  NoValue = NoValue
  Nil <- NoValue
  Payees = {payee}
  Intents = {i1}
  CreateInputs <- AllInputs
  RefundAmounts <- Amounts
  Requests = {r1, r2}
  Settlers = {s1}
  Expirers = {x1}
  SweepBatch = 1
  Faults <- AllFaults
  MaxBankCalls = 1
  Word = 8
SYMMETRY Symmetry
INVARIANTS TypeOK BooksMatchStatus OutboxTellsHistory BankBacksLedger PostingsAccepted EscrowFullyBacked
PROPERTY ImplementsLifecycle
