SPECIFICATION Spec
CONSTANTS
  gen = gen
  crit = crit
  pub = pub
  start = start
  stop = stop
  restart = restart
  lgen = lgen
  lcrit = lcrit
  lpub = lpub
  ltake = ltake
  Ops = {gen, crit, pub}
  OpKind <- MCOpKind
  Loans = {lgen, lcrit, lpub}
  LoanOf <- MCLoanOf
  MaxReceipts = 3
  MaxScopes = 3
  Foreign = 0
  MaxFaults = 2
INVARIANTS TypeOK HistoryNeverDeniesASend OneUnresolvedEffect
PROPERTY PublicStopOvertakesOnlyLiveOwners
CHECK_DEADLOCK FALSE
