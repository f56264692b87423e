\* Two withdrawals of 1 and 2 out of 2 or 3, two concurrent requests, two payments,
\* one failWithdrawal, two exceptions or crashes.
SPECIFICATION Spec
CONSTANTS
  i1 = i1
  i2 = i2
  w1 = w1
  w2 = w2
  Intents = {i1, i2}
  Amount <- MCAmount
  Funds = {2, 3}
  DailyCap = 3
  Workers = {w1, w2}
  MaxSettles = 2
  MaxFails = 1
  MaxFaults = 2
SYMMETRY MCSymmetry
INVARIANTS SettledWasReserved OneDebitPerWithdrawal PaidIsDebited
  PendingIsCovered NoneLeftCreated
CHECK_DEADLOCK FALSE
