\* One deposit served by two concurrent requests and the job; two callbacks,
\* rechecks or forced completions; two exceptions or crashes.
SPECIFICATION FairSpec
CONSTANTS
  i1 = i1
  i2 = i2
  w1 = w1
  w2 = w2
  Intents = {i1}
  Amount <- MCAmount
  DepositCap = 2
  Workers = {w1, w2}
  Job = Job
  MaxStarts = 2
  MaxFaults = 2
INVARIANTS TypeOK CreditedWasCollected OneCreditPerDeposit PaidIsCredited CollectedNeverFailed
PROPERTIES ExpiryNeverBuriesPaid PostsFitThePromise OpenIsClosed
CHECK_DEADLOCK FALSE
