\* Two sessions, two keys (so two reversal keys), two calls each.
CONSTANTS
  s1 = s1
  s2 = s2
  k1 = k1
  k2 = k2
  None = None
  Sessions = {s1, s2}
  Keys = {k1, k2}
  Accounts <- MCAccounts
  UserAccounts <- MCUserAccounts
  Rank <- MCRank
  Movements <- MCMovements
  MaxCalls = 2
SPECIFICATION Spec
SYMMETRY Symmetry
INVARIANTS
  TypeOK
  NoOverdraft
  KeyOnce
  ReversedIffReversal
  AnswerIsPosted
  OwnPostsNeverDeadlock
PROPERTY ImplementsPromise
\* Once every session has made its calls the system rests.
CHECK_DEADLOCK FALSE
