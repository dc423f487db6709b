SPECIFICATION Spec
CONSTANTS
  t1 = t1
  t2 = t2
  t3 = t3
  d1 = d1
  d2 = d2
  system = system
  instance = instance
  schema = schema
  Threads = {t1, t2, t3}
  Labels = {d1, d2, instance, schema}
  Keys = {d1, d2, system}
  KeyOf <- TheKeys
  NameOf <- TheNames
  LockRank <- TheLocks
  CommitRank <- TheCommits
  MaxRetries = 3
  Casts <- OneTransaction
  Unread = Unread
INVARIANTS
  ExceededMeansContended
CHECK_DEADLOCK FALSE
