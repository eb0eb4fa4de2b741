SPECIFICATION FairSpec
CONSTANTS
  s1 = s1
  s2 = s2
  k = k
  Senders = {s1, s2}
  Keeper = k
  NTx = 2
  NRx = 2
  MaxTroubles = 2
INVARIANTS
  TypeOK
  WholePool
  RestartAlone
PROPERTIES
  NobodySleepsOn
  LinkReturns
  TeardownEnds
