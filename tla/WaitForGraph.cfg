CONSTANTS
  TxnId = {t1, t2, t3}
  MaxOut = 3
SPECIFICATION GraphSpec
INVARIANTS
  GraphTypeOK
  SearchCorrect
  NoSelfDeadlock
  PathExact
  ExploredClosed
PROPERTY
  SearchEnds
