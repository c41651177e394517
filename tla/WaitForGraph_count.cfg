CONSTANTS
  TxnId = {t1, t2, t3}
  MaxOut = 2
SPECIFICATION GraphSpec
INVARIANTS
  WaiterCountExact
