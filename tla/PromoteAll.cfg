\* A promotion of all secrets racing with an update of its source.
CONSTANTS
  t1 = t1
  t2 = t2
  t3 = t3
  NoTxn = NoTxn
  Envs <- TwoEnvs
  Keys <- TwoKeys
  Txns <- TwoTxns
  Targets <- TwoEnvs
  Seeded <- SourceFull
  MaxOps = 2
  Ops = {"update", "promote"}
  Polled = {}
SPECIFICATION Spec
INVARIANTS PromoteAll
CHECK_DEADLOCK FALSE
