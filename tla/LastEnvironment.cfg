\* Concurrent deletions of the last two environments.
CONSTANTS
  t1 = t1
  t2 = t2
  t3 = t3
  NoTxn = NoTxn
  Envs <- TwoEnvs
  Keys <- OneKey
  Txns <- TwoTxns
  Targets <- TwoEnvs
  Seeded <- NoSecret
  MaxOps = 2
  Ops = {"envDelete"}
  Polled = {}
SPECIFICATION Spec
INVARIANTS LastEnvironment
CHECK_DEADLOCK FALSE
