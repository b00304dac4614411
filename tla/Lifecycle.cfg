\* Deletion and recovery of environments racing with writers of their secrets.
CONSTANTS
  t1 = t1
  t2 = t2
  t3 = t3
  NoTxn = NoTxn
  Envs <- TwoEnvs
  Keys <- OneKey
  Txns <- TwoTxns
  Targets <- TwoEnvs
  Seeded <- FirstKey
  MaxOps = 4
  Ops = {"create", "delete", "envDelete", "envRestore"}
  Polled = {1}
SPECIFICATION Spec
INVARIANTS StoreInv CascadeStamped
PROPERTIES NoSilentRevival
SYMMETRY Symmetry
CHECK_DEADLOCK FALSE
