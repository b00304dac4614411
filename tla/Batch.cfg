\* Batches racing with writers of single secrets, rotation and environment deletion.
CONSTANTS
  t1 = t1
  t2 = t2
  t3 = t3
  NoTxn = NoTxn
  Envs <- TwoEnvs
  Keys <- TwoKeys
  Txns <- TwoTxns
  Targets <- FirstEnv
  Seeded <- Overlapping
  MaxOps = 2
  Ops = {"update", "create", "delete", "bulk", "import", "promote", "rotate", "envDelete"}
  Polled = {}
SPECIFICATION FairSpec
INVARIANTS StoreInv BulkComplete PromoteSelected ImportKeeps
PROPERTIES EveryTransactionEnds
CHECK_DEADLOCK FALSE
