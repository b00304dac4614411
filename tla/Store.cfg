\* Writes of one secret, key rotation and the runtime fetch.
CONSTANTS
  t1 = t1
  t2 = t2
  t3 = t3
  NoTxn = NoTxn
  Envs <- OneEnv
  Keys <- OneKey
  Txns <- TwoTxns
  Targets <- OneEnv
  Seeded <- FirstKey
  MaxOps = 3
  Ops = {"update", "notes", "rollback", "delete", "create", "rotate"}
  Polled = {1}
SPECIFICATION Spec
INVARIANTS EtagSound HistoryContiguous NoLostUpdate Decryptable OneActiveKey
PROPERTIES HistoryGrows RotationFences ImplementsStore
SYMMETRY Symmetry
