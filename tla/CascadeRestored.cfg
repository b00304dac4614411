\* Two deletions and a restore of one environment racing with a create.
CONSTANTS
  t1 = t1
  t2 = t2
  t3 = t3
  NoTxn = NoTxn
  Envs <- TwoEnvs
  Keys <- OneKey
  Txns <- ThreeTxns
  Targets <- TwoEnvs
  Seeded <- NoSecret
  MaxOps = 4
  Ops = {"create", "envDelete", "envRestore"}
  Polled = {}
SPECIFICATION Spec
INVARIANTS CascadeRestored
SYMMETRY Symmetry
CHECK_DEADLOCK FALSE
