\* One console page: every mix of Users, two calls of the user, or three.
CONSTANTS
  e1 = e1
  e2 = e2
  e3 = e3
  NoEnv = NoEnv
  Envs <- ThreeEnvs
  Keys <- TwoKeys
  Texts <- TwoTexts
  PageSize = 1
  MaxOthers = 1
  Start <- AtFirst
  Mixes <- Users
SPECIFICATION FairSpec
INVARIANTS ConsoleInv RowsCommitted NoBlindOverwrite SelectionKept TabsAgree
PROPERTIES Remasks
CHECK_DEADLOCK FALSE
