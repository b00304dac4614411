\* A user who imports a text, and edits it while its preview is awaited.
CONSTANTS
  e1 = e1
  e2 = e2
  e3 = e3
  NoEnv = NoEnv
  Envs <- ThreeEnvs
  Keys <- TwoKeys
  Texts <- TwoTexts
  PageSize = 1
  MaxOthers = 1
  Start <- AtFirst
  Mixes <- ImportUsers
SPECIFICATION Spec
INVARIANTS ImportReviewed
CHECK_DEADLOCK FALSE
