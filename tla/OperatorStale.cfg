\* A spec change followed by a failed pass.
CONSTANTS
  p1 = p1
  p2 = p2
  NoName = NoName
  Envs = {"e", "f"}
  Keys = {"k"}
  Foreign = {"f"}
  Names = {"a", "b"}
  Passes <- TwoPasses
  Mixes <- FailedMix
  MaxVersion = 2
SPECIFICATION Spec
INVARIANTS ConditionalSafe
