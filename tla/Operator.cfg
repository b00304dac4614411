\* Two leaders on one resource and on two, and one leader while specs change.
CONSTANTS
  p1 = p1
  p2 = p2
  NoName = NoName
  Envs = {"e", "f"}
  Keys = {"k"}
  Foreign = {"f"}
  Names = {"a", "b"}
  Passes <- TwoPasses
  Mixes <- AllMixes
  MaxVersion = 2
SPECIFICATION FairSpec
INVARIANTS ConditionalInv ConditionalSafe
PROPERTIES ForeignKept OwnerKept Converges
CHECK_DEADLOCK FALSE
