\* A key of the target is changed by hand.
CONSTANTS
  p1 = p1
  p2 = p2
  NoName = NoName
  Envs = {"e", "f"}
  Keys = {"k"}
  Foreign = {"f"}
  Names = {"a", "b"}
  Passes <- TwoPasses
  Mixes <- HandMix
  MaxVersion = 1
SPECIFICATION Spec
INVARIANTS EditsNoticed
