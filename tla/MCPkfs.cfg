SPECIFICATION FairSpec
CONSTANTS
  LastPage = 8
  Children = 2
  Name = {a, b}
  NoName = NoName
INVARIANT
  TreeSound
  FirstFreeIsFree
PROPERTY
  CallReturns
