SPECIFICATION Spec
INVARIANTS
  ListsExact
  GapIsFound
  NoFrameTwice
  EveryFrameHasABit
PROPERTY
  KeepsPromise
