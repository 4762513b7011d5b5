SPECIFICATION Spec
CONSTANTS
  t1 = t1
  t2 = t2
  button = button
  c1 = c1
  c2 = c2
  a1 = a1
  a2 = a2
  a3 = a3
  a4 = a4
SYMMETRY Symmetry
VIEW View
INVARIANTS
  
  ReadersWake
  TimersCalled
  ModulesLoaded
PROPERTY
  BuffersAreQueues
