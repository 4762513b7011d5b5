SPECIFICATION Spec
CONSTANTS
  n1 = n1
  p1 = p1
  p2 = p2
  f1 = f1
  f2 = f2
SYMMETRY Symmetry
INVARIANTS
  ReferencesExact
  
  
  

  
