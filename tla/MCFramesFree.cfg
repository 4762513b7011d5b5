SPECIFICATION Spec
INVARIANT
  FreeFindsFrames
