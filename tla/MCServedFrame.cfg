SPECIFICATION Spec
CONSTANTS
  Threads = {t1, t2}
  Ids <- ImageIds
  StateNames = {"panicked"}
  Bodies <- NoBodies
  Frames = {"f1", "f2"}
INVARIANTS ServedFrameWhole
