SPECIFICATION FairImages
CONSTANTS
  Threads = {t1, t2, t3}
  Ids <- ImageIds
  StateNames = {"panicked"}
  Bodies <- NoBodies
  Frames = {"f1", "f2"}
PROPERTIES ImagesNeverWait
