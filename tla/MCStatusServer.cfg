SPECIFICATION FairSpec
CONSTANTS
  Threads = {t1, t2}
  Ids <- BoardIds
  StateNames = {"panicked"}
  Bodies <- MCBodies
  Frames = {}
INVARIANTS TypeOK StatusWhole ListOrdered NoLostUpdate
PROPERTIES StatusStays LockReleased AtomicBoard
