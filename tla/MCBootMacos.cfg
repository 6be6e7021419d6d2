SPECIFICATION Spec
CONSTANTS
  Procs = {p1, p2}
  Launches <- MCLaunches
  OneLaunchPerName = TRUE
  Unset = Unset

INVARIANTS TypeOK NoCollision SocketsLead ConsoleServed
PROPERTIES NvramKept
