SPECIFICATION Spec
CONSTANTS
  Procs = {p1, p2}
  Launches <- Relaunches
  OneLaunchPerName = FALSE
  Unset = Unset

PROPERTIES CollisionsAreNamesakes
