SPECIFICATION MCSpec
CONSTANTS
  Versions = {"3.3", "3.7", "3.8", "bad"}
  Offers <- MCOffers
  SubOffers <- MCSubOffers
  MaxPiece = 4
  Bodies <- MCBodies
  Notes <- MCNotes
  MaxAhead = 1
  RQSize = 2
  MaxGrow = 7
  Headroom = 2
  SQSize = 3
  Sizes = {1, 2, 4}
  MaxBytes = 12
  FbSizes = {1, 3}
  ScreenSizes = {1, 2, 4}
  Pans <- MCPans
INVARIANTS
  StreamTypeOK
  InStep
  NeverHangs
  EndsOnce
  PaintedInOrder
  QueueHolds
  ViewInside
  ViewFits
PROPERTIES
  ConnectionRefined
  DisconnectEnds
  LostAtLimit
CHECK_DEADLOCK FALSE
