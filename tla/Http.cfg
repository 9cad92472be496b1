SPECIFICATION Spec
CONSTANTS
  Profiles <- MCProfiles
  MaxPiece = 3
  Unwritten <- MCUnwritten
CHECK_DEADLOCK FALSE
INVARIANTS RequestArrives BodyDeliveredWhole
