SPECIFICATION Spec
CONSTANTS
  Numbers <- MCNumbers
  Earliest <- MCEarliest
  Latest = 4
  MaxMessages = 5
INVARIANTS TypeOK ArrivalKept SosAnnounced RoomSeesLocation
PROPERTY RefusedChangesNothing
CHECK_DEADLOCK FALSE
