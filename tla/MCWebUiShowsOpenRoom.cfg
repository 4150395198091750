SPECIFICATION Spec
CONSTANTS
  Channels = {"room", "other"}
  Peers = {"peer"}
  Items <- MCItems
  RoomOf <- MCRoomOf
  Own <- MCOwn
  PageLimit = 1
  Slots = {s1, s2}
  MaxQueue = 2
INVARIANT ShowsOpenRoom
CHECK_DEADLOCK FALSE
