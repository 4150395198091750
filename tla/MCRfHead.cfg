SPECIFICATION FairSpec
CONSTANTS
  Users = {u1}
  Channels <- MCChannels
  peer = peer
  Peers <- MCPeers
  Items <- MCItems
  RoomOf <- MCRoomOf
  Mine <- MCMine
  FirstKnown <- MCKnown
  HistoryLimit = 1
  HeaderLines = 1
  MaxLines = 2
INVARIANTS TypeOK LinesConserved LiveIsView ViewIsComplete
PROPERTIES OpensListed CommandsRun HeadCloses
CHECK_DEADLOCK FALSE
