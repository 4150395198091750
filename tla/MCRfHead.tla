------------------------------ MODULE MCRfHead ------------------------------
(* RfHead with two channels and one peer, two items of somebody else in the   *)
(* first channel and an own one in each room.                                 *)
EXTENDS RfHead

CONSTANT peer

MCChannels == {1, 2}
MCPeers == {peer}
MCItems == 1..5
MCRoomOf == <<1, 1, 1, 2, peer>>
MCMine == {2, 4, 5}
MCKnown == {2}
=============================================================================
