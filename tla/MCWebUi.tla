------------------------------ MODULE MCWebUi -------------------------------
(* WebUi for TLC: a channel in which a post is received and one is written,   *)
(* another channel, and a peer a message is received from.                    *)
EXTENDS WebUi, TLC

MCItems == 1..3
MCRoomOf == <<"room", "room", "peer">>
MCOwn == {2}

SlotSymmetry == Permutations(Slots)
=============================================================================
