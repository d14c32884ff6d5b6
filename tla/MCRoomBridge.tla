---------------------------- MODULE MCRoomBridge ----------------------------
(* Instances of RoomBridge: the model values, and the sets built from them *)
(* that the configurations choose among.                                   *)
EXTENDS RoomBridge, TLC

CONSTANTS t1, t2, slack, m1, m2, m3, n1, c1, c2, c3

TwoTasks == {t1, t2}
OneRoom == {m1}
TwoRooms == {m1, m2}
ThreeRooms == {m1, m2, m3}
OneNewRoom == {n1}
TwoChannels == {c1, c2}
ThreeChannels == {c1, c2, c3}
NoRooms == {}
CacheRequests == Request \ {"bridge"}
LimitedRequests == {"bridge", "encrypt"}

(* Tasks and channels are interchangeable, and so are existing rooms.      *)
Symmetry == Permutations(Tasks) \cup Permutations(Channels) \cup Permutations(Rooms)
=============================================================================
