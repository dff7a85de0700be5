---------------------------- MODULE MCRoomLobby ----------------------------
(* RoomLobby for TLC: guests are alike, and so are users with an account.   *)
EXTENDS RoomLobby, TLC

Alike == Permutations(Sockets \ Accounts) \cup Permutations(Accounts)

\* What is made and what is lost: rooms, and the mappings of players who stay.
Budget == created + Cardinality(unmapped)

\* As many rooms as MaxRooms, or fewer and as many mappings that a kick or room:removeBot
\* takes.  Room:removeBot comes with any id.
SmallSpec == Init /\ [][Next /\ Budget' <= MaxRooms]_vars
=============================================================================
