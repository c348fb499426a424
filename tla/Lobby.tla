------------------------------- MODULE Lobby -------------------------------
(***************************************************************************)
(* What the signaling server promises its users, without tables, sockets   *)
(* or messages: a session has at most one place, as the sharer or a viewer *)
(* of one room; a place is taken only by a session that has none; a room   *)
(* has one sharer and at most MaxViewers viewers; and when the sharer gives*)
(* up its place, every viewer loses its own in the same step.              *)
(***************************************************************************)
EXTENDS Naturals, FiniteSets

CONSTANTS Sessions, RoomIds, None, MaxViewers

VARIABLE place   \* session -> its role and room

Nowhere == [role |-> "none", room |-> None]
Sharing(r) == [role |-> "sharer", room |-> r]
Watching(r) == [role |-> "viewer", room |-> r]

SharersOf(r) == {s \in Sessions : place[s] = Sharing(r)}
WatchersOf(r) == {s \in Sessions : place[s] = Watching(r)}

LobbyInit == place = [s \in Sessions |-> Nowhere]

Open(s, r) ==
  /\ place[s] = Nowhere
  /\ SharersOf(r) = {}
  /\ place' = [place EXCEPT ![s] = Sharing(r)]

Enter(s, r) ==
  /\ place[s] = Nowhere
  /\ SharersOf(r) # {}
  /\ Cardinality(WatchersOf(r)) < MaxViewers
  /\ place' = [place EXCEPT ![s] = Watching(r)]

StopWatching(s, r) ==
  /\ place[s] = Watching(r)
  /\ place' = [place EXCEPT ![s] = Nowhere]

StopSharing(s, r) ==
  /\ place[s] = Sharing(r)
  /\ place' = [t \in Sessions |-> IF t = s \/ t \in WatchersOf(r)
                                  THEN Nowhere ELSE place[t]]

LobbyNext ==
  \E s \in Sessions, r \in RoomIds :
    Open(s, r) \/ Enter(s, r) \/ StopWatching(s, r) \/ StopSharing(s, r)

LobbySpec == LobbyInit /\ [][LobbyNext]_place
=============================================================================
