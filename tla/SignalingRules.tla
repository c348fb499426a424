-------------------------- MODULE SignalingRules --------------------------
(***************************************************************************)
(* The rules of the signaling server that depend on the room table alone:  *)
(* whom a client may address, and who hears of a departure                 *)
(* (apps/signaling/src/server.ts), with the messages they are told in      *)
(* (packages/signaling-protocol/src/messages.ts).  SignalingServer and     *)
(* SignalingLink put them behind two different views of the sockets.       *)
(***************************************************************************)
EXTENDS RoomManager

Silence == [type |-> "none"]
ErrorMsg(code) == [type |-> "error", code |-> code]
RoomCreated(r) == [type |-> "room-created", room |-> r]
RoomJoined(r, s) == [type |-> "room-joined", room |-> r, sharer |-> s]
ViewerJoined(s) == [type |-> "viewer-joined", viewer |-> s]
ViewerLeft(s) == [type |-> "viewer-left", viewer |-> s]
RoomEnded == [type |-> "room-ended"]

ErrorCodes == {"ROOM_NOT_FOUND", "ALREADY_IN_ROOM", "ROOM_FULL", "NOT_IN_ROOM",
               "NOT_AUTHORIZED", "RATE_LIMITED"}

Quiet == [s \in Sessions |-> Silence]
OnlyTo(s, m) == [Quiet EXCEPT ![s] = m]

\* Faulty variant: an ended room is announced to nobody.
DepartureMessagesNoRoomEnded(s) ==
  [t \in Sessions |->
     IF RemovalKind(s) = "viewer-left" /\ t = sharerId[sessionRooms[s]]
     THEN ViewerLeft(s) ELSE Silence]

\* Faulty variant: a leaving viewer is announced to nobody.
DepartureMessagesNoViewerLeft(s) ==
  [t \in Sessions |->
     IF RemovalKind(s) = "room-ended" /\ t \in viewers[sessionRooms[s]]
     THEN RoomEnded ELSE Silence]

(***************************************************************************)
(* announceDeparture applied to the effect of removing s: every viewer of  *)
(* an ended room hears room-ended; a leaving viewer is told to the sharer  *)
(* alone.                                                                  *)
(***************************************************************************)
DepartureMessages(s) ==
  [t \in Sessions |->
     CASE RemovalKind(s) = "room-ended" /\ t \in viewers[sessionRooms[s]] -> RoomEnded
       [] RemovalKind(s) = "viewer-left" /\ t = sharerId[sessionRooms[s]] -> ViewerLeft(s)
       [] OTHER -> Silence]

\* Faulty variant: membership of the room is enough, viewers reach each other.
ResolveTargetAnyMember(s, t) ==
  LET r == sessionRooms[s] IN
  IF r = None THEN "NOT_IN_ROOM"
  ELSE IF t \in viewers[r] \union {sharerId[r]} THEN "ok" ELSE "NOT_AUTHORIZED"

(***************************************************************************)
(* The authorization rule: a sharer reaches its own viewers, a viewer only *)
(* its sharer.                                                             *)
(***************************************************************************)
ResolveTarget(s, t) ==
  LET r == sessionRooms[s] IN
  IF r = None THEN "NOT_IN_ROOM"
  ELSE IF ~RoomExists(r) THEN "NOT_IN_ROOM"
  ELSE IF (IF sharerId[r] = s THEN t \in viewers[r] ELSE t = sharerId[r])
  THEN "ok" ELSE "NOT_AUTHORIZED"
=============================================================================
