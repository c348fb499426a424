---------------------------- MODULE RoomManager ----------------------------
(***************************************************************************)
(* The room table of the signaling server                                  *)
(* (apps/signaling/src/room-manager.ts): who shares which room, who watches*)
(* it, and the reverse index from a session to "its" room.  The class knows*)
(* nothing of sockets; SignalingServer composes it with them.              *)
(*                                                                         *)
(* A Map entry that is absent in the code is None here: room r exists iff  *)
(* sharerId[r] # None, and a session has an index entry iff                *)
(* sessionRooms[s] # None.                                                 *)
(***************************************************************************)
EXTENDS Naturals, FiniteSets

CONSTANTS
  Sessions,    \* session ids (one randomUUID per WebSocket connection)
  RoomIds,     \* the ids generateRoomId may return
  None,        \* "no entry in the Map"
  MaxViewers   \* the constructor's maxViewers

ASSUME NoneAssumption == None \notin Sessions \union RoomIds
ASSUME MaxViewersAssumption == MaxViewers \in Nat

VARIABLES
  sharerId,      \* #rooms: room -> the session that shares it
  viewers,       \* #rooms: room -> the sessions that watch it
  sessionRooms   \* #sessionRooms: session -> the room it is indexed under

rmVars == <<sharerId, viewers, sessionRooms>>

RoomExists(r) == sharerId[r] # None

RMTypeOK ==
  /\ sharerId \in [RoomIds -> Sessions \union {None}]
  /\ viewers \in [RoomIds -> SUBSET Sessions]
  /\ sessionRooms \in [Sessions -> RoomIds \union {None}]
  /\ \A r \in RoomIds : ~RoomExists(r) => viewers[r] = {}

RMInit ==
  /\ sharerId = [r \in RoomIds |-> None]
  /\ viewers = [r \in RoomIds |-> {}]
  /\ sessionRooms = [s \in Sessions |-> None]
-----------------------------------------------------------------------------
(***************************************************************************)
(* What removing session s does: the kind of the RemovalEffect, and the    *)
(* tables that are left.  createRoom and the server's close handler go     *)
(* through the same code as an explicit leave.                             *)
(***************************************************************************)
RemovalKind(s) ==
  IF sessionRooms[s] = None THEN "none"
  ELSE IF ~RoomExists(sessionRooms[s]) THEN "none"
  ELSE IF sharerId[sessionRooms[s]] = s THEN "room-ended"
  ELSE "viewer-left"

SharersWithout(s) ==
  [r \in RoomIds |-> IF RemovalKind(s) = "room-ended" /\ r = sessionRooms[s]
                     THEN None ELSE sharerId[r]]

ViewersWithout(s) ==
  [r \in RoomIds |->
     IF r # sessionRooms[s] \/ RemovalKind(s) = "none" THEN viewers[r]
     ELSE IF RemovalKind(s) = "room-ended" THEN {} ELSE viewers[r] \ {s}]

\* Faulty variant: ending a room leaves its viewers in the reverse index.
IndexWithoutOnlySelf(s) == [sessionRooms EXCEPT ![s] = None]

IndexWithout(s) ==
  [t \in Sessions |->
     IF \/ t = s
        \/ RemovalKind(s) = "room-ended" /\ t \in viewers[sessionRooms[s]]
     THEN None ELSE sessionRooms[t]]

RemoveSession(s) ==
  /\ sharerId' = SharersWithout(s)
  /\ viewers' = ViewersWithout(s)
  /\ sessionRooms' = IndexWithout(s)

(***************************************************************************)
(* createRoom first removes the session from whatever room it is in, then  *)
(* draws ids until one is free: r is free after that removal.              *)
(***************************************************************************)
CreateRoom(s, r) ==
  /\ SharersWithout(s)[r] = None
  /\ sharerId' = [SharersWithout(s) EXCEPT ![r] = s]
  /\ viewers' = [ViewersWithout(s) EXCEPT ![r] = {}]
  /\ sessionRooms' = [IndexWithout(s) EXCEPT ![s] = r]

\* Faulty variant: the limit is tested with > instead of >=.
JoinResultOneTooMany(r, s) ==
  IF ~RoomExists(r) THEN "ROOM_NOT_FOUND"
  ELSE IF sharerId[r] = s \/ s \in viewers[r] THEN "ALREADY_IN_ROOM"
  ELSE IF Cardinality(viewers[r]) > MaxViewers THEN "ROOM_FULL"
  ELSE "ok"

JoinResult(r, s) ==
  IF ~RoomExists(r) THEN "ROOM_NOT_FOUND"
  ELSE IF sharerId[r] = s \/ s \in viewers[r] THEN "ALREADY_IN_ROOM"
  ELSE IF Cardinality(viewers[r]) >= MaxViewers THEN "ROOM_FULL"
  ELSE "ok"

\* Faulty variant: the viewer is added to the room and not to the index.
JoinRoomUnindexed(r, s) ==
  IF JoinResult(r, s) = "ok"
  THEN /\ viewers' = [viewers EXCEPT ![r] = @ \union {s}]
       /\ UNCHANGED <<sharerId, sessionRooms>>
  ELSE UNCHANGED rmVars

(***************************************************************************)
(* joinRoom overwrites the index entry of a session that is already in     *)
(* another room; it does not remove the session from that room.            *)
(***************************************************************************)
JoinRoom(r, s) ==
  IF JoinResult(r, s) = "ok"
  THEN /\ viewers' = [viewers EXCEPT ![r] = @ \union {s}]
       /\ sessionRooms' = [sessionRooms EXCEPT ![s] = r]
       /\ UNCHANGED sharerId
  ELSE UNCHANGED rmVars

RMNext ==
  \E s \in Sessions :
    \/ RemoveSession(s)
    \/ \E r \in RoomIds : CreateRoom(s, r) \/ JoinRoom(r, s)

RMSpec == RMInit /\ [][RMNext]_rmVars
-----------------------------------------------------------------------------
(***************************************************************************)
(* The reverse index is sound: a session indexed under a room finds that   *)
(* room alive and is its sharer or one of its viewers.  removeSession and  *)
(* getRoomForSession rely on it, whatever sequence of calls led here.      *)
(***************************************************************************)
IndexSound ==
  \A s \in Sessions : sessionRooms[s] # None =>
    LET r == sessionRooms[s] IN
    /\ RoomExists(r)
    /\ s = sharerId[r] \/ s \in viewers[r]

(***************************************************************************)
(* No sequence of joins, leaves and ended rooms lets a room hold more than *)
(* maxViewers viewers or count its own sharer among them.                  *)
(***************************************************************************)
ViewerCap ==
  \A r \in RoomIds :
    /\ IsFiniteSet(viewers[r])
    /\ Cardinality(viewers[r]) <= MaxViewers
    /\ sharerId[r] \notin viewers[r]

(***************************************************************************)
(* The index is complete: a room's sharer and viewers are indexed under it *)
(* and nowhere else, so every session is in at most one room.  This is not *)
(* an invariant of RMSpec (JoinRoom by a member of another room breaks it);*)
(* it is one when a session that is in a room never creates or joins.      *)
(***************************************************************************)
IndexComplete ==
  \A r \in RoomIds : RoomExists(r) =>
    \A s \in viewers[r] \union {sharerId[r]} : sessionRooms[s] = r
=============================================================================
