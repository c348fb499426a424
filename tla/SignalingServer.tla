-------------------------- MODULE SignalingServer --------------------------
(***************************************************************************)
(* The signaling server (apps/signaling/src/server.ts) around the room     *)
(* table of RoomManager: sessions and their sockets, one action per message*)
(* handler, departures, the heartbeat and shutdown.  Node runs each handler*)
(* to completion, so each one is a single atomic step.                     *)
(*                                                                         *)
(* `sent` is what the last step pushed, at most one message per session.   *)
(* `view` is what each connected client knows once its channel has drained:*)
(* sockets are FIFO and lossless while they last, so it is the fold of the *)
(* messages pushed to it (see ToldBy).                                     *)
(***************************************************************************)
EXTENDS SignalingRules

CONSTANT OneRole   \* TRUE: a client creates or joins only when it is in no room
ASSUME OneRoleAssumption == OneRole \in BOOLEAN

VARIABLES
  status,   \* life of a session and its socket, see Statuses
  alive,    \* Session.alive: a pong came since the last heartbeat
  up,       \* FALSE once the server's close() was called
  sent,     \* session -> the message the last step pushed to it, or Silence
  view      \* session -> what its client has been told

ssVars == <<sharerId, viewers, sessionRooms, status, alive, up, sent, view>>

(***************************************************************************)
(* "new": not connected yet.  "open": connected.  "lost": the peer vanished*)
(* with no FIN, the server still sees an OPEN socket.  "closing": socket no*)
(* longer OPEN (client closed, or terminate()), 'close' not emitted yet.   *)
(* "gone": 'close' handled.  Ids are UUIDs, a gone one never comes back.   *)
(***************************************************************************)
Statuses == {"new", "open", "lost", "closing", "gone"}
Live(s) == status[s] \in {"open", "lost", "closing"}   \* in the `sessions` map
SocketOpen(s) == status[s] \in {"open", "lost"}        \* readyState = OPEN

\* offer, answer and ice-candidate are relayed alike; their payload is opaque.
Signal(s) == [type |-> "signal", from |-> s]

Messages ==
  {Silence, RoomEnded} \union {ErrorMsg(c) : c \in ErrorCodes}
  \union {RoomCreated(r) : r \in RoomIds}
  \union {RoomJoined(r, s) : r \in RoomIds, s \in Sessions}
  \union UNION {{ViewerJoined(s), ViewerLeft(s), Signal(s)} : s \in Sessions}

Views == [shares : RoomIds \union {None}, peers : SUBSET Sessions,
          watches : RoomIds \union {None}, of : Sessions \union {None}]
Blank == [shares |-> None, peers |-> {}, watches |-> None, of |-> None]

SSTypeOK ==
  /\ RMTypeOK
  /\ status \in [Sessions -> Statuses]
  /\ alive \in [Sessions -> BOOLEAN]
  /\ up \in BOOLEAN
  /\ sent \in [Sessions -> Messages]
  /\ view \in [Sessions -> Views]
  /\ \A s \in Sessions : /\ ~Live(s) => sessionRooms[s] = None
                         /\ status[s] # "open" => view[s] = Blank

SSInit ==
  /\ RMInit
  /\ status = [s \in Sessions |-> "new"]
  /\ alive = [s \in Sessions |-> FALSE]
  /\ up = TRUE
  /\ sent = [s \in Sessions |-> Silence]
  /\ view = [s \in Sessions |-> Blank]
-----------------------------------------------------------------------------
(***************************************************************************)
(* What a client knows after message m: the handlers of the desktop's      *)
(* SharingManager (room-created, viewer-joined, viewer-left) and           *)
(* ViewingManager (room-joined, room-ended), reduced to membership.        *)
(***************************************************************************)
ToldBy(m, v) ==
  CASE m.type = "room-created" -> [v EXCEPT !.shares = m.room, !.peers = {}]
    [] m.type = "room-joined" -> [v EXCEPT !.watches = m.room, !.of = m.sharer]
    [] m.type = "viewer-joined" -> [v EXCEPT !.peers = @ \union {m.viewer}]
    [] m.type = "viewer-left" -> [v EXCEPT !.peers = @ \ {m.viewer}]
    [] m.type = "room-ended" -> [v EXCEPT !.watches = None, !.of = None]
    [] OTHER -> v

(***************************************************************************)
(* send and sendTo: a message for a session that is not in the map, or     *)
(* whose socket is not OPEN, is dropped.  A lost client hears nothing.     *)
(* known[s] is the client's knowledge before it hears this step's message. *)
(***************************************************************************)
Deliver(msgs, known) ==
  /\ sent' = [s \in Sessions |-> IF SocketOpen(s) THEN msgs[s] ELSE Silence]
  /\ view' = [s \in Sessions |-> IF status[s] = "open"
                                 THEN ToldBy(msgs[s], known[s]) ELSE known[s]]

Reply(s, m) == Deliver(OnlyTo(s, m), view)
-----------------------------------------------------------------------------
(***************************************************************************)
(* Message handlers.  The socket's frames are handled until 'close' is     *)
(* emitted, so a closing session may still be heard.  What a lost client   *)
(* had in flight counts as received before it vanished.                    *)
(***************************************************************************)
Heard(s) == status[s] \in {"open", "closing"}
MayEnterRoom(s) == Heard(s) /\ (OneRole => sessionRooms[s] = None)

\* The bucket is empty or the frame does not parse: an error and nothing else.
HandleRefused(s) ==
  /\ Heard(s)
  /\ Reply(s, ErrorMsg("RATE_LIMITED"))
  /\ UNCHANGED <<rmVars, status, alive, up>>

\* The effect of leaving the previous room is not announced to anybody.
HandleCreateRoom(s, r) ==
  /\ MayEnterRoom(s)
  /\ CreateRoom(s, r)
  /\ Reply(s, RoomCreated(r))
  /\ UNCHANGED <<status, alive, up>>

HandleJoinRoom(s, r) ==
  /\ MayEnterRoom(s)
  /\ JoinRoom(r, s)
  /\ IF JoinResult(r, s) # "ok" THEN Reply(s, ErrorMsg(JoinResult(r, s)))
     ELSE Deliver([Quiet EXCEPT ![s] = RoomJoined(r, sharerId[r]),
                                ![sharerId[r]] = ViewerJoined(s)], view)
  /\ UNCHANGED <<status, alive, up>>

(***************************************************************************)
(* The client dropped its manager before it sent leave-room.  A client     *)
(* whose other manager is in a room keeps that one (viewing-manager.ts:82):*)
(* OneRole leaves such clients out, ScreenShare has them.                  *)
(***************************************************************************)
HandleLeaveRoom(s) ==
  /\ Heard(s)
  /\ RemoveSession(s)
  /\ LET known == [view EXCEPT ![s] = Blank] IN
     IF RemovalKind(s) = "none" THEN Deliver(OnlyTo(s, ErrorMsg("NOT_IN_ROOM")), known)
     ELSE Deliver(DepartureMessages(s), known)
  /\ UNCHANGED <<status, alive, up>>

HandleSignal(s, t) ==
  /\ Heard(s)
  /\ IF ResolveTarget(s, t) = "ok" THEN Deliver(OnlyTo(t, Signal(s)), view)
     ELSE Reply(s, ErrorMsg(ResolveTarget(s, t)))
  /\ UNCHANGED <<rmVars, status, alive, up>>
-----------------------------------------------------------------------------
(***************************************************************************)
(* Sockets, the heartbeat timer and shutdown.                              *)
(***************************************************************************)
Connect(s) ==
  /\ up /\ status[s] = "new"
  /\ status' = [status EXCEPT ![s] = "open"]
  /\ alive' = [alive EXCEPT ![s] = TRUE]
  /\ sent' = Quiet
  /\ UNCHANGED <<rmVars, up, view>>

\* The client vanishes and nobody is told: crash, sleep, network gone.
Vanish(s) ==
  /\ status[s] = "open"
  /\ status' = [status EXCEPT ![s] = "lost"]
  /\ view' = [view EXCEPT ![s] = Blank]
  /\ sent' = Quiet
  /\ UNCHANGED <<rmVars, alive, up>>

\* The client closes its socket, or TCP reports it broken.
Disconnect(s) ==
  /\ SocketOpen(s)
  /\ status' = [status EXCEPT ![s] = "closing"]
  /\ view' = [view EXCEPT ![s] = Blank]
  /\ sent' = Quiet
  /\ UNCHANGED <<rmVars, alive, up>>

\* The pong a connected client answers a ping with.
Pong(s) ==
  /\ status[s] = "open" /\ ~alive[s]
  /\ alive' = [alive EXCEPT ![s] = TRUE]
  /\ sent' = Quiet
  /\ UNCHANGED <<rmVars, status, up, view>>

\* Faulty variant: the heartbeat pings and never terminates anything.
NoSilentSession(s) == FALSE

\* A session that did not answer the last ping is terminated by this one.
HeartbeatSilentSession(s) == SocketOpen(s) /\ ~alive[s]

Heartbeat ==
  /\ up
  /\ \E s \in Sessions : Live(s)
  /\ status' = [s \in Sessions |-> IF HeartbeatSilentSession(s) THEN "closing"
                                   ELSE status[s]]
  /\ alive' = [s \in Sessions |-> FALSE]
  /\ view' = [s \in Sessions |-> IF HeartbeatSilentSession(s) THEN Blank ELSE view[s]]
  /\ sent' = Quiet
  /\ UNCHANGED <<rmVars, up>>

\* The 'close' event: the session leaves the map first, then its room.
Close(s) ==
  /\ status[s] = "closing"
  /\ status' = [status EXCEPT ![s] = "gone"]
  /\ alive' = [alive EXCEPT ![s] = FALSE]
  /\ RemoveSession(s)
  /\ Deliver(DepartureMessages(s), view)
  /\ UNCHANGED up

\* close(): the heartbeat stops and every socket is terminated.
Shutdown ==
  /\ up /\ up' = FALSE
  /\ status' = [s \in Sessions |-> IF SocketOpen(s) THEN "closing" ELSE status[s]]
  /\ view' = [s \in Sessions |-> Blank]
  /\ sent' = Quiet
  /\ UNCHANGED <<rmVars, alive>>

SSNext ==
  \/ \E s \in Sessions :
       \/ Connect(s) \/ Vanish(s) \/ Disconnect(s) \/ Pong(s) \/ Close(s)
       \/ HandleRefused(s) \/ HandleLeaveRoom(s)
       \/ \E r \in RoomIds : HandleCreateRoom(s, r) \/ HandleJoinRoom(s, r)
       \/ \E t \in Sessions : HandleSignal(s, t)
  \/ Heartbeat \/ Shutdown

SSSpec == SSInit /\ [][SSNext]_ssVars

(***************************************************************************)
(* The interval timer keeps firing and Node emits 'close' for a socket     *)
(* that was terminated; nothing is assumed of the clients.                 *)
(***************************************************************************)
SSFairSpec == SSSpec /\ WF_ssVars(Heartbeat) /\ \A s \in Sessions : WF_ssVars(Close(s))
-----------------------------------------------------------------------------
KnowsItsPlace(s) ==
  \A r \in RoomIds :
    /\ sharerId[r] = s <=> view[s].shares = r
    /\ sharerId[r] = s => view[s].peers = viewers[r]
    /\ s \in viewers[r] <=> view[s].watches = r
    /\ s \in viewers[r] => view[s].of = sharerId[r]

(***************************************************************************)
(* What a connected client has been told is what the server holds: it      *)
(* shares a room iff the server says so and then knows exactly the viewers *)
(* in it, and it watches a room iff it is among that room's viewers.  This *)
(* is what the desktop's peer connections hang on: a viewer the sharer was *)
(* not told of gets no offer, a room-ended that never came leaves a frozen *)
(* picture.                                                                *)
(***************************************************************************)
MembershipAgrees ==
  \A s \in Sessions : status[s] = "open" => KnowsItsPlace(s)

(***************************************************************************)
(* An offer, answer or candidate is relayed only to a client that already  *)
(* knows its sender: a viewer hears its sharer only after room-joined named*)
(* it, a sharer hears a viewer only after viewer-joined and before         *)
(* viewer-left announced it.                                               *)
(***************************************************************************)
SignalsBetweenAcquainted ==
  \A s, t \in Sessions : sent[t] = Signal(s) /\ status[t] = "open" =>
    \/ view[t].watches # None /\ view[t].of = s
    \/ view[t].shares # None /\ s \in view[t].peers

(***************************************************************************)
(* Whenever a room ends, by leave-room or 'close', the same step sends     *)
(* room-ended to each of its viewers whose socket is open.  A sharer that  *)
(* sends create-room from inside its room ends it too (server.ts:114,      *)
(* room-manager.ts:43), and nobody is told: OneRole leaves that case out.  *)
(***************************************************************************)
EndedRoomIsTold ==
  [][\A r \in RoomIds : sharerId[r] # None /\ sharerId'[r] # sharerId[r] =>
       \A v \in viewers[r] : status[v] = "open" => sent'[v] = RoomEnded]_ssVars

(***************************************************************************)
(* A session whose client vanished is found out by the heartbeat and       *)
(* forgotten, with its place and, if it shared, with its whole room.       *)
(***************************************************************************)
VanishedIsForgotten ==
  \A s \in Sessions : status[s] = "lost" ~>
    /\ status[s] = "gone"
    /\ \A r \in RoomIds : sharerId[r] # s /\ s \notin viewers[r]

(***************************************************************************)
(* The server implements Lobby as long as no client enters a room while it *)
(* is in one: the place of a session is what the reverse index says.       *)
(***************************************************************************)
PlaceInIndex ==
  [s \in Sessions |->
     [role |-> IF sessionRooms[s] = None THEN "none"
               ELSE IF sharerId[sessionRooms[s]] = s THEN "sharer" ELSE "viewer",
      room |-> sessionRooms[s]]]

L == INSTANCE Lobby WITH place <- PlaceInIndex

ImplementsLobby == L!LobbySpec
=============================================================================
