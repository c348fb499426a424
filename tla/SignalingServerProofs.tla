----------------------- MODULE SignalingServerProofs -----------------------
(***************************************************************************)
(* Theorems about the signaling server, for any sets of sessions and rooms *)
(* and any viewer limit.  The server drives the room table only through    *)
(* the operations of RoomManager, so what is proved of the table carries   *)
(* over; what needs the clients to keep to one room assumes OneRole.  Then *)
(* the server as an implementation of Lobby, and the rate limiter that     *)
(* guards each of its connections.                                         *)
(***************************************************************************)
EXTENDS SignalingServer, RoomManagerProofs, TokenBucket

(***************************************************************************)
(* Every step of the server is a step of the room table or leaves it alone.*)
(***************************************************************************)
LEMMA ServerStepIsTableStep == [SSNext]_ssVars => [RMNext]_rmVars
<1> SUFFICES ASSUME [SSNext]_ssVars PROVE [RMNext]_rmVars
  OBVIOUS
<1>1. CASE UNCHANGED ssVars
  BY <1>1 DEF ssVars, rmVars
<1>2. ASSUME NEW s \in Sessions, HandleLeaveRoom(s) \/ Close(s)
      PROVE  [RMNext]_rmVars
  BY <1>2 DEF HandleLeaveRoom, Close, RMNext
<1>3. ASSUME NEW s \in Sessions, NEW r \in RoomIds,
             HandleCreateRoom(s, r) \/ HandleJoinRoom(s, r)
      PROVE  [RMNext]_rmVars
  BY <1>3 DEF HandleCreateRoom, HandleJoinRoom, RMNext
<1>4. ASSUME NEW s \in Sessions,
             Connect(s) \/ Vanish(s) \/ Disconnect(s) \/ Pong(s) \/ HandleRefused(s)
      PROVE  [RMNext]_rmVars
  BY <1>4 DEF Connect, Vanish, Disconnect, Pong, HandleRefused
<1>5. ASSUME NEW s \in Sessions, NEW t \in Sessions, HandleSignal(s, t)
      PROVE  [RMNext]_rmVars
  BY <1>5 DEF HandleSignal
<1>6. CASE Heartbeat \/ Shutdown
  BY <1>6 DEF Heartbeat, Shutdown
<1> QED
  BY <1>1, <1>2, <1>3, <1>4, <1>5, <1>6 DEF SSNext

(***************************************************************************)
(* The server is an implementation of the room table's own specification:  *)
(* no handler touches the tables but through RoomManager's operations.     *)
(***************************************************************************)
THEOREM ServerImplementsRoomManager == SSSpec => RMSpec
<1>1. SSInit => RMInit
  BY DEF SSInit
<1> QED
  BY <1>1, ServerStepIsTableStep, PTL DEF SSSpec, RMSpec

(***************************************************************************)
(* Whatever the clients send, in whatever order, and whenever their sockets*)
(* go: a session is indexed only under a live room it belongs to.          *)
(***************************************************************************)
THEOREM ServerIndexIsSound == SSSpec => []IndexSound
BY ServerImplementsRoomManager, IndexIsSound, PTL

(***************************************************************************)
(* Whatever the clients send: no room goes past the viewer limit.          *)
(***************************************************************************)
THEOREM ServerViewerCap == SSSpec => []ViewerCap
BY ServerImplementsRoomManager, ViewerCapHolds, PTL
-----------------------------------------------------------------------------
(***************************************************************************)
(* When clients enter a room only from none, the table is a function of    *)
(* the sessions: whoever is in a room is indexed under it and under no     *)
(* other.                                                                  *)
(***************************************************************************)
LEMMA IndexCompleteStep ==
  ASSUME OneRole, RMTypeOK, IndexComplete, [SSNext]_ssVars
  PROVE  IndexComplete'
<1>1. CASE UNCHANGED rmVars
  BY <1>1 DEF IndexComplete, RoomExists, rmVars
<1>2. ASSUME NEW s \in Sessions, HandleLeaveRoom(s) \/ Close(s)
      PROVE  IndexComplete'
  BY <1>2, IndexCompleteRemove DEF HandleLeaveRoom, Close
<1>3. ASSUME NEW s \in Sessions, NEW r \in RoomIds, HandleCreateRoom(s, r)
      PROVE  IndexComplete'
  BY <1>3, IndexCompleteCreate DEF HandleCreateRoom
<1>4. ASSUME NEW s \in Sessions, NEW r \in RoomIds, HandleJoinRoom(s, r)
      PROVE  IndexComplete'
  BY <1>4, IndexCompleteJoin DEF HandleJoinRoom, MayEnterRoom
<1>5. ASSUME NEW s \in Sessions,
             Connect(s) \/ Vanish(s) \/ Disconnect(s) \/ Pong(s) \/ HandleRefused(s)
      PROVE  UNCHANGED rmVars
  BY <1>5 DEF Connect, Vanish, Disconnect, Pong, HandleRefused
<1>6. ASSUME NEW s \in Sessions, NEW t \in Sessions, HandleSignal(s, t)
      PROVE  UNCHANGED rmVars
  BY <1>6 DEF HandleSignal
<1>7. CASE Heartbeat \/ Shutdown
  BY <1>1, <1>7 DEF Heartbeat, Shutdown
<1>8. CASE UNCHANGED ssVars
  BY <1>1, <1>8 DEF ssVars, rmVars
<1> QED
  BY <1>1, <1>2, <1>3, <1>4, <1>5, <1>6, <1>7, <1>8 DEF SSNext

THEOREM ServerIndexIsComplete ==
  ASSUME OneRole
  PROVE  SSSpec => []IndexComplete
<1>1. SSInit => IndexComplete
  BY DEF SSInit, RMInit, IndexComplete, RoomExists
<1>2. RMTypeOK /\ IndexComplete /\ [SSNext]_ssVars => IndexComplete'
  BY IndexCompleteStep
<1>3. SSSpec => []RMTypeOK
  BY ServerImplementsRoomManager, RMTypeCorrect, PTL
<1> QED
  BY <1>1, <1>2, <1>3, PTL DEF SSSpec
-----------------------------------------------------------------------------
(***************************************************************************)
(* What each message changes in a client's knowledge.                      *)
(***************************************************************************)
LEMMA ToldNothing ==
  ASSUME NEW v, NEW s, NEW c
  PROVE  ToldBy(Silence, v) = v /\ ToldBy(ErrorMsg(c), v) = v /\ ToldBy(Signal(s), v) = v
BY DEF ToldBy, Silence, ErrorMsg, Signal

LEMMA ToldRoom ==
  ASSUME NEW v \in Views, NEW s \in Sessions, NEW r \in RoomIds
  PROVE  /\ ToldBy(RoomCreated(r), v) =
              [shares |-> r, peers |-> {}, watches |-> v.watches, of |-> v.of]
         /\ ToldBy(RoomJoined(r, s), v) =
              [shares |-> v.shares, peers |-> v.peers, watches |-> r, of |-> s]
         /\ ToldBy(RoomEnded, v) =
              [shares |-> v.shares, peers |-> v.peers, watches |-> None, of |-> None]
BY DEF ToldBy, RoomCreated, RoomJoined, RoomEnded, Views

LEMMA ToldPeer ==
  ASSUME NEW v \in Views, NEW s \in Sessions
  PROVE  /\ ToldBy(ViewerJoined(s), v) =
              [shares |-> v.shares, peers |-> v.peers \union {s}, watches |-> v.watches, of |-> v.of]
         /\ ToldBy(ViewerLeft(s), v) =
              [shares |-> v.shares, peers |-> v.peers \ {s}, watches |-> v.watches, of |-> v.of]
BY DEF ToldBy, ViewerJoined, ViewerLeft, Views

LEMMA ToldTypes ==
  ASSUME NEW m \in Messages, NEW v \in Views
  PROVE  ToldBy(m, v) \in Views
<1>1. CASE m = Silence \/ (\E c \in ErrorCodes : m = ErrorMsg(c)) \/ (\E s \in Sessions : m = Signal(s))
  BY <1>1, ToldNothing
<1>2. CASE m = RoomEnded
  <2>1. ToldBy(RoomEnded, v) =
          [shares |-> v.shares, peers |-> v.peers, watches |-> None, of |-> None]
    BY DEF ToldBy, RoomEnded, Views
  <2> QED
    BY <1>2, <2>1 DEF Views
<1>3. CASE \E r \in RoomIds : m = RoomCreated(r)
  <2>1. PICK r \in RoomIds : m = RoomCreated(r)
    BY <1>3
  <2>2. ToldBy(RoomCreated(r), v) =
          [shares |-> r, peers |-> {}, watches |-> v.watches, of |-> v.of]
    BY DEF ToldBy, RoomCreated, Views
  <2> QED
    BY <2>1, <2>2 DEF Views
<1>4. CASE \E r \in RoomIds, s \in Sessions : m = RoomJoined(r, s)
  BY <1>4, ToldRoom DEF Views
<1>5. CASE \E s \in Sessions : m = ViewerJoined(s) \/ m = ViewerLeft(s)
  BY <1>5, ToldPeer DEF Views
<1> QED
  BY <1>1, <1>2, <1>3, <1>4, <1>5 DEF Messages

(***************************************************************************)
(* Delivering well-typed messages over well-typed knowledge.               *)
(***************************************************************************)
LEMMA DeliverTypes ==
  ASSUME NEW msgs \in [Sessions -> Messages], NEW known \in [Sessions -> Views],
         Deliver(msgs, known)
  PROVE  /\ sent' \in [Sessions -> Messages]
         /\ view' \in [Sessions -> Views]
         /\ \A s \in Sessions :
              view'[s] = IF status[s] = "open" THEN ToldBy(msgs[s], known[s]) ELSE known[s]
<1>1. Silence \in Messages
  BY DEF Messages
<1> QED
  BY <1>1, ToldTypes DEF Deliver

LEMMA QuietTypes ==
  /\ Quiet \in [Sessions -> Messages]
  /\ \A s \in Sessions, m \in Messages : OnlyTo(s, m) \in [Sessions -> Messages]
BY DEF Quiet, OnlyTo, Messages

LEMMA MessageTypes ==
  /\ \A c \in ErrorCodes : ErrorMsg(c) \in Messages
  /\ \A r \in RoomIds : RoomCreated(r) \in Messages
  /\ \A r \in RoomIds, s \in Sessions : RoomJoined(r, s) \in Messages
  /\ \A s \in Sessions : /\ ViewerJoined(s) \in Messages /\ ViewerLeft(s) \in Messages
                         /\ Signal(s) \in Messages
  /\ RoomEnded \in Messages /\ Silence \in Messages
BY DEF Messages

LEMMA DepartureTypes ==
  ASSUME RMTypeOK, NEW s \in Sessions
  PROVE  DepartureMessages(s) \in [Sessions -> Messages]
BY MessageTypes DEF DepartureMessages
-----------------------------------------------------------------------------
(***************************************************************************)
(* Types.  One step per handler that changes more than the table.          *)
(***************************************************************************)
LEMMA SSTypeOKStep == SSTypeOK /\ RMTypeOK' /\ [SSNext]_ssVars => SSTypeOK'
<1> SUFFICES ASSUME SSTypeOK, RMTypeOK', [SSNext]_ssVars PROVE SSTypeOK'
  OBVIOUS
<1> USE DEF Live
<1>1. ASSUME NEW s \in Sessions, NEW m \in Messages, Reply(s, m),
             UNCHANGED <<rmVars, status, alive, up>>
      PROVE  SSTypeOK'
  BY <1>1, DeliverTypes, QuietTypes DEF SSTypeOK, Reply, rmVars
<1>2. ASSUME NEW s \in Sessions, HandleRefused(s) PROVE SSTypeOK'
  <2>1. ErrorMsg("RATE_LIMITED") \in Messages
    BY MessageTypes DEF ErrorCodes
  <2> QED
    BY <1>1, <1>2, <2>1 DEF HandleRefused
<1>3. ASSUME NEW s \in Sessions, NEW t \in Sessions, HandleSignal(s, t) PROVE SSTypeOK'
  <2>1. CASE ResolveTarget(s, t) = "ok"
    <3>1. OnlyTo(t, Signal(s)) \in [Sessions -> Messages]
      BY QuietTypes, MessageTypes
    <3>2. Deliver(OnlyTo(t, Signal(s)), view)
      BY <1>3, <2>1 DEF HandleSignal
    <3>3. sent' \in [Sessions -> Messages] /\ view' \in [Sessions -> Views]
          /\ \A u \in Sessions : status[u] # "open" => view'[u] = view[u]
      BY <3>1, <3>2, DeliverTypes DEF SSTypeOK
    <3> QED
      BY <1>3, <3>3 DEF HandleSignal, SSTypeOK, rmVars
  <2>2. CASE ResolveTarget(s, t) # "ok"
    <3>1. ErrorMsg(ResolveTarget(s, t)) \in Messages
      BY <2>2, MessageTypes DEF ResolveTarget, ErrorCodes
    <3> QED
      BY <1>1, <1>3, <2>2, <3>1 DEF HandleSignal
  <2> QED
    BY <2>1, <2>2
<1>4. ASSUME NEW s \in Sessions, NEW r \in RoomIds, HandleCreateRoom(s, r) PROVE SSTypeOK'
  <2>1. sent' \in [Sessions -> Messages] /\ view' \in [Sessions -> Views]
        /\ \A t \in Sessions : status[t] # "open" => view'[t] = view[t]
    BY <1>4, DeliverTypes, QuietTypes, MessageTypes DEF HandleCreateRoom, Reply, SSTypeOK
  <2>2. \A t \in Sessions : ~Live(t) => sessionRooms'[t] = None
    BY <1>4, RemovalTypes
    DEF HandleCreateRoom, MayEnterRoom, Heard, CreateRoom, IndexWithout, SSTypeOK
  <2> QED
    BY <1>4, <2>1, <2>2 DEF HandleCreateRoom, SSTypeOK
<1>5. ASSUME NEW s \in Sessions, NEW r \in RoomIds, HandleJoinRoom(s, r) PROVE SSTypeOK'
  <2>1. CASE JoinResult(r, s) # "ok"
    <3>1. ErrorMsg(JoinResult(r, s)) \in Messages
      BY <2>1, MessageTypes DEF JoinResult, ErrorCodes
    <3> QED
      BY <1>1, <1>5, <2>1, <3>1 DEF HandleJoinRoom, JoinRoom
  <2>2. CASE JoinResult(r, s) = "ok"
    <3> DEFINE M == [Quiet EXCEPT ![s] = RoomJoined(r, sharerId[r]), ![sharerId[r]] = ViewerJoined(s)]
    <3>1. sharerId[r] \in Sessions
      BY <2>2 DEF JoinResult, RoomExists, SSTypeOK, RMTypeOK
    <3>2. M \in [Sessions -> Messages]
      BY <3>1, QuietTypes, MessageTypes
    <3>3. Deliver(M, view)
      BY <1>5, <2>2 DEF HandleJoinRoom
    <3> HIDE DEF M
    <3>4. sent' \in [Sessions -> Messages] /\ view' \in [Sessions -> Views]
          /\ \A t \in Sessions : status[t] # "open" => view'[t] = view[t]
      BY <3>2, <3>3, DeliverTypes DEF SSTypeOK
    <3>5. \A t \in Sessions : ~Live(t) => sessionRooms'[t] = None
      BY <1>5, <2>2 DEF HandleJoinRoom, MayEnterRoom, Heard, JoinRoom, SSTypeOK, RMTypeOK
    <3> QED
      BY <1>5, <3>4, <3>5 DEF HandleJoinRoom, SSTypeOK
  <2> QED
    BY <2>1, <2>2
<1>6. ASSUME NEW s \in Sessions, HandleLeaveRoom(s) PROVE SSTypeOK'
  <2> DEFINE K == [view EXCEPT ![s] = Blank]
  <2>1. K \in [Sessions -> Views]
    BY DEF SSTypeOK, Views, Blank
  <2>2. ErrorMsg("NOT_IN_ROOM") \in Messages
    BY MessageTypes DEF ErrorCodes
  <2>3. PICK M \in [Sessions -> Messages] : Deliver(M, K)
    BY <1>6, <2>2, DepartureTypes, QuietTypes DEF HandleLeaveRoom, SSTypeOK
  <2>4. sent' \in [Sessions -> Messages] /\ view' \in [Sessions -> Views]
        /\ \A t \in Sessions : status[t] # "open" => view'[t] = K[t]
    BY <2>1, <2>3, DeliverTypes
  <2>5. \A t \in Sessions : status[t] # "open" => view'[t] = Blank
    BY <2>4 DEF SSTypeOK
  <2>6. \A t \in Sessions : ~Live(t) => sessionRooms'[t] = None
    BY <1>6 DEF HandleLeaveRoom, RemoveSession, IndexWithout, SSTypeOK
  <2> QED
    BY <1>6, <2>4, <2>5, <2>6 DEF HandleLeaveRoom, SSTypeOK
<1>7. ASSUME NEW s \in Sessions, Close(s) PROVE SSTypeOK'
  <2>1. sent' \in [Sessions -> Messages] /\ view' \in [Sessions -> Views]
        /\ \A t \in Sessions : status[t] # "open" => view'[t] = view[t]
    BY <1>7, DepartureTypes, DeliverTypes DEF Close, SSTypeOK
  <2>2. \A t \in Sessions : (t = s \/ ~Live(t)) => sessionRooms'[t] = None
    BY <1>7 DEF Close, RemoveSession, IndexWithout, SSTypeOK
  <2> QED
    BY <1>7, <2>1, <2>2 DEF Close, SSTypeOK, Statuses
<1>8. ASSUME NEW s \in Sessions, Connect(s) \/ Vanish(s) \/ Disconnect(s) \/ Pong(s)
      PROVE  SSTypeOK'
  <2>1. Blank \in Views
    BY DEF Blank, Views
  <2> QED
    BY <1>8, <2>1, QuietTypes
    DEF Connect, Vanish, Disconnect, Pong, SocketOpen, SSTypeOK, Statuses, rmVars
<1>9. CASE Heartbeat \/ Shutdown
  <2>1. Blank \in Views
    BY DEF Blank, Views
  <2> QED
    BY <1>9, <2>1, QuietTypes
    DEF Heartbeat, Shutdown, HeartbeatSilentSession, SocketOpen, SSTypeOK, Statuses, rmVars
<1>10. CASE UNCHANGED ssVars
  BY <1>10 DEF ssVars, SSTypeOK
<1> QED
  BY <1>2, <1>3, <1>4, <1>5, <1>6, <1>7, <1>8, <1>9, <1>10 DEF SSNext

(***************************************************************************)
(* Types of the server's state; a session that is not connected is in no   *)
(* room, and a client that is gone knows nothing.                          *)
(***************************************************************************)
THEOREM SSTypeCorrect == SSSpec => []SSTypeOK
<1>1. SSInit => SSTypeOK
  BY QuietTypes DEF SSInit, RMInit, RMTypeOK, RoomExists, SSTypeOK, Statuses, Views, Blank,
     Messages, Live
<1>2. SSSpec => []RMTypeOK
  BY ServerImplementsRoomManager, RMTypeCorrect, PTL
<1> QED
  BY <1>1, <1>2, SSTypeOKStep, PTL DEF SSSpec
-----------------------------------------------------------------------------
(***************************************************************************)
(* What a client has been told is what the server holds.  The invariant    *)
(* that carries the proof is the agreement itself with the index, sound    *)
(* and complete: the messages of a departure are right only because the    *)
(* session that goes is in one room, and in the one it is indexed under.   *)
(***************************************************************************)
MembershipInv == SSTypeOK /\ IndexSound /\ ViewerCap /\ IndexComplete /\ MembershipAgrees

\* A session without an index entry is in no room.
LEMMA NoEntryNoRoom ==
  ASSUME RMTypeOK, IndexComplete, NEW s \in Sessions, sessionRooms[s] = None,
         NEW r \in RoomIds
  PROVE  sharerId[r] # s /\ s \notin viewers[r]
BY NoneAssumption DEF IndexComplete, RMTypeOK, RoomExists

\* Nothing a client is told about changed, and neither did its knowledge.
LEMMA AgreementKept ==
  ASSUME MembershipAgrees, NEW s \in Sessions, status[s] = "open",
         UNCHANGED rmVars, view'[s] = view[s]
  PROVE  KnowsItsPlace(s)'
BY DEF MembershipAgrees, KnowsItsPlace, rmVars

(***************************************************************************)
(* Removing s and announcing it keeps every other client right.            *)
(***************************************************************************)
LEMMA DepartureAgrees ==
  ASSUME MembershipInv, NEW s \in Sessions, NEW t \in Sessions, t # s,
         status[t] = "open", RemoveSession(s),
         view'[t] = ToldBy(DepartureMessages(s)[t], view[t])
  PROVE  KnowsItsPlace(t)'
<1> DEFINE r == sessionRooms[s]
<1>1. RMTypeOK /\ view[t] \in Views /\ KnowsItsPlace(t) /\ IndexSound /\ IndexComplete
  BY DEF MembershipInv, SSTypeOK, MembershipAgrees
<1>2. /\ sharerId' = SharersWithout(s) /\ viewers' = ViewersWithout(s)
  BY DEF RemoveSession
<1>3. CASE RemovalKind(s) = "none"
  <2>1. DepartureMessages(s)[t] = Silence
    BY <1>3 DEF DepartureMessages
  <2>2. view'[t] = view[t]
    BY <2>1, ToldNothing
  <2>3. \A q \in RoomIds : sharerId'[q] = sharerId[q] /\ viewers'[q] = viewers[q]
    BY <1>2, <1>3 DEF SharersWithout, ViewersWithout
  <2> QED
    BY <1>1, <2>2, <2>3 DEF KnowsItsPlace
<1>4. CASE RemovalKind(s) = "viewer-left"
  <2>1. r \in RoomIds /\ sharerId[r] # None /\ sharerId[r] # s
    BY <1>1, <1>4 DEF RemovalKind, RoomExists, RMTypeOK
  <2>2. \A q \in RoomIds : /\ sharerId'[q] = sharerId[q]
                          /\ viewers'[q] = IF q = r THEN viewers[q] \ {s} ELSE viewers[q]
    BY <1>2, <1>4 DEF SharersWithout, ViewersWithout
  <2>3. CASE t = sharerId[r]
    <3>1. DepartureMessages(s)[t] = ViewerLeft(s)
      BY <1>4, <2>3 DEF DepartureMessages
    <3>2. view'[t] = [shares |-> view[t].shares, peers |-> view[t].peers \ {s},
                      watches |-> view[t].watches, of |-> view[t].of]
      BY <1>1, <3>1, ToldPeer
    <3>3. view[t].shares = r /\ view[t].peers = viewers[r]
      BY <1>1, <2>1, <2>3 DEF KnowsItsPlace
    <3>4. \A q \in RoomIds : sharerId[q] = t => q = r
      BY <1>1, <3>3 DEF KnowsItsPlace
    <3>5. \A q \in RoomIds : t \in viewers'[q] <=> t \in viewers[q]
      BY <2>2
    <3>6. view'[t].shares = view[t].shares /\ view'[t].watches = view[t].watches
          /\ view'[t].of = view[t].of /\ view'[t].peers = view[t].peers \ {s}
      BY <3>2
    <3> HIDE DEF r
    <3> SUFFICES ASSUME NEW q \in RoomIds
                 PROVE  /\ sharerId'[q] = t <=> view'[t].shares = q
                        /\ sharerId'[q] = t => view'[t].peers = viewers'[q]
                        /\ t \in viewers'[q] <=> view'[t].watches = q
                        /\ t \in viewers'[q] => view'[t].of = sharerId'[q]
      BY DEF KnowsItsPlace
    <3>7. sharerId[q] = t <=> view[t].shares = q
      BY <1>1 DEF KnowsItsPlace
    <3>8. /\ t \in viewers[q] <=> view[t].watches = q
          /\ t \in viewers[q] => view[t].of = sharerId[q]
      BY <1>1 DEF KnowsItsPlace
    <3> QED
      BY <2>2, <3>3, <3>4, <3>5, <3>6, <3>7, <3>8
  <2>4. CASE t # sharerId[r]
    <3>1. view'[t] = view[t]
      BY <1>4, <2>4, ToldNothing DEF DepartureMessages
    <3>2. \A q \in RoomIds : sharerId[q] = t => viewers'[q] = viewers[q]
      BY <2>2, <2>4
    <3>3. \A q \in RoomIds : t \in viewers'[q] <=> t \in viewers[q]
      BY <2>2
    <3>4. \A q \in RoomIds : sharerId'[q] = sharerId[q]
      BY <2>2
    <3> QED
      BY <1>1, <3>1, <3>2, <3>3, <3>4 DEF KnowsItsPlace
  <2> QED
    BY <2>3, <2>4
<1>5. CASE RemovalKind(s) = "room-ended"
  <2>1. r \in RoomIds /\ sharerId[r] = s
    BY <1>1, <1>5 DEF RemovalKind, RoomExists, RMTypeOK
  <2>2. \A q \in RoomIds : /\ sharerId'[q] = IF q = r THEN None ELSE sharerId[q]
                          /\ viewers'[q] = IF q = r THEN {} ELSE viewers[q]
    BY <1>2, <1>5 DEF SharersWithout, ViewersWithout
  <2>3. CASE t \in viewers[r]
    <3>1. DepartureMessages(s)[t] = RoomEnded
      BY <1>5, <2>3 DEF DepartureMessages
    <3>2. view'[t] = [shares |-> view[t].shares, peers |-> view[t].peers,
                      watches |-> None, of |-> None]
      BY <1>1, <2>1, <3>1, ToldRoom
    <3>3. \A q \in RoomIds : t \in viewers[q] => q = r
      <4>1. view[t].watches = r
        BY <1>1, <2>1, <2>3 DEF KnowsItsPlace
      <4> QED
        BY <1>1, <4>1 DEF KnowsItsPlace
    <3>4. view[t].shares # r
      BY <1>1, <2>1 DEF KnowsItsPlace
    <3> QED
      BY <1>1, <2>1, <2>2, <3>2, <3>3, <3>4, NoneAssumption DEF KnowsItsPlace
  <2>4. CASE t \notin viewers[r]
    <3>1. view'[t] = view[t]
      BY <1>5, <2>4, ToldNothing DEF DepartureMessages
    <3>2. view[t].shares # r /\ view[t].watches # r
      BY <1>1, <2>1, <2>4 DEF KnowsItsPlace
    <3> QED
      BY <1>1, <2>2, <2>4, <3>1, <3>2, NoneAssumption DEF KnowsItsPlace
  <2> QED
    BY <2>3, <2>4
<1> QED
  BY <1>3, <1>4, <1>5 DEF RemovalKind

\* A client that left knows nothing and is in no room.
LEMMA LeaverAgrees ==
  ASSUME MembershipInv, NEW s \in Sessions, RemoveSession(s), view'[s] = Blank
  PROVE  KnowsItsPlace(s)'
<1>1. \A r \in RoomIds : sharerId'[r] # s /\ s \notin viewers'[r]
  <2> SUFFICES ASSUME NEW r \in RoomIds PROVE sharerId'[r] # s /\ s \notin viewers'[r]
    OBVIOUS
  <2>1. RMTypeOK /\ IndexComplete
    BY DEF MembershipInv, SSTypeOK
  <2>2. sharerId'[r] # None => sharerId'[r] # s /\ s \notin viewers'[r]
    BY <2>1, IndexCompleteAfterRemoval DEF RemoveSession
  <2>3. sharerId'[r] = None => viewers'[r] = {}
    BY <2>1, RemovalTypes DEF RemoveSession
  <2> QED
    BY <2>2, <2>3, NoneAssumption
<1> QED
  BY <1>1, NoneAssumption DEF KnowsItsPlace, Blank

LEMMA CreateAgrees ==
  ASSUME MembershipInv, OneRole, NEW s \in Sessions, NEW r \in RoomIds,
         HandleCreateRoom(s, r), NEW t \in Sessions, status[t] = "open"
  PROVE  KnowsItsPlace(t)'
<1>1. RMTypeOK /\ view \in [Sessions -> Views] /\ KnowsItsPlace(t) /\ IndexComplete
  BY DEF MembershipInv, SSTypeOK, MembershipAgrees
<1>2. sessionRooms[s] = None
  BY DEF HandleCreateRoom, MayEnterRoom
<1>3. \A q \in RoomIds : sharerId[q] # s /\ s \notin viewers[q]
  BY <1>1, <1>2, NoEntryNoRoom
<1>4. /\ SharersWithout(s) = sharerId /\ ViewersWithout(s) = viewers
  BY <1>1, <1>2 DEF SharersWithout, ViewersWithout, RemovalKind, RMTypeOK
<1>5. /\ sharerId[r] = None /\ viewers[r] = {}
      /\ \A q \in RoomIds : sharerId'[q] = (IF q = r THEN s ELSE sharerId[q])
                           /\ viewers'[q] = viewers[q]
  BY <1>1, <1>4 DEF HandleCreateRoom, CreateRoom, RMTypeOK, RoomExists
<1>6. view'[t] = ToldBy(OnlyTo(s, RoomCreated(r))[t], view[t])
  BY DEF HandleCreateRoom, Reply, Deliver
<1>7. CASE t = s
  <2>1. view'[s] = [shares |-> r, peers |-> {}, watches |-> view[s].watches, of |-> view[s].of]
    BY <1>1, <1>6, <1>7, ToldRoom DEF OnlyTo, Quiet
  <2>2. \A q \in RoomIds : sharerId'[q] = s <=> q = r
    BY <1>3, <1>5
  <2>3. \A q \in RoomIds : s \notin viewers'[q] /\ view[s].watches # q
    BY <1>1, <1>3, <1>5, <1>7 DEF KnowsItsPlace
  <2> QED
    BY <1>5, <1>7, <2>1, <2>2, <2>3 DEF KnowsItsPlace
<1>8. CASE t # s
  <2>1. view'[t] = view[t]
    BY <1>6, <1>8, ToldNothing DEF OnlyTo, Quiet
  <2>2. \A q \in RoomIds : sharerId'[q] = t <=> sharerId[q] = t
    BY <1>5, <1>8, NoneAssumption
  <2>3. \A q \in RoomIds : t \in viewers[q] => q # r
    BY <1>5
  <2> QED
    BY <1>1, <1>5, <2>1, <2>2, <2>3 DEF KnowsItsPlace
<1> QED
  BY <1>7, <1>8

LEMMA JoinAgrees ==
  ASSUME MembershipInv, OneRole, NEW s \in Sessions, NEW r \in RoomIds,
         HandleJoinRoom(s, r), JoinResult(r, s) = "ok",
         NEW t \in Sessions, status[t] = "open"
  PROVE  KnowsItsPlace(t)'
<1> DEFINE x == sharerId[r]
           M == [Quiet EXCEPT ![s] = RoomJoined(r, x), ![x] = ViewerJoined(s)]
<1>1. RMTypeOK /\ view \in [Sessions -> Views] /\ KnowsItsPlace(t) /\ IndexComplete
  BY DEF MembershipInv, SSTypeOK, MembershipAgrees
<1>2. sessionRooms[s] = None
  BY DEF HandleJoinRoom, MayEnterRoom
<1>3. \A q \in RoomIds : sharerId[q] # s /\ s \notin viewers[q]
  BY <1>1, <1>2, NoEntryNoRoom
<1>4. x \in Sessions /\ x # s
  BY <1>1, <1>3 DEF JoinResult, RoomExists, RMTypeOK
<1>5. /\ sharerId' = sharerId
      /\ \A q \in RoomIds : viewers'[q] = IF q = r THEN viewers[q] \union {s} ELSE viewers[q]
  BY <1>1 DEF HandleJoinRoom, JoinRoom, RMTypeOK
<1>6. view'[t] = ToldBy(M[t], view[t])
  BY DEF HandleJoinRoom, Deliver
<1>7. CASE t = s
  <2>1. M[s] = RoomJoined(r, x)
    BY <1>4 DEF Quiet
  <2>2. view'[s] = [shares |-> view[s].shares, peers |-> view[s].peers, watches |-> r, of |-> x]
    BY <1>1, <1>4, <1>6, <1>7, <2>1, ToldRoom
  <2>3. \A q \in RoomIds : s \in viewers'[q] <=> q = r
    BY <1>3, <1>5
  <2> QED
    BY <1>1, <1>3, <1>5, <1>7, <2>2, <2>3 DEF KnowsItsPlace
<1>8. CASE t = x
  <2>1. M[x] = ViewerJoined(s)
    BY <1>4 DEF Quiet
  <2>2. view'[t] = [shares |-> view[t].shares, peers |-> view[t].peers \union {s},
                    watches |-> view[t].watches, of |-> view[t].of]
    <3>1. view'[t] = ToldBy(ViewerJoined(s), view[t]) /\ view[t] \in Views
      <4> HIDE DEF M
      <4> QED
        BY <1>1, <1>6, <1>8, <2>1
    <3> QED
      BY <3>1, ToldPeer
  <2>3. view[t].shares = r /\ view[t].peers = viewers[r]
    BY <1>1, <1>8 DEF KnowsItsPlace
  <2>4. \A q \in RoomIds : t \in viewers'[q] <=> t \in viewers[q]
    BY <1>4, <1>5, <1>8
  <2>5. view'[t].shares = view[t].shares /\ view'[t].watches = view[t].watches
        /\ view'[t].of = view[t].of /\ view'[t].peers = view[t].peers \union {s}
    BY <2>2
  <2>6. \A q \in RoomIds : sharerId[q] = t => q = r
    BY <1>1, <2>3 DEF KnowsItsPlace
  <2>7. viewers'[r] = viewers[r] \union {s}
    BY <1>5
  <2>8. \A q \in RoomIds : sharerId'[q] = t => view'[t].peers = viewers'[q]
    BY <1>5, <2>3, <2>5, <2>6, <2>7
  <2> QED
    BY <1>1, <1>5, <2>4, <2>5, <2>8 DEF KnowsItsPlace
<1>9. CASE t # s /\ t # x
  <2>1. M[t] = Silence
    BY <1>9 DEF Quiet
  <2>2. view'[t] = view[t]
    BY <1>6, <2>1, ToldNothing
  <2>3. \A q \in RoomIds : t \in viewers'[q] <=> t \in viewers[q]
    BY <1>5, <1>9
  <2>4. \A q \in RoomIds : sharerId[q] = t => viewers'[q] = viewers[q]
    BY <1>5, <1>9
  <2>5. \A q \in RoomIds : sharerId'[q] = sharerId[q]
    BY <1>5
  <2> QED
    BY <1>1, <2>2, <2>3, <2>4, <2>5 DEF KnowsItsPlace
<1> QED
  BY <1>7, <1>8, <1>9

\* A step that leaves the tables and the knowledge of open sessions alone.
LEMMA NothingLearnt ==
  ASSUME MembershipInv, NEW t \in Sessions, status[t] = "open", UNCHANGED rmVars,
         NEW msgs, Deliver(msgs, view), ToldBy(msgs[t], view[t]) = view[t]
  PROVE  KnowsItsPlace(t)'
<1>1. view'[t] = view[t]
  BY DEF Deliver
<1> QED
  BY <1>1, AgreementKept DEF MembershipInv

LEMMA MembershipStep ==
  ASSUME MembershipInv, OneRole, [SSNext]_ssVars
  PROVE  MembershipAgrees'
<1> SUFFICES ASSUME NEW t \in Sessions, status'[t] = "open"
             PROVE  KnowsItsPlace(t)'
  BY DEF MembershipAgrees
<1>0. /\ SSTypeOK /\ RMTypeOK /\ IndexComplete /\ MembershipAgrees
      /\ status \in [Sessions -> Statuses] /\ view \in [Sessions -> Views]
  BY DEF MembershipInv, SSTypeOK
<1>1. ASSUME NEW s \in Sessions, NEW r \in RoomIds, HandleCreateRoom(s, r)
      PROVE  KnowsItsPlace(t)'
  <2>1. status[t] = "open"
    BY <1>1 DEF HandleCreateRoom
  <2> QED
    BY <1>1, <2>1, CreateAgrees
<1>2. ASSUME NEW s \in Sessions, NEW r \in RoomIds, HandleJoinRoom(s, r)
      PROVE  KnowsItsPlace(t)'
  <2>1. status[t] = "open"
    BY <1>2 DEF HandleJoinRoom
  <2>2. CASE JoinResult(r, s) = "ok"
    BY <1>2, <2>1, <2>2, JoinAgrees
  <2>3. CASE JoinResult(r, s) # "ok"
    <3> DEFINE M == OnlyTo(s, ErrorMsg(JoinResult(r, s)))
    <3>1. UNCHANGED rmVars /\ Deliver(M, view)
      BY <1>2, <2>3 DEF HandleJoinRoom, JoinRoom, Reply
    <3>2. ToldBy(M[t], view[t]) = view[t]
      BY ToldNothing DEF OnlyTo, Quiet
    <3> QED
      BY <2>1, <3>1, <3>2, NothingLearnt
  <2> QED
    BY <2>2, <2>3
<1>3. ASSUME NEW s \in Sessions, HandleLeaveRoom(s) PROVE KnowsItsPlace(t)'
  <2> DEFINE K == [view EXCEPT ![s] = Blank]
             E == OnlyTo(s, ErrorMsg("NOT_IN_ROOM"))
             D == DepartureMessages(s)
  <2>1. status[t] = "open" /\ RemoveSession(s) /\ K[t] = IF t = s THEN Blank ELSE view[t]
    BY <1>0, <1>3 DEF HandleLeaveRoom
  <2>2. CASE RemovalKind(s) = "none"
    <3>1. view'[t] = ToldBy(E[t], K[t])
      BY <1>3, <2>1, <2>2 DEF HandleLeaveRoom, Deliver
    <3>2. view'[t] = K[t]
      BY <3>1, ToldNothing DEF OnlyTo, Quiet
    <3>3. D[t] = Silence
      BY <2>2 DEF DepartureMessages
    <3>4. CASE t = s
      BY <2>1, <3>2, <3>4, LeaverAgrees
    <3>5. CASE t # s
      <4>1. view'[t] = ToldBy(D[t], view[t])
        BY <2>1, <3>2, <3>3, <3>5, ToldNothing
      <4> QED
        BY <2>1, <3>5, <4>1, DepartureAgrees
    <3> QED
      BY <3>4, <3>5
  <2>3. CASE RemovalKind(s) # "none"
    <3>1. view'[t] = ToldBy(D[t], K[t])
      BY <1>3, <2>1, <2>3 DEF HandleLeaveRoom, Deliver
    <3>2. CASE t = s
      <4>1. RemovalKind(s) = "room-ended" => s = sharerId[sessionRooms[s]]
        BY DEF RemovalKind
      <4>2. RemovalKind(s) = "viewer-left" => s # sharerId[sessionRooms[s]]
        BY DEF RemovalKind
      <4>3. RemovalKind(s) = "room-ended" => s \notin viewers[sessionRooms[s]]
        <5> HAVE RemovalKind(s) = "room-ended"
        <5> DEFINE r == sessionRooms[s]
        <5>1. r \in RoomIds /\ sharerId[r] = s
          BY <1>0, <4>1 DEF RemovalKind, RMTypeOK
        <5>2. ViewerCap
          BY DEF MembershipInv
        <5> QED
          BY <5>1, <5>2 DEF ViewerCap
      <4>4. D[t] = Silence
        BY <3>2, <4>2, <4>3 DEF DepartureMessages
      <4>5. view'[s] = Blank
        BY <2>1, <3>1, <3>2, <4>4, ToldNothing
      <4> QED
        BY <2>1, <3>2, <4>5, LeaverAgrees
    <3>3. CASE t # s
      BY <2>1, <3>1, <3>3, DepartureAgrees
    <3> QED
      BY <3>2, <3>3
  <2> QED
    BY <2>2, <2>3
<1>4. ASSUME NEW s \in Sessions, Close(s) PROVE KnowsItsPlace(t)'
  <2>1. t # s /\ status[t] = "open" /\ RemoveSession(s)
    BY <1>0, <1>4 DEF Close
  <2>2. view'[t] = ToldBy(DepartureMessages(s)[t], view[t])
    BY <1>4, <2>1 DEF Close, Deliver
  <2> QED
    BY <2>1, <2>2, DepartureAgrees
<1>5. ASSUME NEW s \in Sessions, Connect(s) PROVE KnowsItsPlace(t)'
  <2>1. UNCHANGED rmVars /\ view'[t] = view[t]
    BY <1>5 DEF Connect
  <2>2. CASE status[t] = "open"
    BY <1>0, <2>1, <2>2, AgreementKept
  <2>3. CASE status[t] # "open"
    <3>1. status[t] = "new"
      BY <1>0, <1>5, <2>3 DEF Connect
    <3>2. sessionRooms[t] = None /\ view'[t] = Blank
      BY <1>0, <2>1, <3>1 DEF SSTypeOK, Live
    <3>3. \A r \in RoomIds : sharerId'[r] # t /\ t \notin viewers'[r]
      BY <1>0, <2>1, <3>2, NoEntryNoRoom DEF rmVars
    <3> QED
      BY <3>2, <3>3, NoneAssumption DEF KnowsItsPlace, Blank
  <2> QED
    BY <2>2, <2>3
<1>6. ASSUME NEW s \in Sessions, Vanish(s) \/ Disconnect(s) \/ Pong(s) \/ HandleRefused(s)
      PROVE  KnowsItsPlace(t)'
  <2>1. UNCHANGED rmVars /\ status[t] = "open"
    BY <1>0, <1>6 DEF Vanish, Disconnect, Pong, HandleRefused
  <2>2. CASE HandleRefused(s)
    <3>1. Deliver(OnlyTo(s, ErrorMsg("RATE_LIMITED")), view)
      BY <2>2 DEF HandleRefused, Reply
    <3>2. ToldBy(OnlyTo(s, ErrorMsg("RATE_LIMITED"))[t], view[t]) = view[t]
      BY ToldNothing DEF OnlyTo, Quiet
    <3> QED
      BY <2>1, <3>1, <3>2, NothingLearnt
  <2>3. CASE Vanish(s) \/ Disconnect(s) \/ Pong(s)
    <3>1. view'[t] = view[t]
      BY <1>0, <2>3 DEF Vanish, Disconnect, Pong
    <3> QED
      BY <1>0, <2>1, <3>1, AgreementKept
  <2> QED
    BY <1>6, <2>2, <2>3
<1>7. ASSUME NEW s \in Sessions, NEW q \in Sessions, HandleSignal(s, q)
      PROVE  KnowsItsPlace(t)'
  <2>1. UNCHANGED rmVars /\ status[t] = "open"
    BY <1>7 DEF HandleSignal
  <2>2. CASE ResolveTarget(s, q) = "ok"
    <3>1. Deliver(OnlyTo(q, Signal(s)), view)
      BY <1>7, <2>2 DEF HandleSignal
    <3>2. ToldBy(OnlyTo(q, Signal(s))[t], view[t]) = view[t]
      BY ToldNothing DEF OnlyTo, Quiet
    <3> QED
      BY <2>1, <3>1, <3>2, NothingLearnt
  <2>3. CASE ResolveTarget(s, q) # "ok"
    <3> DEFINE M == OnlyTo(s, ErrorMsg(ResolveTarget(s, q)))
    <3>1. Deliver(M, view)
      BY <1>7, <2>3 DEF HandleSignal, Reply
    <3>2. ToldBy(M[t], view[t]) = view[t]
      BY ToldNothing DEF OnlyTo, Quiet
    <3> QED
      BY <2>1, <3>1, <3>2, NothingLearnt
  <2> QED
    BY <2>2, <2>3
<1>8. CASE Heartbeat \/ Shutdown
  <2>1. UNCHANGED rmVars /\ status[t] = "open" /\ view'[t] = view[t]
    BY <1>8 DEF Heartbeat, Shutdown, SocketOpen, HeartbeatSilentSession
  <2> QED
    BY <1>0, <2>1, AgreementKept
<1>9. CASE UNCHANGED ssVars
  BY <1>0, <1>9, AgreementKept DEF ssVars, rmVars
<1> QED
  BY <1>1, <1>2, <1>3, <1>4, <1>5, <1>6, <1>7, <1>8, <1>9 DEF SSNext

LEMMA MembershipInvariant ==
  ASSUME OneRole
  PROVE  SSSpec => []MembershipInv
<1>1. SSInit => MembershipAgrees
  BY DEF SSInit, MembershipAgrees
<1>2. MembershipInv /\ [SSNext]_ssVars => MembershipAgrees'
  BY MembershipStep
<1>3. SSSpec => [](SSTypeOK /\ IndexSound /\ ViewerCap /\ IndexComplete)
  BY SSTypeCorrect, ServerIndexIsSound, ServerViewerCap, ServerIndexIsComplete, PTL
<1> QED
  BY <1>1, <1>2, <1>3, PTL DEF SSSpec, MembershipInv

(***************************************************************************)
(* If clients enter a room only from none, then at every moment, for any   *)
(* number of clients and rooms and whichever of them come, leave, vanish or*)
(* are terminated: what a connected client was told is what the server     *)
(* holds.                                                                  *)
(***************************************************************************)
THEOREM ClientsKnowTheirPlace ==
  ASSUME OneRole
  PROVE  SSSpec => []MembershipAgrees
BY MembershipInvariant, PTL DEF MembershipInv
-----------------------------------------------------------------------------
\* Deliver hands t nothing but what the step addressed to it.
LEMMA SentIsAddressed ==
  ASSUME NEW msgs, NEW known, Deliver(msgs, known), NEW t \in Sessions
  PROVE  sent'[t] = Silence \/ sent'[t] = msgs[t]
BY DEF Deliver

\* Only HandleSignal relays: every other step pushes something else.
LEMMA OnlySignalsRelay ==
  ASSUME NEW t \in Sessions, NEW x \in Sessions, sent'[t] = Signal(x),
         [SSNext]_ssVars
  PROVE  \/ UNCHANGED ssVars
         \/ \E s, q \in Sessions : HandleSignal(s, q)
<1>1. Silence # Signal(x) /\ RoomEnded # Signal(x)
  BY DEF Silence, RoomEnded, Signal
<1>2. /\ \A c : ErrorMsg(c) # Signal(x)
      /\ \A r : RoomCreated(r) # Signal(x)
      /\ \A r, s : RoomJoined(r, s) # Signal(x)
      /\ \A s : ViewerJoined(s) # Signal(x) /\ ViewerLeft(s) # Signal(x)
  BY DEF ErrorMsg, RoomCreated, RoomJoined, ViewerJoined, ViewerLeft, Signal
<1>3. ASSUME NEW s \in Sessions, HandleLeaveRoom(s) \/ Close(s) PROVE FALSE
  <2>1. DepartureMessages(s)[t] # Signal(x)
    BY <1>1, <1>2 DEF DepartureMessages
  <2>2. OnlyTo(s, ErrorMsg("NOT_IN_ROOM"))[t] # Signal(x)
    BY <1>1, <1>2 DEF OnlyTo, Quiet
  <2> QED
    BY <1>1, <1>3, <2>1, <2>2, SentIsAddressed DEF HandleLeaveRoom, Close
<1>4. ASSUME NEW s \in Sessions, NEW r \in RoomIds, HandleCreateRoom(s, r) PROVE FALSE
  <2>1. OnlyTo(s, RoomCreated(r))[t] # Signal(x)
    BY <1>1, <1>2 DEF OnlyTo, Quiet
  <2> QED
    BY <1>1, <1>4, <2>1, SentIsAddressed DEF HandleCreateRoom, Reply
<1>5. ASSUME NEW s \in Sessions, NEW r \in RoomIds, HandleJoinRoom(s, r) PROVE FALSE
  <2>1. OnlyTo(s, ErrorMsg(JoinResult(r, s)))[t] # Signal(x)
    BY <1>1, <1>2 DEF OnlyTo, Quiet
  <2>2. [Quiet EXCEPT ![s] = RoomJoined(r, sharerId[r]),
                      ![sharerId[r]] = ViewerJoined(s)][t] # Signal(x)
    BY <1>1, <1>2 DEF Quiet
  <2> QED
    BY <1>1, <1>5, <2>1, <2>2, SentIsAddressed DEF HandleJoinRoom, Reply
<1>6. ASSUME NEW s \in Sessions,
             Connect(s) \/ Vanish(s) \/ Disconnect(s) \/ Pong(s) \/ Heartbeat \/ Shutdown
      PROVE  FALSE
  <2>1. sent'[t] = Silence
    BY <1>6 DEF Connect, Vanish, Disconnect, Pong, Heartbeat, Shutdown, Quiet
  <2> QED
    BY <1>1, <2>1
<1>7. ASSUME NEW s \in Sessions, HandleRefused(s) PROVE FALSE
  <2>1. OnlyTo(s, ErrorMsg("RATE_LIMITED"))[t] # Signal(x)
    BY <1>1, <1>2 DEF OnlyTo, Quiet
  <2> QED
    BY <1>1, <1>7, <2>1, SentIsAddressed DEF HandleRefused, Reply
<1> QED
  BY <1>3, <1>4, <1>5, <1>6, <1>7 DEF SSNext

LEMMA AcquaintedStep ==
  ASSUME MembershipInv, SignalsBetweenAcquainted, [SSNext]_ssVars
  PROVE  SignalsBetweenAcquainted'
<1> SUFFICES ASSUME NEW x \in Sessions, NEW t \in Sessions,
                    sent'[t] = Signal(x), status'[t] = "open"
             PROVE  \/ view'[t].watches # None /\ view'[t].of = x
                    \/ view'[t].shares # None /\ x \in view'[t].peers
  BY DEF SignalsBetweenAcquainted
<1>1. CASE UNCHANGED ssVars
  BY <1>1 DEF ssVars, SignalsBetweenAcquainted
<1>2. ASSUME NEW s \in Sessions, NEW q \in Sessions, HandleSignal(s, q)
      PROVE  \/ view'[t].watches # None /\ view'[t].of = x
             \/ view'[t].shares # None /\ x \in view'[t].peers
  <2> DEFINE r == sessionRooms[s]
  <2>1. /\ RMTypeOK /\ IndexSound /\ status[t] = "open"
        /\ KnowsItsPlace(t)
    BY <1>2 DEF MembershipInv, SSTypeOK, MembershipAgrees, HandleSignal
  <2>2. Silence # Signal(x) /\ \A c : ErrorMsg(c) # Signal(x)
    BY DEF Silence, ErrorMsg, Signal
  <2>3. CASE ResolveTarget(s, q) # "ok"
    <3>1. OnlyTo(s, ErrorMsg(ResolveTarget(s, q)))[t] # Signal(x)
      BY <2>2 DEF OnlyTo, Quiet
    <3> QED
      BY <1>2, <2>2, <2>3, <3>1, SentIsAddressed DEF HandleSignal, Reply
  <2>4. CASE ResolveTarget(s, q) = "ok"
    <3>1. Deliver(OnlyTo(q, Signal(s)), view)
      BY <1>2, <2>4 DEF HandleSignal
    <3>2. OnlyTo(q, Signal(s))[t] = Signal(x) /\ view'[t] = view[t]
      <4>1. ToldBy(OnlyTo(q, Signal(s))[t], view[t]) = view[t]
        BY ToldNothing DEF OnlyTo, Quiet
      <4> QED
        BY <2>1, <2>2, <3>1, <4>1, SentIsAddressed DEF Deliver
    <3>3. t = q /\ x = s
      <4>1. t # q => OnlyTo(q, Signal(s))[t] = Silence
        BY DEF OnlyTo, Quiet
      <4>2. t = q => OnlyTo(q, Signal(s))[t] = Signal(s)
        BY DEF OnlyTo, Quiet
      <4>3. Signal(s) = Signal(x) => s = x
        BY DEF Signal
      <4> QED
        BY <2>2, <3>2, <4>1, <4>2, <4>3
    <3>4. /\ r \in RoomIds /\ s \in viewers[r] \union {sharerId[r]}
          /\ IF sharerId[r] = s THEN t \in viewers[r] ELSE t = sharerId[r]
      BY <2>1, <2>4, <3>3 DEF ResolveTarget, IndexSound, RMTypeOK
    <3> HIDE DEF r
    <3>5. CASE sharerId[r] = s
      BY <2>1, <3>2, <3>3, <3>4, <3>5, NoneAssumption DEF KnowsItsPlace
    <3>6. CASE sharerId[r] # s
      <4>1. s \in viewers[r] /\ sharerId[r] = t
        BY <3>4, <3>6
      <4>2. view[t].shares = r /\ view[t].peers = viewers[r]
        BY <2>1, <3>4, <4>1 DEF KnowsItsPlace
      <4> QED
        BY <3>2, <3>3, <3>4, <4>1, <4>2, NoneAssumption
    <3> QED
      BY <3>5, <3>6
  <2> QED
    BY <2>3, <2>4
<1> QED
  BY <1>1, <1>2, OnlySignalsRelay

(***************************************************************************)
(* The authorization rule does what it is for, whatever the traffic: no    *)
(* offer, answer or candidate reaches a client that does not know who      *)
(* sends it.                                                               *)
(***************************************************************************)
THEOREM SignalsReachAcquaintances ==
  ASSUME OneRole
  PROVE  SSSpec => []SignalsBetweenAcquainted
<1>1. SSInit => SignalsBetweenAcquainted
  BY DEF SSInit, SignalsBetweenAcquainted
<1>2. MembershipInv /\ SignalsBetweenAcquainted /\ [SSNext]_ssVars
        => SignalsBetweenAcquainted'
  BY AcquaintedStep
<1>3. SSSpec => []MembershipInv
  BY MembershipInvariant
<1> QED
  BY <1>1, <1>2, <1>3, PTL DEF SSSpec
-----------------------------------------------------------------------------
\* A room that loses its sharer loses it by that sharer's departure.
LEMMA RoomEndsByDeparture ==
  ASSUME RMTypeOK, OneRole, [SSNext]_ssVars,
         NEW r \in RoomIds, sharerId[r] # None, sharerId'[r] # sharerId[r]
  PROVE  \E s \in Sessions : /\ HandleLeaveRoom(s) \/ Close(s)
                             /\ RemovalKind(s) = "room-ended" /\ r = sessionRooms[s]
<1>1. ASSUME NEW s \in Sessions, HandleLeaveRoom(s) \/ Close(s)
      PROVE  RemovalKind(s) = "room-ended" /\ r = sessionRooms[s]
  BY <1>1 DEF HandleLeaveRoom, Close, RemoveSession, SharersWithout, RMTypeOK
<1>2. ASSUME NEW s \in Sessions, NEW q \in RoomIds, HandleCreateRoom(s, q) PROVE FALSE
  <2>1. SharersWithout(s) = sharerId
    BY <1>2 DEF HandleCreateRoom, MayEnterRoom, SharersWithout, RemovalKind, RMTypeOK
  <2> QED
    BY <1>2, <2>1 DEF HandleCreateRoom, CreateRoom, RMTypeOK
<1>3. ASSUME NEW s \in Sessions, NEW q \in RoomIds, HandleJoinRoom(s, q) PROVE FALSE
  BY <1>3 DEF HandleJoinRoom, JoinRoom, rmVars
<1>4. ASSUME NEW s \in Sessions,
             Connect(s) \/ Vanish(s) \/ Disconnect(s) \/ Pong(s) \/ HandleRefused(s)
      PROVE  FALSE
  BY <1>4 DEF Connect, Vanish, Disconnect, Pong, HandleRefused, rmVars
<1>5. ASSUME NEW s \in Sessions, NEW q \in Sessions, HandleSignal(s, q) PROVE FALSE
  BY <1>5 DEF HandleSignal, rmVars
<1>6. ~(Heartbeat \/ Shutdown \/ UNCHANGED ssVars)
  BY DEF Heartbeat, Shutdown, rmVars, ssVars
<1> QED
  BY <1>1, <1>2, <1>3, <1>4, <1>5, <1>6 DEF SSNext

(***************************************************************************)
(* If clients enter a room only from none, no room ever ends in silence:   *)
(* the step that ends it sends room-ended to each viewer still connected.  *)
(***************************************************************************)
THEOREM NoRoomEndsInSilence ==
  ASSUME OneRole
  PROVE  SSSpec => EndedRoomIsTold
<1> DEFINE Told == \A r \in RoomIds : sharerId[r] # None /\ sharerId'[r] # sharerId[r] =>
                     \A v \in viewers[r] : status[v] = "open" => sent'[v] = RoomEnded
<1>1. RMTypeOK /\ [SSNext]_ssVars => Told
  <2> SUFFICES ASSUME RMTypeOK, [SSNext]_ssVars, NEW r \in RoomIds,
                      sharerId[r] # None, sharerId'[r] # sharerId[r],
                      NEW v \in viewers[r], status[v] = "open"
               PROVE  sent'[v] = RoomEnded
    OBVIOUS
  <2>1. PICK s \in Sessions : /\ HandleLeaveRoom(s) \/ Close(s)
                              /\ RemovalKind(s) = "room-ended" /\ r = sessionRooms[s]
    BY RoomEndsByDeparture
  <2>2. v \in Sessions /\ DepartureMessages(s)[v] = RoomEnded
    BY <2>1 DEF DepartureMessages, RMTypeOK
  <2> QED
    BY <2>1, <2>2 DEF HandleLeaveRoom, Close, Deliver, SocketOpen
<1>2. SSSpec => []RMTypeOK
  BY ServerImplementsRoomManager, RMTypeCorrect, PTL
<1>3. SSSpec => [][Told]_ssVars
  BY <1>1, <1>2, PTL DEF SSSpec
<1> QED
  BY <1>3 DEF EndedRoomIsTold
-----------------------------------------------------------------------------
(***************************************************************************)
(* The server implements Lobby when clients enter a room only from none.   *)
(* The refinement mapping reads a session's place off the reverse index,   *)
(* so each step of the proof is: what the operation does to the tables is  *)
(* what the abstract action does to the places.                            *)
(***************************************************************************)

place == PlaceInIndex
TableInv == RMTypeOK /\ IndexSound /\ IndexComplete /\ ViewerCap

\* Places are distinct as long as rooms are.
LEMMA PlacesDiffer ==
  ASSUME NEW r, NEW q
  PROVE  /\ L!Sharing(r) # L!Nowhere /\ L!Watching(r) # L!Nowhere
         /\ L!Sharing(r) # L!Watching(q)
         /\ L!Sharing(r) = L!Sharing(q) => r = q
         /\ L!Watching(r) = L!Watching(q) => r = q
BY DEF L!Sharing, L!Watching, L!Nowhere

\* The place of a session in each of the three situations it can be in.
LEMMA PlaceIs ==
  ASSUME TableInv, NEW s \in Sessions
  PROVE  /\ sessionRooms[s] = None => place[s] = L!Nowhere
         /\ \A r \in RoomIds : sharerId[r] = s => place[s] = L!Sharing(r)
         /\ \A r \in RoomIds : s \in viewers[r] => place[s] = L!Watching(r)
<1>1. sessionRooms[s] = None => place[s] = L!Nowhere
  BY DEF place, PlaceInIndex, L!Nowhere
<1>2. ASSUME NEW r \in RoomIds, sharerId[r] = s PROVE place[s] = L!Sharing(r)
  <2>1. sessionRooms[s] = r /\ r # None
    BY <1>2, NoneAssumption DEF TableInv, IndexComplete, RoomExists
  <2> QED
    BY <1>2, <2>1 DEF place, PlaceInIndex, L!Sharing
<1>3. ASSUME NEW r \in RoomIds, s \in viewers[r] PROVE place[s] = L!Watching(r)
  <2>1. RoomExists(r)
    BY <1>3 DEF TableInv, RMTypeOK
  <2>2. sessionRooms[s] = r /\ r # None
    BY <1>3, <2>1, NoneAssumption DEF TableInv, IndexComplete
  <2>3. sharerId[r] # s
    BY <1>3 DEF TableInv, ViewerCap
  <2> QED
    BY <2>2, <2>3 DEF place, PlaceInIndex, L!Watching
<1> QED
  BY <1>1, <1>2, <1>3

\* And back: a place tells what the tables hold.
LEMMA PlaceMeans ==
  ASSUME TableInv, NEW s \in Sessions, NEW r \in RoomIds
  PROVE  /\ place[s] = L!Nowhere <=> sessionRooms[s] = None
         /\ place[s] = L!Sharing(r) <=> sharerId[r] = s
         /\ place[s] = L!Watching(r) <=> s \in viewers[r]
<1>1. \/ sessionRooms[s] = None
      \/ \E q \in RoomIds : sessionRooms[s] = q /\ (sharerId[q] = s \/ s \in viewers[q])
  BY DEF TableInv, RMTypeOK, IndexSound
<1>2. sessionRooms[s] = None => sharerId[r] # s /\ s \notin viewers[r]
  BY NoEntryNoRoom DEF TableInv
<1>3. r # None
  BY NoneAssumption
<1>4. sharerId[r] = s => sessionRooms[s] = r
  BY NoneAssumption DEF TableInv, IndexComplete, RoomExists
<1>5. s \in viewers[r] => sessionRooms[s] = r
  BY DEF TableInv, IndexComplete, RMTypeOK
<1> QED
  BY <1>1, <1>2, <1>3, <1>4, <1>5, PlaceIs, PlacesDiffer

LEMMA PlaceSets ==
  ASSUME TableInv, NEW r \in RoomIds
  PROVE  /\ L!SharersOf(r) = {s \in Sessions : sharerId[r] = s}
         /\ L!WatchersOf(r) = viewers[r]
  <1>1. \A s \in Sessions : place[s] = L!Sharing(r) <=> sharerId[r] = s
    BY PlaceMeans
  <1>2. \A s \in Sessions : place[s] = L!Watching(r) <=> s \in viewers[r]
    BY PlaceMeans
  <1>3. viewers[r] \subseteq Sessions
    BY DEF TableInv, RMTypeOK
  <1> QED
    BY <1>1, <1>2, <1>3 DEF L!SharersOf, L!WatchersOf, place

LEMMA PlaceIsFunction ==
  /\ place = [s \in Sessions |-> place[s]]
  /\ place' = [s \in Sessions |-> place'[s]]
BY DEF place, PlaceInIndex
-----------------------------------------------------------------------------
\* A room ends: its sharer and its viewers lose their places, nobody else does.
LEMMA RemovalIsGivingUp ==
  ASSUME TableInv, TableInv', NEW s \in Sessions, RemoveSession(s)
  PROVE  [L!LobbyNext]_place
<1> DEFINE r == sessionRooms[s]
<1>0. /\ RMTypeOK /\ IndexSound
      /\ sessionRooms' = IndexWithout(s) /\ sharerId' = SharersWithout(s)
  BY DEF TableInv, RemoveSession
<1>1. CASE RemovalKind(s) = "none"
  <2>1. sessionRooms' = sessionRooms /\ sharerId' = sharerId
    BY <1>0, <1>1 DEF RemovalKind, IndexWithout, SharersWithout, IndexSound, RMTypeOK
  <2> QED
    BY <2>1 DEF place, PlaceInIndex
<1>2. CASE RemovalKind(s) = "viewer-left"
  <2>1. r \in RoomIds /\ s \in viewers[r]
    BY <1>0, <1>2 DEF RemovalKind, IndexSound, RMTypeOK
  <2>2. sharerId' = sharerId /\ \A t \in Sessions : sessionRooms'[t] = IF t = s THEN None ELSE sessionRooms[t]
    BY <1>0, <1>2 DEF SharersWithout, IndexWithout, RMTypeOK
  <2>3. place'[s] = L!Nowhere
    BY <2>2 DEF place, PlaceInIndex, L!Nowhere
  <2>4. \A t \in Sessions : t # s => place'[t] = place[t]
    BY <2>2 DEF place, PlaceInIndex
  <2>5. place[s] = L!Watching(r)
    BY <2>1, PlaceMeans
  <2>6. place' = [place EXCEPT ![s] = L!Nowhere]
    BY <2>3, <2>4, PlaceIsFunction
  <2>7. L!StopWatching(s, r)
    BY <2>5, <2>6 DEF L!StopWatching, place
  <2> QED
    BY <2>1, <2>7 DEF L!LobbyNext
<1>3. CASE RemovalKind(s) = "room-ended"
  <2>1. r \in RoomIds /\ sharerId[r] = s
    BY <1>0, <1>3 DEF RemovalKind, RMTypeOK
  <2>2. /\ \A q \in RoomIds : sharerId'[q] = IF q = r THEN None ELSE sharerId[q]
        /\ \A t \in Sessions : sessionRooms'[t] = IF t = s \/ t \in viewers[r] THEN None ELSE sessionRooms[t]
    BY <1>0, <1>3 DEF SharersWithout, IndexWithout
  <2>3. ASSUME NEW t \in Sessions, t = s \/ t \in viewers[r] PROVE place'[t] = L!Nowhere
    BY <2>2, <2>3 DEF place, PlaceInIndex, L!Nowhere
  <2>4. ASSUME NEW t \in Sessions, t # s, t \notin viewers[r] PROVE place'[t] = place[t]
    <3>1. sessionRooms'[t] = sessionRooms[t] /\ sessionRooms[t] \in RoomIds \union {None}
      BY <1>0, <2>2, <2>4 DEF RMTypeOK
    <3>2. sessionRooms[t] # r
      BY <1>0, <2>1, <2>4, NoneAssumption DEF IndexSound
    <3>3. sessionRooms[t] # None => sharerId'[sessionRooms[t]] = sharerId[sessionRooms[t]]
      BY <2>2, <3>1, <3>2
    <3> QED
      BY <3>1, <3>3 DEF place, PlaceInIndex
  <2>5. place[s] = L!Sharing(r) /\ L!WatchersOf(r) = viewers[r]
    BY <2>1, PlaceMeans, PlaceSets
  <2>6. place' = [t \in Sessions |-> IF t = s \/ t \in viewers[r] THEN L!Nowhere ELSE place[t]]
    BY <2>3, <2>4, PlaceIsFunction
  <2>7. L!StopSharing(s, r)
    BY <2>5, <2>6 DEF L!StopSharing, place
  <2> QED
    BY <2>1, <2>7 DEF L!LobbyNext
<1> QED
  BY <1>1, <1>2, <1>3 DEF RemovalKind

LEMMA CreationIsOpening ==
  ASSUME TableInv, TableInv', NEW s \in Sessions, NEW r \in RoomIds,
         sessionRooms[s] = None, CreateRoom(s, r)
  PROVE  L!Open(s, r)
<1>1. /\ SharersWithout(s) = sharerId /\ \A t \in Sessions : IndexWithout(s)[t] = sessionRooms[t]
  BY DEF TableInv, RMTypeOK, SharersWithout, IndexWithout, RemovalKind
<1>2. /\ sharerId[r] = None
      /\ \A q \in RoomIds : sharerId'[q] = IF q = r THEN s ELSE sharerId[q]
      /\ \A t \in Sessions : sessionRooms'[t] = IF t = s THEN r ELSE sessionRooms[t]
  BY <1>1 DEF CreateRoom, TableInv, RMTypeOK, IndexWithout
<1>3. place[s] = L!Nowhere /\ place'[s] = L!Sharing(r)
  <2>1. r # None
    BY NoneAssumption
  <2> QED
    BY <1>2, <2>1 DEF place, PlaceInIndex, L!Nowhere, L!Sharing
<1>4. ASSUME NEW t \in Sessions, t # s PROVE place'[t] = place[t]
  <2>1. sessionRooms'[t] = sessionRooms[t] /\ sessionRooms[t] \in RoomIds \union {None}
    BY <1>2, <1>4 DEF TableInv, RMTypeOK
  <2>2. sessionRooms[t] # r
    BY <1>2, NoneAssumption DEF TableInv, IndexSound, RoomExists
  <2>3. sessionRooms[t] # None => sharerId'[sessionRooms[t]] = sharerId[sessionRooms[t]]
    BY <1>2, <2>1, <2>2
  <2> QED
    BY <2>1, <2>3 DEF place, PlaceInIndex
<1>5. L!SharersOf(r) = {}
  BY <1>2, PlaceSets, NoneAssumption
<1>6. place' = [place EXCEPT ![s] = L!Sharing(r)]
  BY <1>3, <1>4, PlaceIsFunction
<1> QED
  BY <1>3, <1>5, <1>6 DEF L!Open, place

LEMMA JoiningIsEntering ==
  ASSUME TableInv, TableInv', NEW s \in Sessions, NEW r \in RoomIds,
         sessionRooms[s] = None, JoinResult(r, s) = "ok", JoinRoom(r, s)
  PROVE  L!Enter(s, r)
<1>1. /\ sharerId' = sharerId
      /\ \A t \in Sessions : sessionRooms'[t] = IF t = s THEN r ELSE sessionRooms[t]
      /\ s \in viewers'[r]
  BY DEF JoinRoom, TableInv, RMTypeOK
<1>2. /\ sharerId[r] \in Sessions /\ IsFiniteSet(viewers[r])
      /\ ~(Cardinality(viewers[r]) >= MaxViewers)
  BY DEF JoinResult, RoomExists, TableInv, RMTypeOK, ViewerCap
<1>3. place[s] = L!Nowhere /\ place'[s] = L!Watching(r)
  <2>1. r # None /\ sharerId[r] # s
    BY NoneAssumption, NoEntryNoRoom DEF TableInv
  <2> QED
    BY <1>1, <2>1 DEF place, PlaceInIndex, L!Nowhere, L!Watching
<1>4. ASSUME NEW t \in Sessions, t # s PROVE place'[t] = place[t]
  BY <1>1, <1>4 DEF place, PlaceInIndex
<1>5. L!SharersOf(r) # {} /\ L!WatchersOf(r) = viewers[r]
  BY <1>2, PlaceSets
<1>6. L!Cardinality(L!WatchersOf(r)) < MaxViewers
  <2>1. Cardinality(viewers[r]) < MaxViewers
    BY <1>2, MaxViewersAssumption, FS_CardinalityType
  <2>2. L!Cardinality(viewers[r]) = Cardinality(viewers[r])
    BY DEF L!Cardinality, Cardinality
  <2> QED
    BY <1>5, <2>1, <2>2
<1>7. place' = [place EXCEPT ![s] = L!Watching(r)]
  BY <1>3, <1>4, PlaceIsFunction
<1> QED
  BY <1>3, <1>5, <1>6, <1>7 DEF L!Enter, place
-----------------------------------------------------------------------------
LEMMA LobbyStep ==
  ASSUME OneRole, TableInv, TableInv', [SSNext]_ssVars
  PROVE  [L!LobbyNext]_place
<1>1. CASE UNCHANGED rmVars
  BY <1>1 DEF rmVars, place, PlaceInIndex
<1>2. ASSUME NEW s \in Sessions, HandleLeaveRoom(s) \/ Close(s)
      PROVE  [L!LobbyNext]_place
  BY <1>2, RemovalIsGivingUp DEF HandleLeaveRoom, Close
<1>3. ASSUME NEW s \in Sessions, NEW r \in RoomIds, HandleCreateRoom(s, r)
      PROVE  [L!LobbyNext]_place
  <2>1. L!Open(s, r)
    BY <1>3, CreationIsOpening DEF HandleCreateRoom, MayEnterRoom
  <2> QED
    BY <2>1 DEF L!LobbyNext
<1>4. ASSUME NEW s \in Sessions, NEW r \in RoomIds, HandleJoinRoom(s, r)
      PROVE  [L!LobbyNext]_place
  <2>1. CASE JoinResult(r, s) = "ok"
    <3>1. L!Enter(s, r)
      BY <1>4, <2>1, JoiningIsEntering DEF HandleJoinRoom, MayEnterRoom
    <3> QED
      BY <3>1 DEF L!LobbyNext
  <2>2. CASE JoinResult(r, s) # "ok"
    BY <1>1, <1>4, <2>2 DEF HandleJoinRoom, JoinRoom
  <2> QED
    BY <2>1, <2>2
<1>5. ASSUME NEW s \in Sessions,
             Connect(s) \/ Vanish(s) \/ Disconnect(s) \/ Pong(s) \/ HandleRefused(s)
      PROVE  UNCHANGED rmVars
  BY <1>5 DEF Connect, Vanish, Disconnect, Pong, HandleRefused
<1>6. ASSUME NEW s \in Sessions, NEW t \in Sessions, HandleSignal(s, t)
      PROVE  UNCHANGED rmVars
  BY <1>6 DEF HandleSignal
<1>7. CASE Heartbeat \/ Shutdown
  BY <1>1, <1>7 DEF Heartbeat, Shutdown
<1>8. CASE UNCHANGED ssVars
  BY <1>1, <1>8 DEF ssVars, rmVars
<1> QED
  BY <1>1, <1>2, <1>3, <1>4, <1>5, <1>6, <1>7, <1>8 DEF SSNext

(***************************************************************************)
(* If clients enter a room only from none, the server keeps the promise    *)
(* Lobby makes to its users, for any sets of sessions and rooms: one place *)
(* each, and a room that ends takes all its viewers with it at once.       *)
(***************************************************************************)
THEOREM ServerImplementsLobby ==
  ASSUME OneRole
  PROVE  SSSpec => ImplementsLobby
<1>1. SSInit => L!LobbyInit
  BY DEF SSInit, RMInit, L!LobbyInit, PlaceInIndex, L!Nowhere
<1>2. SSSpec => []TableInv
  BY ServerImplementsRoomManager, RMTypeCorrect, ServerIndexIsSound, ServerViewerCap,
     ServerIndexIsComplete, PTL DEF TableInv
<1>3. TableInv /\ TableInv' /\ [SSNext]_ssVars => [L!LobbyNext]_PlaceInIndex
  BY LobbyStep DEF place
<1> QED
  BY <1>1, <1>2, <1>3, PTL DEF SSSpec, ImplementsLobby, L!LobbySpec
-----------------------------------------------------------------------------
(***************************************************************************)
(* The rate limiter, for every token size, rate, burst and clock.  The     *)
(* products of Rate with a span of time are opaque to the solver, so the   *)
(* one law they need is stated first.                                      *)
(***************************************************************************)

LEMMA SpansAdd ==
  ASSUME NEW a \in Int, NEW b \in Int, NEW c \in Int, NEW k \in Int
  PROVE  /\ (b - a) * k \in Int /\ (c - b) * k \in Int /\ (c - a) * k \in Int
         /\ (c - a) * k = (c - b) * k + (b - a) * k
OBVIOUS

LEMMA SpanNonNegative ==
  ASSUME NEW d \in Int, NEW k \in Int, d >= 0, k >= 0
  PROVE  d * k >= 0 /\ d * k \in Int
OBVIOUS

LEMMA SpansGrow ==
  ASSUME NEW a \in Int, NEW b \in Int, NEW k \in Int, a <= b, k >= 0
  PROVE  a * k <= b * k /\ a * k \in Int /\ b * k \in Int
<1>1. b * k = (b - a) * k + a * k
  OBVIOUS
<1>2. (b - a) * k >= 0 /\ (b - a) * k \in Int
  BY SpanNonNegative
<1>3. a * k \in Int /\ b * k \in Int
  OBVIOUS
<1> QED
  BY <1>1, <1>2, <1>3

LEMMA CapacityNat == Capacity \in Nat /\ Capacity >= Unit
<1>1. Burst \in Nat /\ Burst >= 1 /\ Unit \in Nat
  BY BucketAssumption
<1>2. Capacity = (Burst - 1) * Unit + Unit
  BY <1>1 DEF Capacity
<1>3. (Burst - 1) * Unit >= 0 /\ (Burst - 1) * Unit \in Int
  BY <1>1, SpanNonNegative
<1> QED
  BY <1>1, <1>2, <1>3

(***************************************************************************)
(* What refilling does: the level stays within the capacity, never drops,  *)
(* and grows by no more than the time since the last refill earns; below   *)
(* the capacity it grows by exactly that.                                  *)
(***************************************************************************)
LEMMA RefilledBounds ==
  ASSUME TBTypeOK, NEW t \in 0 .. MaxTime
  PROVE  /\ Refilled(t) \in Int /\ tokens <= Refilled(t) /\ Refilled(t) <= Capacity
         /\ RefillTime(t) \in 0 .. MaxTime /\ lastRefill <= RefillTime(t)
         /\ t <= RefillTime(t)
         /\ Refilled(t) <= tokens + (RefillTime(t) - lastRefill) * Rate
         /\ Refilled(t) < Capacity => Refilled(t) = tokens + (RefillTime(t) - lastRefill) * Rate
<1> DEFINE E == (t - lastRefill) * Rate
<1>1. /\ Capacity \in Nat /\ tokens \in Int /\ 0 <= tokens /\ tokens <= Capacity
      /\ t \in Int /\ lastRefill \in Int /\ MaxTime \in Nat /\ Rate \in Int /\ Rate >= 0
      /\ lastRefill \in 0 .. MaxTime
  BY CapacityNat, BucketAssumption DEF TBTypeOK
<1>2. E \in Int
  BY <1>1
<1>3. CASE t <= lastRefill
  <2>1. Refilled(t) = tokens /\ RefillTime(t) = lastRefill
    BY <1>1, <1>3 DEF Refilled, RefillTime
  <2>2. (lastRefill - lastRefill) * Rate = 0
    BY <1>1
  <2>3. t <= RefillTime(t)
    BY <1>3, <2>1
  <2>4. (RefillTime(t) - lastRefill) * Rate = 0
    BY <2>1, <2>2
  <2> HIDE DEF E
  <2> QED
    BY <1>1, <2>1, <2>3, <2>4
<1>4. CASE t > lastRefill
  <2>1. E >= 0
    BY <1>1, <1>4, SpanNonNegative
  <2>2. /\ Refilled(t) = IF tokens + E < Capacity THEN tokens + E ELSE Capacity
        /\ RefillTime(t) = t
    BY <1>1, <1>4 DEF Refilled, RefillTime
  <2> HIDE DEF E
  <2>3. Refilled(t) \in Int /\ tokens <= Refilled(t) /\ Refilled(t) <= Capacity
        /\ Refilled(t) <= tokens + E /\ (Refilled(t) < Capacity => Refilled(t) = tokens + E)
    BY <1>1, <1>2, <2>1, <2>2
  <2> QED
    BY <1>1, <1>4, <2>2, <2>3 DEF E
<1> QED
  BY <1>1, <1>3, <1>4

LEMMA TBTypeOKStep == TBTypeOK /\ [TBNext]_tbVars => TBTypeOK'
<1> SUFFICES ASSUME TBTypeOK, [TBNext]_tbVars PROVE TBTypeOK'
  OBVIOUS
<1>1. ASSUME NEW w \in BOOLEAN, Call(w) PROVE TBTypeOK'
  <2>1. now \in 0 .. MaxTime
    BY DEF TBTypeOK
  <2>2. /\ Refilled(now) \in Int /\ 0 <= Refilled(now) /\ Refilled(now) <= Capacity
        /\ RefillTime(now) \in 0 .. MaxTime /\ lastRefill <= RefillTime(now)
        /\ now <= RefillTime(now)
    BY <2>1, RefilledBounds, CapacityNat DEF TBTypeOK
  <2>3. /\ lastRefill' = RefillTime(now) /\ answer' = (Refilled(now) >= Unit)
        /\ tokens' = IF Refilled(now) >= Unit THEN Refilled(now) - Unit ELSE Refilled(now)
        /\ winStart' = IF w THEN lastRefill' ELSE winStart
        /\ winCount' = (IF w THEN 0 ELSE winCount) + (IF answer' THEN 1 ELSE 0)
        /\ now' = now
        /\ passed' = (IF w THEN 0 ELSE passed) /\ waited' = passed'
        /\ setBack' = IF w THEN lastRefill' - now ELSE setBack
    BY <1>1 DEF Call, TryConsume
  <2>4. tokens' \in 0 .. Capacity
    BY <2>2, <2>3, CapacityNat, BucketAssumption
  <2>5. winStart' \in 0 .. lastRefill' /\ winCount' \in Nat
    BY <2>2, <2>3, BucketAssumption DEF TBTypeOK
  <2>6. answer' \in BOOLEAN
    BY <2>3
  <2>7. passed' \in 0 .. MaxTime /\ waited' \in 0 .. passed' /\ setBack' \in 0 .. MaxTime
    BY <2>1, <2>2, <2>3, BucketAssumption DEF TBTypeOK
  <2> QED
    BY <2>1, <2>2, <2>3, <2>4, <2>5, <2>6, <2>7 DEF TBTypeOK, Capacity
<1>2. ASSUME NEW t \in 0 .. MaxTime, SetClock(t) PROVE TBTypeOK'
  BY <1>2, BucketAssumption DEF SetClock, TBTypeOK, Capacity
<1>4. ASSUME TimePasses PROVE TBTypeOK'
  BY <1>4, BucketAssumption DEF TimePasses, TBTypeOK, Capacity
<1>3. CASE UNCHANGED tbVars
  BY <1>3 DEF tbVars, TBTypeOK, Capacity
<1> QED
  BY <1>1, <1>2, <1>3, <1>4 DEF TBNext

(***************************************************************************)
(* The bucket's level stays between empty and full.                        *)
(***************************************************************************)
THEOREM TBTypeCorrect == TBSpec => []TBTypeOK
<1>1. TBInit => TBTypeOK
  BY CapacityNat, BucketAssumption DEF TBInit, TBTypeOK
<1> QED
  BY <1>1, TBTypeOKStep, PTL DEF TBSpec
-----------------------------------------------------------------------------
LEMMA AllowanceBoundStep ==
  TBTypeOK /\ TBTypeOK' /\ AllowanceBound /\ [TBNext]_tbVars => AllowanceBound'
<1> SUFFICES ASSUME TBTypeOK, TBTypeOK', AllowanceBound, [TBNext]_tbVars PROVE AllowanceBound'
  OBVIOUS
<1>1. ASSUME NEW w \in BOOLEAN, Call(w) PROVE AllowanceBound'
  <2> DEFINE R == Refilled(now)
             Old == (lastRefill - winStart) * Rate
             New == (RefillTime(now) - lastRefill) * Rate
  <2>1. now \in 0 .. MaxTime /\ Unit \in Nat /\ Rate \in Nat /\ MaxTime \in Nat
        /\ Capacity \in Nat /\ winCount \in Nat /\ tokens \in Int
        /\ lastRefill \in Int /\ winStart \in Int
    BY BucketAssumption, CapacityNat DEF TBTypeOK
  <2>2. R \in Int /\ R <= Capacity /\ R <= tokens + New /\ RefillTime(now) \in Int
    BY <2>1, RefilledBounds
  <2>3. /\ Old \in Int /\ New \in Int
        /\ (RefillTime(now) - winStart) * Rate = New + Old
    BY <2>1, <2>2, SpansAdd
  <2>4. winCount * Unit + tokens <= Capacity + Old
    BY DEF AllowanceBound
  <2>5. /\ lastRefill' = RefillTime(now)
        /\ answer' = (R >= Unit)
        /\ tokens' = IF R >= Unit THEN R - Unit ELSE R
        /\ winStart' = IF w THEN lastRefill' ELSE winStart
        /\ winCount' = (IF w THEN 0 ELSE winCount) + (IF answer' THEN 1 ELSE 0)
    BY <1>1 DEF Call, TryConsume
  <2>6. CASE w
    <3>1. (lastRefill' - winStart') * Rate = 0
      BY <2>1, <2>2, <2>5, <2>6
    <3>2. winCount' * Unit + tokens' = R
      <4>1. CASE R >= Unit
        <5>1. answer' /\ tokens' = R - Unit
          BY <2>5, <4>1
        <5> QED
          BY <2>1, <2>2, <2>5, <2>6, <5>1
      <4>2. CASE ~(R >= Unit)
        <5>1. ~answer' /\ tokens' = R
          BY <2>5, <4>2
        <5> QED
          BY <2>1, <2>2, <2>5, <2>6, <5>1
      <4> QED
        BY <4>1, <4>2
    <3> QED
      BY <2>1, <2>2, <3>1, <3>2 DEF AllowanceBound, Capacity
  <2>7. CASE ~w
    <3>1. (lastRefill' - winStart') * Rate = New + Old
      BY <2>3, <2>5, <2>7
    <3>2. winCount' * Unit + tokens' = winCount * Unit + R
      <4>1. CASE R >= Unit
        <5>1. answer' /\ tokens' = R - Unit
          BY <2>5, <4>1
        <5> QED
          BY <2>1, <2>2, <2>5, <2>7, <5>1
      <4>2. CASE ~(R >= Unit)
        <5>1. ~answer' /\ tokens' = R
          BY <2>5, <4>2
        <5> QED
          BY <2>1, <2>2, <2>5, <2>7, <5>1
      <4> QED
        BY <4>1, <4>2
    <3>3. winCount * Unit \in Int
      BY <2>1
    <3> HIDE DEF R, Old, New
    <3>4. winCount * Unit + R <= Capacity + (New + Old)
      BY <2>1, <2>2, <2>3, <2>4, <3>3
    <3> QED
      BY <3>1, <3>2, <3>4 DEF AllowanceBound, Capacity
  <2> QED
    BY <2>6, <2>7
<1>2. ASSUME NEW t \in 0 .. MaxTime, SetClock(t) PROVE AllowanceBound'
  BY <1>2 DEF SetClock, AllowanceBound, Capacity
<1>4. ASSUME TimePasses PROVE AllowanceBound'
  BY <1>4 DEF TimePasses, AllowanceBound, Capacity
<1>3. CASE UNCHANGED tbVars
  BY <1>3 DEF tbVars, AllowanceBound, Capacity
<1> QED
  BY <1>1, <1>2, <1>3, <1>4 DEF TBNext

(***************************************************************************)
(* Burst plus rate bounds what a connection gets, over every window.       *)
(***************************************************************************)
THEOREM AllowanceIsBounded == TBSpec => []AllowanceBound
<1>1. TBInit => AllowanceBound
  BY CapacityNat, BucketAssumption DEF TBInit, AllowanceBound
<1> QED
  BY <1>1, TBTypeCorrect, AllowanceBoundStep, PTL DEF TBSpec
-----------------------------------------------------------------------------
(***************************************************************************)
(* NotStarved with what makes it inductive: while a window has seen nothing*)
(* accepted, its last call was refused and the bucket holds all that the   *)
(* window's time has earned.                                               *)
(***************************************************************************)
Accrual ==
  winCount = 0 => \/ lastRefill = winStart
                  \/ (lastRefill - winStart) * Rate <= tokens /\ tokens < Unit

LEMMA AccrualStep ==
  TBTypeOK /\ TBTypeOK' /\ Accrual /\ [TBNext]_tbVars => Accrual'
<1> SUFFICES ASSUME TBTypeOK, TBTypeOK', Accrual, [TBNext]_tbVars PROVE Accrual'
  OBVIOUS
<1>1. ASSUME NEW w \in BOOLEAN, Call(w) PROVE Accrual'
  <2> DEFINE Old == (lastRefill - winStart) * Rate
             New == (RefillTime(now) - lastRefill) * Rate
  <2>1. now \in 0 .. MaxTime /\ Unit \in Nat /\ Rate \in Nat /\ MaxTime \in Nat
        /\ Capacity \in Nat /\ Capacity >= Unit /\ winCount \in Nat
        /\ tokens \in Int /\ 0 <= tokens /\ lastRefill \in Int /\ winStart \in Int
    BY BucketAssumption, CapacityNat DEF TBTypeOK
  <2>2. /\ lastRefill' = RefillTime(now) /\ answer' = (Refilled(now) >= Unit)
        /\ tokens' = IF Refilled(now) >= Unit THEN Refilled(now) - Unit ELSE Refilled(now)
        /\ winStart' = IF w THEN lastRefill' ELSE winStart
        /\ winCount' = (IF w THEN 0 ELSE winCount) + (IF answer' THEN 1 ELSE 0)
    BY <1>1 DEF Call, TryConsume
  <2>3. SUFFICES ASSUME winCount' = 0, ~w
                 PROVE  (lastRefill' - winStart') * Rate <= tokens' /\ tokens' < Unit
    BY <2>2 DEF Accrual
  <2>4. ~(Refilled(now) >= Unit)
    <3>1. CASE Refilled(now) >= Unit
      <4>1. answer'
        BY <2>2, <3>1
      <4>2. winCount' = winCount + 1
        BY <2>2, <2>3, <4>1
      <4> QED
        BY <2>1, <2>3, <4>2
    <3> QED
      BY <3>1
  <2>11. winCount = 0
    <3>1. ~answer'
      BY <2>2, <2>4
    <3>2. winCount' = winCount + 0
      BY <2>2, <2>3, <3>1
    <3> QED
      BY <2>1, <2>3, <3>2
  <2>5. /\ Refilled(now) \in Int /\ RefillTime(now) \in Int
        /\ Refilled(now) < Capacity => Refilled(now) = tokens + New
    BY <2>1, RefilledBounds
  <2>6. tokens' = Refilled(now) /\ Refilled(now) < Unit
    BY <2>1, <2>2, <2>4, <2>5
  <2>7. tokens' = tokens + New
    BY <2>1, <2>5, <2>6
  <2>12. lastRefill = winStart => Old = 0
    BY <2>1
  <2>8. Old <= tokens
    BY <2>1, <2>11, <2>12 DEF Accrual
  <2>9. /\ Old \in Int /\ New \in Int
        /\ (RefillTime(now) - winStart) * Rate = New + Old
    BY <2>1, <2>5, SpansAdd
  <2>10. (lastRefill' - winStart') * Rate = New + Old
    BY <2>2, <2>3, <2>9
  <2> HIDE DEF Old, New
  <2> QED
    BY <2>1, <2>6, <2>7, <2>8, <2>9, <2>10
<1>2. ASSUME NEW t \in 0 .. MaxTime, SetClock(t) PROVE Accrual'
  BY <1>2 DEF SetClock, Accrual
<1>4. ASSUME TimePasses PROVE Accrual'
  BY <1>4 DEF TimePasses, Accrual
<1>3. CASE UNCHANGED tbVars
  BY <1>3 DEF tbVars, Accrual
<1> QED
  BY <1>1, <1>2, <1>3, <1>4 DEF TBNext

(***************************************************************************)
(* What the clock says of a window, against the time that really passed: it*)
(* falls behind by what it was set back, and lastRefill is never behind it.*)
(***************************************************************************)
Elapsed ==
  /\ passed <= (now - winStart) + setBack
  /\ waited <= (lastRefill - winStart) + setBack

LEMMA ElapsedStep ==
  TBTypeOK /\ TBTypeOK' /\ Elapsed /\ [TBNext]_tbVars => Elapsed'
<1> SUFFICES ASSUME TBTypeOK, TBTypeOK', Elapsed, [TBNext]_tbVars PROVE Elapsed'
  OBVIOUS
<1> USE BucketAssumption
<1>1. ASSUME NEW w \in BOOLEAN, Call(w) PROVE Elapsed'
  <2>1. now \in Int /\ now <= RefillTime(now) /\ RefillTime(now) \in Int
    BY RefilledBounds DEF TBTypeOK
  <2>2. /\ lastRefill' = RefillTime(now) /\ now' = now
        /\ winStart' = (IF w THEN lastRefill' ELSE winStart)
        /\ passed' = (IF w THEN 0 ELSE passed) /\ waited' = passed'
        /\ setBack' = IF w THEN lastRefill' - now ELSE setBack
    BY <1>1 DEF Call, TryConsume
  <2> QED
    BY <2>1, <2>2 DEF Elapsed, TBTypeOK
<1>2. ASSUME NEW t \in 0 .. MaxTime, SetClock(t) PROVE Elapsed'
  BY <1>2 DEF SetClock, Elapsed, TBTypeOK
<1>3. CASE UNCHANGED tbVars
  BY <1>3 DEF tbVars, Elapsed
<1>4. ASSUME TimePasses PROVE Elapsed'
  BY <1>4 DEF TimePasses, Elapsed, TBTypeOK
<1> QED
  BY <1>1, <1>2, <1>3, <1>4 DEF TBNext

(***************************************************************************)
(* A client that keeps trying is let through within a token's time, and    *)
(* what the clock was set back.                                            *)
(***************************************************************************)
THEOREM NobodyIsStarved == TBSpec => []NotStarved
<1>1. TBInit => Accrual /\ Elapsed
  BY BucketAssumption DEF TBInit, Accrual, Elapsed
<1>2. TBSpec => []Accrual
  BY <1>1, TBTypeCorrect, AccrualStep, PTL DEF TBSpec
<1>3. TBSpec => []Elapsed
  BY <1>1, TBTypeCorrect, ElapsedStep, PTL DEF TBSpec
<1>4. TBTypeOK /\ Accrual /\ Elapsed => NotStarved
  <2> SUFFICES ASSUME TBTypeOK, Accrual, Elapsed, winCount = 0
               PROVE  (waited - setBack) * Rate < Unit
    BY DEF NotStarved
  <2> DEFINE E == (lastRefill - winStart) * Rate
  <2>1. /\ lastRefill \in Int /\ winStart \in Int /\ Rate \in Nat /\ Unit \in Nat \ {0}
        /\ tokens \in Int /\ waited \in Int /\ setBack \in Int
    BY BucketAssumption, CapacityNat DEF TBTypeOK
  <2>2. E \in Int /\ E < Unit
    <3>1. CASE lastRefill = winStart
      BY <2>1, <3>1
    <3>2. CASE E <= tokens /\ tokens < Unit
      <4>1. E \in Int
        BY <2>1
      <4> QED
        BY <2>1, <3>2, <4>1
    <3> QED
      BY <3>1, <3>2 DEF Accrual
  <2>3. waited - setBack <= lastRefill - winStart
    BY <2>1 DEF Elapsed
  <2>4. (waited - setBack) * Rate <= E /\ (waited - setBack) * Rate \in Int
    BY <2>1, <2>3, SpansGrow
  <2> QED
    BY <2>1, <2>2, <2>4
<1> QED
  BY <1>2, <1>3, <1>4, TBTypeCorrect, PTL
=============================================================================
