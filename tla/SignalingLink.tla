--------------------------- MODULE SignalingLink ---------------------------
(***************************************************************************)
(* The signaling server as a desktop application meets it: a FIFO of frames*)
(* it has sent, a FIFO of frames it has not handled yet, and a session that*)
(* is replaced when the socket is.  The server's handlers                  *)
(* (apps/signaling/src/server.ts) work on the room table of RoomManager;   *)
(* the socket's life on the desktop's side is SignalingClient's.           *)
(***************************************************************************)
EXTENDS SignalingRules, Sequences

CONSTANTS
  Apps,        \* desktop applications
  Mishaps,     \* the mishaps a behaviour may contain
  MaxMishaps   \* bound: how many of them

\* Each application starts with a session of its own.
ASSUME SessionsAssumption ==
  \E f \in [Apps -> Sessions] : \A a, b \in Apps : a # b => f[a] # f[b]

VARIABLES
  sess,        \* app -> the session of its current or last socket
  online,      \* app -> its signaling client is connected
  used,        \* the sessions there were so far: a randomUUID does not come twice
  gone,        \* sessions whose socket broke and that the server still has
  up,          \* app -> frames sent and not handled by the server yet
  down,        \* app -> frames sent to it and not handled yet
  happened     \* the mishaps so far, each with the application it befell

linkVars == <<rmVars, sess, online, used, gone, up, down>>

(***************************************************************************)
(* Mishaps are steps that are legal, that most behaviours do without, and  *)
(* that some promise of the sessions does not survive.  A step that is one *)
(* says whose it is; a property of ScreenShare names those it excuses.     *)
(***************************************************************************)
MishapsAllowed(who, ms) ==
  /\ (ms \X who) \subseteq (Mishaps \X Apps)
  /\ happened' = happened \union (ms \X who)
  /\ Cardinality(happened') <= MaxMishaps

Spared(who, ms) == happened \intersect (ms \X who) = {}
OnlyIf(condition, m) == IF condition THEN {m} ELSE {}

LinkTypeOK ==
  /\ RMTypeOK
  /\ sess \in [Apps -> Sessions]
  /\ online \in [Apps -> BOOLEAN]
  /\ used \subseteq Sessions
  /\ gone \subseteq Sessions
  /\ happened \subseteq (Mishaps \X Apps)

LinkInit ==
  /\ RMInit
  /\ sess = CHOOSE f \in [Apps -> Sessions] : \A a, b \in Apps : a # b => f[a] # f[b]
  /\ online = [a \in Apps |-> TRUE]
  /\ used = {sess[a] : a \in Apps}
  /\ gone = {}
  /\ up = [a \in Apps |-> <<>>] /\ down = [a \in Apps |-> <<>>]
  /\ happened = {}

\* The messages of the negotiation: `conn` identifies the offering connection.
Offer(s, conn) == [type |-> "offer", from |-> s, conn |-> conn]
Answer(s, conn, by) == [type |-> "answer", from |-> s, conn |-> conn, by |-> by]
To(target, signal) == [type |-> "signal", to |-> target, signal |-> signal]
Plain(type) == [type |-> type]
JoinMsg(r) == [type |-> "join-room", room |-> r]

\* SignalingClient.send as its callers use it: nothing goes out while offline.
Sent(a, frames) == IF online[a] THEN [up EXCEPT ![a] = @ \o frames] ELSE up
-----------------------------------------------------------------------------
(***************************************************************************)
(* The server.  Pushed(msgs) queues what a handler pushes; a session whose *)
(* socket broke gets nothing.                                              *)
(***************************************************************************)
Pushed(msgs) ==
  down' = [a \in Apps |-> IF online[a] /\ msgs[sess[a]] # Silence
                          THEN Append(down[a], msgs[sess[a]]) ELSE down[a]]

\* The server takes the next frame of a, of the given type.
Takes(a, type) ==
  /\ up[a] # <<>> /\ Head(up[a]).type = type
  /\ up' = [up EXCEPT ![a] = Tail(@)]
  /\ UNCHANGED <<sess, online, used, gone, happened>>

ServerCreates(a) ==
  /\ Takes(a, "create-room")
  /\ \E r \in RoomIds : CreateRoom(sess[a], r) /\ Pushed(OnlyTo(sess[a], RoomCreated(r)))

ServerJoins(a) ==
  /\ Takes(a, "join-room")
  /\ LET s == sess[a]
         r == Head(up[a]).room IN
     /\ JoinRoom(r, s)
     /\ IF JoinResult(r, s) # "ok" THEN Pushed(OnlyTo(s, ErrorMsg(JoinResult(r, s))))
        ELSE Pushed([Quiet EXCEPT ![s] = RoomJoined(r, sharerId[r]),
                                  ![sharerId[r]] = ViewerJoined(s)])

ServerRemoves(a) ==
  /\ Takes(a, "leave-room")
  /\ RemoveSession(sess[a])
  /\ IF RemovalKind(sess[a]) = "none" THEN Pushed(OnlyTo(sess[a], ErrorMsg("NOT_IN_ROOM")))
     ELSE Pushed(DepartureMessages(sess[a]))

ServerRelays(a) ==
  /\ Takes(a, "signal")
  /\ LET s == sess[a]
         t == Head(up[a]).to IN
     IF ResolveTarget(s, t) = "ok" THEN Pushed(OnlyTo(t, Head(up[a]).signal))
     ELSE Pushed(OnlyTo(s, ErrorMsg(ResolveTarget(s, t))))
  /\ UNCHANGED rmVars

\* The socket breaks: what was in flight is lost, the server learns later.
Drop(a) ==
  /\ online[a]
  /\ MishapsAllowed({a}, {"drop"})
  /\ online' = [online EXCEPT ![a] = FALSE]
  /\ gone' = gone \union {sess[a]}
  /\ up' = [up EXCEPT ![a] = <<>>] /\ down' = [down EXCEPT ![a] = <<>>]
  /\ UNCHANGED <<rmVars, sess, used>>

\* The client is back, with a new session that is in no room.
Reconnect(a, s) ==
  /\ ~online[a]
  /\ s \notin used /\ used' = used \union {s}
  /\ online' = [online EXCEPT ![a] = TRUE]
  /\ sess' = [sess EXCEPT ![a] = s]
  /\ UNCHANGED <<rmVars, gone, up, down, happened>>

\* 'close' of a broken socket reaches the server.
ServerForgets(s) ==
  /\ s \in gone
  /\ gone' = gone \ {s}
  /\ RemoveSession(s)
  /\ Pushed(DepartureMessages(s))
  /\ UNCHANGED <<sess, online, used, up, happened>>

ServerHandles(a) == ServerCreates(a) \/ ServerJoins(a) \/ ServerRemoves(a) \/ ServerRelays(a)

SocketStep ==
  \/ \E a \in Apps : Drop(a) \/ \E s \in Sessions : Reconnect(a, s)
  \/ \E s \in Sessions : ServerForgets(s)
=============================================================================
