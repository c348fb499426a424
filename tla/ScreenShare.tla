---------------------------- MODULE ScreenShare ----------------------------
(***************************************************************************)
(* Desktop applications sharing and watching through the signaling server: *)
(* SharingSession and ViewingSession over SignalingLink.  Both halves of an*)
(* application listen on its one connection, and both send on it.          *)
(***************************************************************************)
EXTENDS SharingSession, ViewingSession

shareVars == <<linkVars, happened, shVars, vwVars>>

Init == LinkInit /\ SharingInit /\ ViewingInit

(***************************************************************************)
(* A frame arrives: every listener of the application gets it.             *)
(***************************************************************************)
Receive(a) ==
  /\ down[a] # <<>>
  /\ IF a \in CanShare THEN SharingHears(a, Head(down[a])) ELSE UNCHANGED <<sh, entry>>
  /\ IF a \in CanWatch THEN ViewingHears(a, Head(down[a])) ELSE UNCHANGED <<vw, offers>>
  /\ down' = [down EXCEPT ![a] = Tail(@)]
  /\ UNCHANGED <<rmVars, sess, online, used, gone, up, happened, starting, capturing, visits>>

\* The application's other half is in use as well.
Sharing(b) == b \in CanShare /\ (sh[b].state # "idle" \/ sh[b].stream # 0 \/ AwaitsCapture(b))
Watching(a) == a \in CanWatch /\ vw[a].state # "idle"

Serve(a) == ServerHandles(a) /\ UNCHANGED <<shVars, vwVars>>
CaptureGoesOn(a, n) == CaptureStarts(a, n) /\ UNCHANGED vwVars
SendOffer(a, v) == OfferReady(a, v) /\ UNCHANGED vwVars

SharingStep(a) ==
  \/ /\ \/ Stop(a)
        \/ \E n \in Starts :
             \/ Start(a, n, OnlyIf(Watching(a), "both roles"))
             \/ PickerAnswers(a, n) \/ PickerFails(a, n) \/ CaptureEnds(a, n)
        \/ \E v \in Sessions : ConnectionFails(a, v)
     /\ UNCHANGED vwVars
  \/ \E n \in Starts : CaptureGoesOn(a, n)
  \/ \E v \in Sessions : SendOffer(a, v)

\* Frames of an earlier membership of b's are still under way somewhere, or b goes
\* on from an error, where nothing is cleaned up, with an offer still to answer.
Unsettled(b) ==
  \/ up[b] # <<>> \/ down[b] # <<>>
  \/ vw[b].listening # 0 /\ offers[b] # <<>>
  \/ \E a \in CanShare :
       \/ entry[a][sess[b]] # NoEntry
       \/ \E i \in 1 .. Len(up[a]) : up[a][i].type = "signal" /\ up[a][i].to = sess[b]
       \/ \E i \in 1 .. Len(down[a]) : down[a][i] \in {ViewerJoined(sess[b]), ViewerLeft(sess[b])}

(***************************************************************************)
(* The two ends have applied each other's descriptions: WebRTC connects    *)
(* them.                                                                   *)
(***************************************************************************)
Matched(a, b) ==
  LET e == entry[a][sess[b]] IN
  /\ e.phase = "answered" /\ e.of = e.conn
  /\ vw[b].conn # 0 /\ e.by = vw[b].conn
  /\ vw[b].remote = [from |-> sess[a], conn |-> e.conn]

SendAnswer(b) == AnswerReady(b) /\ UNCHANGED shVars

ShowPicture(b) ==
  /\ \E a \in CanShare : Matched(a, b)
  /\ PictureArrives(b)
  /\ UNCHANGED shVars

ViewingStep(b) ==
  \/ /\ MishapsAllowed({b}, OnlyIf(Unsettled(b), "quick rejoin")
                            \union OnlyIf(Sharing(b), "both roles"))
     /\ \E r \in RoomIds : Join(b, r)
     /\ UNCHANGED shVars
  \/ /\ MishapsAllowed({b}, OnlyIf(Sharing(b), "both roles"))
     /\ Leave(b)
     /\ UNCHANGED shVars
  \/ (AnswerFails(b) \/ PictureLost(b)) /\ UNCHANGED shVars
  \/ SendAnswer(b) \/ ShowPicture(b)

Next ==
  \/ \E a \in Apps : Receive(a) \/ Serve(a)
  \/ \E a \in CanShare : SharingStep(a)
  \/ \E b \in CanWatch : ViewingStep(b)
  \/ SocketStep /\ UNCHANGED <<shVars, vwVars>>

Spec == Init /\ [][Next]_shareVars

(***************************************************************************)
(* What is under way arrives: frames are handled, what the applications    *)
(* await comes, and two ends with each other's descriptions connect.       *)
(* Nothing is assumed of the users, nor that a broken socket comes back.   *)
(***************************************************************************)
FairSpec ==
  /\ Spec
  /\ \A a \in Apps : WF_shareVars(Receive(a)) /\ WF_shareVars(Serve(a))
  /\ \A a \in CanShare : /\ \A n \in Starts : WF_shareVars(CaptureGoesOn(a, n))
                         /\ \A v \in Sessions : WF_shareVars(SendOffer(a, v))
  /\ \A b \in CanWatch : WF_shareVars(SendAnswer(b)) /\ WF_shareVars(ShowPicture(b))

TypeOK == LinkTypeOK /\ SharingTypeOK /\ ViewingTypeOK
-----------------------------------------------------------------------------
(***************************************************************************)
(* Nothing is under way: every frame was handled, everything awaited has   *)
(* come, every broken socket was replaced and forgotten.                   *)
(***************************************************************************)
AtRest ==
  /\ gone = {}
  /\ \A a \in Apps : online[a] /\ up[a] = <<>> /\ down[a] = <<>>
  /\ \A a \in CanShare : /\ ~AwaitsCapture(a)
                         /\ \A v \in Sessions : entry[a][v].phase # "offering"
  /\ \A b \in CanWatch : offers[b] = <<>>

Restarts == {"start over error", "stop in picker"}

\* What lets an application that watches as well be in two places at the server.
InOnePlace(a) ==
  a \in CanWatch => Spared({a}, {"drop", "offer refused", "quick rejoin", "both roles"})

(***************************************************************************)
(* An application that says it is sharing captures: the picture its        *)
(* viewers are sent is live (onCaptureEnded and #cleanup).  Excused: a     *)
(* start over an error, a stop in the picker, and a capture that ends      *)
(* before start() held its stream.                                         *)
(***************************************************************************)
LiveMeansCapturing ==
  \A a \in CanShare :
    sh[a].state = "sharing" /\ Spared({a}, Restarts \union {"early end"})
      => sh[a].stream \in capturing[a]

(***************************************************************************)
(* No capture runs that the manager no longer knows of: whatever start(),  *)
(* stop(), cancelled pickers and lost connections came before, the stream  *)
(* it holds is the only one running (#cleanup).  Excused: a start over an  *)
(* error and a stop in the picker, which both leave a capture behind.      *)
(***************************************************************************)
NoOrphanCapture ==
  \A a \in CanShare : Spared({a}, Restarts) =>
    capturing[a] \subseteq {sh[a].stream} \union {n \in Starts : starting[a][n] = "audio"}

(***************************************************************************)
(* An application that says it is not sharing listens to no viewer, keeps  *)
(* none connected, and soon has no room (stop and #cleanup), unless it     *)
(* watches as well and the server has it twice: a room that ends under a   *)
(* viewer takes with it the entry its own room is found by.  Excused: a    *)
(* start over an error and a stop in the picker, after which the start     *)
(* that was under way goes on.                                             *)
(***************************************************************************)
StoppedMeansStopped ==
  \A a \in CanShare : sh[a].state = "idle" /\ Spared({a}, Restarts) =>
    /\ sh[a].listening = 0 /\ entry[a] = NoEntries
    /\ AtRest /\ InOnePlace(a) => \A r \in RoomIds : sharerId[r] # sess[a]

\* Whose session v is or, when it is nobody's any more, whose it may have been.
Bearers(v) ==
  LET now == {b \in Apps : sess[b] = v} IN
  IF now # {} THEN now ELSE {b \in Apps : ~Spared({b}, {"drop"})}

(***************************************************************************)
(* At rest a sharer's room is the server's, it keeps a connection only to  *)
(* who is in the room, and to every viewer in the room it has one, however *)
(* joins, departures and failures crossed on the way                       *)
(* (#handleSignalingMessage, addViewer, removeViewer).  One viewer's       *)
(* mishap does not excuse another's connection.  Excused: a sharer that    *)
(* started over an error, stopped in the picker or lost its socket, and a  *)
(* viewer whose connection failed or that was back too quickly.            *)
(***************************************************************************)
ConnectionsMatchRoom ==
  AtRest =>
    \A a \in CanShare :
      sh[a].managing /\ Spared({a}, Restarts \union {"drop"}) /\ InOnePlace(a) =>
        /\ sharerId[sh[a].room] = sess[a]
        /\ \A v \in Sessions : entry[a][v] # NoEntry /\ Spared(Bearers(v), {"both roles"})
                               => v \in viewers[sh[a].room]
        /\ \A b \in CanWatch : /\ sess[b] \in viewers[sh[a].room]
                               /\ Spared({b}, {"connection fails", "quick rejoin"})
                               => entry[a][sess[b]] # NoEntry

(***************************************************************************)
(* Nobody waits in vain: at rest, an application that shows a viewer a     *)
(* picture or a spinner is in the room, and its connection and the         *)
(* sharer's have each other's descriptions (addViewer, acceptOffer,        *)
(* handleAnswer).  Excused are the sharers the server has in two places: a *)
(* room that ends under one of them can leave its own room without an end; *)
(* a sharer that started over an error or stopped in the picker; and a     *)
(* viewer whose socket or connection failed or that was back too quickly.  *)
(***************************************************************************)
WaitingMeansConnecting ==
  AtRest =>
    \A b \in CanWatch :
      /\ vw[b].state \in {"connecting", "connected", "reconnecting"}
      /\ Spared({b}, {"drop", "connection fails", "quick rejoin", "both roles"})
      /\ Spared(CanShare, Restarts \union {"both roles"})
      /\ \A a \in CanShare : InOnePlace(a)
      => /\ sess[b] \in viewers[vw[b].room]
         /\ \E a \in CanShare : sharerId[vw[b].room] = sess[a] /\ Matched(a, b)

(***************************************************************************)
(* A viewer that left, was refused or was told that the room ended takes   *)
(* nobody's place: at rest the server has it in no room (leave, room-ended *)
(* and error in #handleSignalingMessage).  The errors here are those of    *)
(* the room table: on RATE_LIMITED and its like, which the link leaves     *)
(* out, the viewer cleans up as well and sends no leave-room               *)
(* (viewing-manager.ts:134).  An application that watches and shares is    *)
(* excused by InOnePlace and Restarts.                                     *)
(***************************************************************************)
AwayMeansOut ==
  AtRest =>
    \A b \in CanWatch :
      /\ vw[b].state \in {"idle", "disconnected", "error"}
      /\ InOnePlace(b) /\ Spared({b}, Restarts)
      => \A r \in RoomIds : sess[b] \notin viewers[r]

(***************************************************************************)
(* An answer is applied to the connection whose offer it answers: a viewer *)
(* that left and came back is another connection (handleAnswer).  Excused: *)
(* one that was back before the sharer heard it leave, whose old answer    *)
(* may meet the new offer.                                                 *)
(***************************************************************************)
AnswersMeetTheirOffers ==
  \A a \in CanShare, b \in CanWatch :
    LET e == entry[a][sess[b]] IN
    e.phase = "answered" /\ Spared({b}, {"quick rejoin"}) => e.of = e.conn

(***************************************************************************)
(* Each manager hears each message once: registering and unsubscribing a   *)
(* listener stay in balance (start, join and the two #cleanup).  Excused:  *)
(* what registers a second time without #cleanup, a start over an error or *)
(* after a stop in the picker, and a join after a refused offer or a lost  *)
(* socket.                                                                 *)
(***************************************************************************)
HeardOnce ==
  /\ \A a \in CanShare : Spared({a}, Restarts) => sh[a].listening <= 1
  /\ \A b \in CanWatch : Spared({b}, {"offer refused", "drop"}) => vw[b].listening <= 1

(***************************************************************************)
(* Nobody waits for ever: a join is followed by a picture, a failure, a    *)
(* refusal, the room's end or the user's leaving (join, acceptOffer,       *)
(* handleAnswer).  Excused: a connection that fails at the sharer's end,   *)
(* of which the viewer hears nothing.                                      *)
(***************************************************************************)
EveryJoinSettles ==
  \A b \in CanWatch :
    vw[b].state = "connecting" /\ Spared({b}, {"connection fails"})
      ~> vw[b].state # "connecting" \/ ~Spared({b}, {"connection fails"})

(***************************************************************************)
(* "closing the panel or navigating home must not stop a share": at rest,  *)
(* an application that says it is sharing has its room, whatever screens   *)
(* were opened and left meanwhile (leave on unmount, leave-room).          *)
(***************************************************************************)
ShareOutlivesScreens ==
  AtRest => \A a \in CanShare : sh[a].state = "sharing" => sharerId[sh[a].room] = sess[a]
=============================================================================
