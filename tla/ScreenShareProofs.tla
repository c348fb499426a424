-------------------------- MODULE ScreenShareProofs --------------------------
(***************************************************************************)
(* Theorems about applications that share and watch, for any sets of       *)
(* applications, sessions and rooms, any numbers of starts, joins and      *)
(* leaves, and whatever mishaps come together.                             *)
(***************************************************************************)
EXTENDS ScreenShare, RoomManagerProofs, SequenceTheorems

(***************************************************************************)
(* What can be in the two queues of an application, and what a viewer has  *)
(* taken from the second.                                                  *)
(***************************************************************************)
Signals ==
  [type : {"offer"}, from : Sessions, conn : Nat]
  \union [type : {"answer"}, from : Sessions, conn : Nat, by : Nat]
UpFrames ==
  [type : {"create-room", "leave-room"}]
  \union [type : {"join-room"}, room : RoomIds]
  \union [type : {"signal"}, to : Sessions, signal : Signals]
DownFrames ==
  [type : {"error"}, code : ErrorCodes]
  \union [type : {"room-created"}, room : RoomIds]
  \union [type : {"room-joined"}, room : RoomIds, sharer : Sessions]
  \union [type : {"viewer-joined", "viewer-left"}, viewer : Sessions]
  \union [type : {"room-ended"}]
  \union Signals
TakenOffers == [from : Sessions, conn : Nat]

FrameTypes ==
  /\ up \in [Apps -> Seq(UpFrames)]
  /\ down \in [Apps -> Seq(DownFrames)]
TableTypes ==
  /\ RMTypeOK
  /\ sess \in [Apps -> Sessions]
  /\ online \in [Apps -> BOOLEAN]
  /\ used \subseteq Sessions
  /\ gone \subseteq Sessions
MishapTypes == happened \subseteq (Mishaps \X Apps)
WatchTypes ==
  /\ vw \in [CanWatch -> Watchers]
  /\ offers \in [CanWatch -> Seq(TakenOffers)]
VisitTypes == visits \in [CanWatch -> [joins : 0 .. MaxJoins, leaves : 0 .. MaxLeaves]]

(***************************************************************************)
(* A manager that can still unsubscribe listens, and a sharer listens at   *)
(* most once for each start() that went through.                           *)
(***************************************************************************)
StartsDone(a) == {n \in Starts : starting[a][n] = "done"}
ListenersCount ==
  /\ \A a \in CanShare : /\ sh[a].subscribed => sh[a].listening >= 1
                         /\ sh[a].listening <= Cardinality(StartsDone(a))
  /\ \A b \in CanWatch : vw[b].subscribed => vw[b].listening >= 1

Typed ==
  /\ TableTypes /\ FrameTypes /\ MishapTypes /\ SharingTypeOK /\ WatchTypes /\ VisitTypes
  /\ ListenersCount

(***************************************************************************)
(* A sharer that neither starts over an error nor stops in the picker has  *)
(* one start() under way at a time, and either holds a stream, listens and *)
(* has all that goes with it, or has nothing.                              *)
(***************************************************************************)
Steady(a) == Spared({a}, Restarts)
NotEndedEarly(a) == Spared({a}, {"early end"})
Under(a, n) == starting[a][n] \in {"picker", "audio"}

OneStart(a) ==
  /\ \A n, k \in Starts : Under(a, n) /\ Under(a, k) => n = k
  /\ AwaitsCapture(a) => sh[a].state = "starting" /\ sh[a].stream = 0
Holds(a) ==
  /\ sh[a].subscribed /\ sh[a].listening = 1 /\ sh[a].state # "idle"
  /\ starting[a][sh[a].stream] = "done"
HoldsNothing(a) ==
  /\ ~sh[a].subscribed /\ sh[a].listening = 0 /\ ~sh[a].managing /\ sh[a].state # "sharing"
  /\ entry[a] = NoEntries
Captures(a) ==
  /\ capturing[a] \subseteq {sh[a].stream} \union {n \in Starts : starting[a][n] = "audio"}
  /\ NotEndedEarly(a) =>
       \A n \in Starts : n = sh[a].stream \/ starting[a][n] = "audio" => n \in capturing[a]
InOrder(a) ==
  /\ OneStart(a)
  /\ IF sh[a].stream = 0 THEN HoldsNothing(a) ELSE Holds(a)
  /\ Captures(a)
SharerInv == \A a \in CanShare : Steady(a) => InOrder(a)
-----------------------------------------------------------------------------
(***************************************************************************)
(* Mishaps are never forgotten: what is excused stays excused.             *)
(***************************************************************************)
LEMMA MishapTypesStep == MishapTypes /\ Next => MishapTypes'
<1>0. ASSUME NEW who, NEW ms, MishapTypes, MishapsAllowed(who, ms) PROVE MishapTypes'
  BY <1>0, Zenon DEF MishapTypes, MishapsAllowed
<1>1. ASSUME MishapTypes, happened' = happened PROVE MishapTypes'
  BY <1>1, Zenon DEF MishapTypes
<1> SUFFICES ASSUME MishapTypes, Next PROVE MishapTypes'
  OBVIOUS
<1>2. ASSUME NEW a \in Apps, Receive(a) \/ Serve(a) PROVE MishapTypes'
  BY <1>1, <1>2, Zenon DEF Receive, Serve, ServerHandles, ServerCreates, ServerJoins, ServerRemoves,
     ServerRelays, Takes
<1>3. ASSUME NEW a \in CanShare, SharingStep(a) PROVE MishapTypes'
  BY <1>0, <1>1, <1>3, Zenon DEF SharingStep, Stop, Start, PickerAnswers, PickerFails, CaptureEnds,
     ConnectionFails, CaptureGoesOn, CaptureStarts, SendOffer, OfferReady
<1>4. ASSUME NEW b \in CanWatch, ViewingStep(b) PROVE MishapTypes'
  BY <1>0, <1>1, <1>4, Zenon DEF ViewingStep, AnswerFails, PictureLost, SendAnswer, AnswerReady,
     ShowPicture, PictureArrives
<1>5. CASE SocketStep
  BY <1>0, <1>1, <1>5, Zenon DEF SocketStep, Drop, Reconnect, ServerForgets
<1> QED
  BY <1>2, <1>3, <1>4, <1>5, Zenon DEF Next

LEMMA MishapsStay == Next => happened \subseteq happened'
<1>0. ASSUME NEW who, NEW ms, MishapsAllowed(who, ms) PROVE happened \subseteq happened'
  BY <1>0, Zenon DEF MishapsAllowed
<1> SUFFICES ASSUME Next PROVE happened \subseteq happened'
  OBVIOUS
<1>2. ASSUME NEW a \in Apps, Receive(a) \/ Serve(a) PROVE happened \subseteq happened'
  BY <1>2, Zenon DEF Receive, Serve, ServerHandles, ServerCreates, ServerJoins, ServerRemoves,
     ServerRelays, Takes
<1>3. ASSUME NEW a \in CanShare, SharingStep(a) PROVE happened \subseteq happened'
  BY <1>0, <1>3, Zenon DEF SharingStep, Stop, Start, PickerAnswers, PickerFails, CaptureEnds,
     ConnectionFails, CaptureGoesOn, CaptureStarts, SendOffer, OfferReady
<1>4. ASSUME NEW b \in CanWatch, ViewingStep(b) PROVE happened \subseteq happened'
  BY <1>0, <1>4, Zenon DEF ViewingStep, AnswerFails, PictureLost, SendAnswer, AnswerReady,
     ShowPicture, PictureArrives
<1>5. CASE SocketStep
  BY <1>0, <1>5, Zenon DEF SocketStep, Drop, Reconnect, ServerForgets
<1> QED
  BY <1>2, <1>3, <1>4, <1>5, Zenon DEF Next

LEMMA SparedBefore ==
  ASSUME happened \subseteq happened', NEW who, NEW ms, Spared(who, ms)'
  PROVE  Spared(who, ms)
BY Zenon DEF Spared

\* What a step records is not what it spares somebody.
LEMMA SparedIsNotRecorded ==
  ASSUME NEW a, NEW m, NEW ms, NEW spared,
         MishapsAllowed({a}, ms), Spared({a}, spared)', m \in ms
  PROVE  m \notin spared
<1>1. <<m, a>> \in ms \X {a}
  OBVIOUS
<1>2. <<m, a>> \in happened'
  BY <1>1, Zenon DEF MishapsAllowed
<1>3. m \in spared => <<m, a>> \in spared \X {a}
  OBVIOUS
<1> QED
  BY <1>2, <1>3, Zenon DEF Spared

(***************************************************************************)
(* The steps, by name.                                                     *)
(***************************************************************************)
Begins(a, n) == Start(a, n, OnlyIf(Watching(a), "both roles"))
Joins(b) ==
  /\ MishapsAllowed({b}, OnlyIf(Unsettled(b), "quick rejoin")
                         \union OnlyIf(Sharing(b), "both roles"))
  /\ \E r \in RoomIds : Join(b, r)
Leaves(b) == MishapsAllowed({b}, OnlyIf(Sharing(b), "both roles")) /\ Leave(b)

SharersStep(a) ==
  \/ /\ \/ Stop(a)
        \/ \E n \in Starts :
             Begins(a, n) \/ PickerAnswers(a, n) \/ PickerFails(a, n) \/ CaptureEnds(a, n)
        \/ \E v \in Sessions : ConnectionFails(a, v)
     /\ UNCHANGED vwVars
  \/ \E n \in Starts : CaptureStarts(a, n) /\ UNCHANGED vwVars
  \/ \E v \in Sessions : OfferReady(a, v) /\ UNCHANGED vwVars
ViewersStep(b) ==
  /\ Joins(b) \/ Leaves(b) \/ AnswerFails(b) \/ PictureLost(b) \/ AnswerReady(b) \/ PictureArrives(b)
  /\ UNCHANGED shVars

LEMMA SharersStepIs == ASSUME NEW a \in CanShare, SharingStep(a) PROVE SharersStep(a)
BY Zenon DEF SharersStep, SharingStep, Begins, CaptureGoesOn, SendOffer
LEMMA ViewersStepIs == ASSUME NEW b \in CanWatch, ViewingStep(b) PROVE ViewersStep(b)
BY Zenon DEF ViewersStep, ViewingStep, Joins, Leaves, SendAnswer, ShowPicture

LEMMA BeginsIs ==
  ASSUME NEW a \in CanShare, NEW n \in Starts, Begins(a, n)
  PROVE  /\ sh[a].state \in {"idle", "error"} /\ starting[a][n] = "none"
         /\ sh' = [sh EXCEPT ![a].state = "starting"]
         /\ starting' = [starting EXCEPT ![a][n] = "picker"]
         /\ UNCHANGED <<linkVars, capturing, entry>>
         /\ Steady(a)' => sh[a].stream = 0
<1>1. ASSUME sh[a].stream # 0, Steady(a)' PROVE FALSE
  <2>1. PICK ms : MishapsAllowed({a}, ms) /\ "start over error" \in ms
    BY <1>1, Zenon DEF Begins, Start, OnlyIf
  <2>2. "start over error" \in Restarts
    BY Zenon DEF Restarts
  <2> QED
    BY <1>1, <2>1, <2>2, SparedIsNotRecorded, Zenon DEF Steady
<1>2. Steady(a)' => sh[a].stream = 0
  BY <1>1, Zenon
<1> QED
  BY <1>2, Zenon DEF Begins, Start

LEMMA StopIs ==
  ASSUME NEW a \in CanShare, Stop(a)
  PROVE  /\ sh[a].state # "idle" /\ Stopped(a)
         /\ capturing' = [capturing EXCEPT ![a] = @ \ {sh[a].stream}]
         /\ UNCHANGED <<rmVars, sess, online, used, gone, down, starting>>
         /\ Steady(a)' => ~AwaitsCapture(a)
<1>1. ASSUME AwaitsCapture(a), Steady(a)' PROVE FALSE
  <2>1. MishapsAllowed({a}, {"stop in picker"})
    BY <1>1, Zenon DEF Stop, OnlyIf
  <2>2. "stop in picker" \in Restarts
    BY Zenon DEF Restarts
  <2> QED
    BY <1>1, <2>1, <2>2, SparedIsNotRecorded, Zenon DEF Steady
<1>2. Steady(a)' => ~AwaitsCapture(a)
  BY <1>1, Zenon
<1> QED
  BY <1>2, Zenon DEF Stop

LEMMA CaptureEndsIs ==
  ASSUME NEW a \in CanShare, NEW n \in Starts, CaptureEnds(a, n)
  PROVE  /\ n \in capturing[a]
         /\ IF starting[a][n] = "audio" \/ sh[a].state = "idle"
            THEN /\ capturing' = [capturing EXCEPT ![a] = @ \ {n}]
                 /\ UNCHANGED <<up, sh, entry>>
            ELSE /\ Stopped(a)
                 /\ capturing' = [capturing EXCEPT ![a] = @ \ {n, sh[a].stream}]
         /\ UNCHANGED <<rmVars, sess, online, used, gone, down, starting>>
         /\ Steady(a)' /\ starting[a][n] = "done" => ~AwaitsCapture(a)
         /\ NotEndedEarly(a)' => starting[a][n] # "audio"
<1>1. ASSUME starting[a][n] = "done", AwaitsCapture(a), Steady(a)' PROVE FALSE
  <2>1. PICK ms : MishapsAllowed({a}, ms) /\ "stop in picker" \in ms
    BY <1>1, Zenon DEF CaptureEnds, OnlyIf
  <2>2. "stop in picker" \in Restarts
    BY Zenon DEF Restarts
  <2> QED
    BY <1>1, <2>1, <2>2, SparedIsNotRecorded, Zenon DEF Steady
<1>2. ASSUME starting[a][n] = "audio", NotEndedEarly(a)' PROVE FALSE
  <2>1. PICK ms : MishapsAllowed({a}, ms) /\ "early end" \in ms
    BY <1>2, Zenon DEF CaptureEnds, OnlyIf
  <2> QED
    BY <1>2, <2>1, SparedIsNotRecorded, Zenon DEF NotEndedEarly
<1>3. /\ Steady(a)' /\ starting[a][n] = "done" => ~AwaitsCapture(a)
      /\ NotEndedEarly(a)' => starting[a][n] # "audio"
  BY <1>1, <1>2, Zenon
<1> QED
  BY <1>3, Zenon DEF CaptureEnds

LEMMA ConnectionFailsIs ==
  ASSUME NEW a \in CanShare, NEW v \in Sessions, ConnectionFails(a, v)
  PROVE  entry[a][v].phase # "none" /\ RemoveViewer(a, v)
         /\ UNCHANGED <<linkVars, sh, starting, capturing>>
BY Zenon DEF ConnectionFails

LEMMA JoinsIs ==
  ASSUME NEW b \in CanWatch, Joins(b)
  PROVE  \E r \in RoomIds : Join(b, r)
BY Zenon DEF Joins
LEMMA LeavesIs == ASSUME NEW b \in CanWatch, Leaves(b) PROVE Leave(b)
BY Zenon DEF Leaves
LEMMA AnswerFailsIs ==
  ASSUME NEW b \in CanWatch, AnswerFails(b)
  PROVE  /\ offers[b] # <<>>
         /\ vw' = [vw EXCEPT ![b].state = "error"]
         /\ offers' = [offers EXCEPT ![b] = Tail(@)]
         /\ UNCHANGED <<linkVars, visits>>
BY Zenon DEF AnswerFails
LEMMA DropIs ==
  ASSUME NEW a \in Apps, Drop(a)
  PROVE  /\ online[a]
         /\ online' = [online EXCEPT ![a] = FALSE]
         /\ gone' = gone \union {sess[a]}
         /\ up' = [up EXCEPT ![a] = <<>>] /\ down' = [down EXCEPT ![a] = <<>>]
         /\ UNCHANGED <<rmVars, sess, used>>
BY Zenon DEF Drop
-----------------------------------------------------------------------------
(***************************************************************************)
(* Frames: what is sent and pushed is one, and what the handlers read from *)
(* one is there.                                                           *)
(***************************************************************************)
LEMMA SignalsAre ==
  /\ \A s \in Sessions, c \in Nat : Offer(s, c) \in Signals
  /\ \A s \in Sessions, c \in Nat, k \in Nat : Answer(s, c, k) \in Signals
BY DEF Signals, Offer, Answer
LEMMA UpFramesAre ==
  /\ Plain("create-room") \in UpFrames /\ Plain("leave-room") \in UpFrames
  /\ \A r \in RoomIds : JoinMsg(r) \in UpFrames
  /\ \A t \in Sessions, m \in Signals : To(t, m) \in UpFrames
BY DEF UpFrames, Plain, JoinMsg, To
LEMMA DownFramesAre ==
  /\ \A c \in ErrorCodes : ErrorMsg(c) \in DownFrames
  /\ \A r \in RoomIds : RoomCreated(r) \in DownFrames
  /\ \A r \in RoomIds, s \in Sessions : RoomJoined(r, s) \in DownFrames
  /\ \A s \in Sessions : ViewerJoined(s) \in DownFrames /\ ViewerLeft(s) \in DownFrames
  /\ RoomEnded \in DownFrames /\ Signals \subseteq DownFrames
BY DEF DownFrames, ErrorMsg, RoomCreated, RoomJoined, ViewerJoined, ViewerLeft, RoomEnded
LEMMA UpFrameHas ==
  \A m \in UpFrames : /\ m.type = "join-room" => m.room \in RoomIds
                      /\ m.type = "signal" => m.to \in Sessions /\ m.signal \in Signals
BY DEF UpFrames
LEMMA DownFrameHas ==
  \A m \in DownFrames :
    /\ m.type = "room-created" => m.room \in RoomIds
    /\ m.type \in {"viewer-joined", "viewer-left"} => m.viewer \in Sessions
    /\ m.type \in {"offer", "answer"} => m.from \in Sessions /\ m.conn \in Nat
    /\ m.type = "answer" => m.by \in Nat
BY DEF DownFrames, Signals

LEMMA SentTypes ==
  ASSUME FrameTypes, NEW a \in Apps, NEW frames \in Seq(UpFrames)
  PROVE  Sent(a, frames) \in [Apps -> Seq(UpFrames)]
BY DEF FrameTypes, Sent
LEMMA OneFrame == \A m \in UpFrames : <<m>> \in Seq(UpFrames) /\ <<m, m>> \in Seq(UpFrames)
OBVIOUS

LEMMA PushedTypes ==
  ASSUME FrameTypes, TableTypes, NEW msgs \in [Sessions -> DownFrames \union {Silence}], Pushed(msgs)
  PROVE  down' \in [Apps -> Seq(DownFrames)]
<1>1. ASSUME NEW a \in Apps, msgs[sess[a]] # Silence
      PROVE  Append(down[a], msgs[sess[a]]) \in Seq(DownFrames)
  BY <1>1 DEF FrameTypes, TableTypes
<1> QED
  BY <1>1 DEF FrameTypes, TableTypes, Pushed
LEMMA PushesAre ==
  /\ \A s \in Sessions, m \in DownFrames : OnlyTo(s, m) \in [Sessions -> DownFrames \union {Silence}]
  /\ \A s \in Sessions, t \in Sessions, m \in DownFrames, k \in DownFrames :
       [Quiet EXCEPT ![s] = m, ![t] = k] \in [Sessions -> DownFrames \union {Silence}]
BY DEF OnlyTo, Quiet
LEMMA DeparturesAre ==
  \A s \in Sessions : DepartureMessages(s) \in [Sessions -> DownFrames \union {Silence}]
<1>1. ASSUME NEW s \in Sessions, NEW t \in Sessions
      PROVE  DepartureMessages(s)[t] \in {RoomEnded, ViewerLeft(s), Silence}
  BY DEF DepartureMessages
<1>2. ASSUME NEW s \in Sessions
      PROVE  DepartureMessages(s) \in [Sessions -> {RoomEnded, ViewerLeft(s), Silence}]
  BY <1>1 DEF DepartureMessages
<1> QED
  BY <1>2, DownFramesAre

(***************************************************************************)
(* The server.                                                             *)
(***************************************************************************)
LEMMA HeadOfUp ==
  ASSUME FrameTypes, NEW a \in Apps, up[a] # <<>>
  PROVE  /\ Head(up[a]) \in UpFrames /\ Tail(up[a]) \in Seq(UpFrames)
         /\ up[a] \in Seq(UpFrames)
BY DEF FrameTypes
LEMMA HeadOfDown ==
  ASSUME FrameTypes, NEW a \in Apps, down[a] # <<>>
  PROVE  /\ Head(down[a]) \in DownFrames /\ Tail(down[a]) \in Seq(DownFrames)
         /\ down[a] \in Seq(DownFrames)
BY DEF FrameTypes

LEMMA CodesAre ==
  \A r \in RoomIds, s \in Sessions :
    /\ JoinResult(r, s) \in ErrorCodes \union {"ok"}
    /\ \A t \in Sessions : ResolveTarget(s, t) \in ErrorCodes \union {"ok"}
BY DEF JoinResult, ResolveTarget, ErrorCodes

LEMMA ServeTypes ==
  ASSUME TableTypes, FrameTypes, NEW a \in Apps, Serve(a)
  PROVE  /\ FrameTypes'
         /\ [RMNext]_rmVars
         /\ UNCHANGED <<sess, online, used, gone, happened, shVars, vwVars>>
<1> DEFINE s == sess[a]
<1>s. s \in Sessions
  BY DEF TableTypes
<1>1. /\ UNCHANGED <<sess, online, used, gone, happened, shVars, vwVars>>
      /\ up[a] # <<>> /\ up' = [up EXCEPT ![a] = Tail(@)]
  BY DEF Serve, ServerHandles, ServerCreates, ServerJoins, ServerRemoves, ServerRelays, Takes
<1>2. up' \in [Apps -> Seq(UpFrames)]
  BY <1>1, HeadOfUp DEF FrameTypes
<1>3. CASE ServerCreates(a)
  <2>1. PICK r \in RoomIds : CreateRoom(s, r) /\ Pushed(OnlyTo(s, RoomCreated(r)))
    BY <1>3 DEF ServerCreates
  <2>2. down' \in [Apps -> Seq(DownFrames)]
    BY <1>s, <2>1, DownFramesAre, PushesAre, PushedTypes
  <2> QED
    BY <1>s, <1>1, <1>2, <2>1, <2>2 DEF RMNext, FrameTypes
<1>4. CASE ServerJoins(a)
  <2> DEFINE r == Head(up[a]).room
  <2>1. r \in RoomIds /\ JoinRoom(r, s)
    BY <1>4, HeadOfUp, UpFrameHas DEF ServerJoins, Takes
  <2>2. ASSUME JoinResult(r, s) # "ok" PROVE down' \in [Apps -> Seq(DownFrames)]
    <3>1. Pushed(OnlyTo(s, ErrorMsg(JoinResult(r, s))))
      BY <1>4, <2>2 DEF ServerJoins
    <3>2. JoinResult(r, s) \in ErrorCodes
      BY <1>s, <2>1, <2>2, CodesAre
    <3> QED
      BY <1>s, <3>1, <3>2, DownFramesAre, PushesAre, PushedTypes
  <2>3. ASSUME JoinResult(r, s) = "ok" PROVE down' \in [Apps -> Seq(DownFrames)]
    <3>1. Pushed([Quiet EXCEPT ![s] = RoomJoined(r, sharerId[r]), ![sharerId[r]] = ViewerJoined(s)])
      BY <1>4, <2>3 DEF ServerJoins
    <3>2. sharerId[r] \in Sessions
      BY <2>1, <2>3 DEF JoinResult, RoomExists, TableTypes, RMTypeOK
    <3> QED
      BY <1>s, <2>1, <3>1, <3>2, DownFramesAre, PushesAre, PushedTypes
  <2>4. down' \in [Apps -> Seq(DownFrames)]
    BY <2>2, <2>3
  <2> QED
    BY <1>s, <1>1, <1>2, <2>1, <2>4 DEF RMNext, FrameTypes
<1>5. CASE ServerRemoves(a)
  <2>1. "NOT_IN_ROOM" \in ErrorCodes
    BY DEF ErrorCodes
  <2>2. down' \in [Apps -> Seq(DownFrames)]
    BY <1>s, <1>5, <2>1, DownFramesAre, PushesAre, DeparturesAre, PushedTypes DEF ServerRemoves
  <2> QED
    BY <1>s, <1>1, <1>2, <1>5, <2>2 DEF RMNext, FrameTypes, ServerRemoves
<1>6. CASE ServerRelays(a)
  <2> DEFINE m == Head(up[a])
  <2>1. m.to \in Sessions /\ m.signal \in Signals
    BY <1>6, HeadOfUp, UpFrameHas DEF ServerRelays, Takes
  <2>2. ASSUME ResolveTarget(s, m.to) = "ok" PROVE down' \in [Apps -> Seq(DownFrames)]
    BY <1>s, <1>6, <2>1, <2>2, DownFramesAre, PushesAre, PushedTypes DEF ServerRelays
  <2>3. ASSUME ResolveTarget(s, m.to) # "ok" PROVE down' \in [Apps -> Seq(DownFrames)]
    <3>1. Pushed(OnlyTo(s, ErrorMsg(ResolveTarget(s, m.to))))
      BY <1>6, <2>3 DEF ServerRelays
    <3>2. ResolveTarget(s, m.to) \in ErrorCodes
      BY <2>3 DEF ResolveTarget, ErrorCodes
    <3> QED
      BY <1>s, <3>1, <3>2, DownFramesAre, PushesAre, PushedTypes
  <2>4. down' \in [Apps -> Seq(DownFrames)]
    BY <2>2, <2>3
  <2>5. UNCHANGED rmVars
    BY <1>6 DEF ServerRelays
  <2> QED
    BY <1>1, <1>2, <2>4, <2>5 DEF FrameTypes
<1> QED
  BY <1>3, <1>4, <1>5, <1>6 DEF Serve, ServerHandles
LEMMA TableKept ==
  ASSUME TableTypes, [RMNext]_rmVars, UNCHANGED <<sess, online, used, gone>>
  PROVE  TableTypes'
BY RMTypeOKStep DEF TableTypes

LEMMA SocketTypes ==
  ASSUME TableTypes, FrameTypes, SocketStep
  PROVE  TableTypes' /\ FrameTypes'
<1>1. ASSUME NEW a \in Apps, Drop(a) PROVE TableTypes' /\ FrameTypes'
  <2>1. RMTypeOK'
    BY <1>1, DropIs, RMTypeOKStep DEF TableTypes, rmVars
  <2>2. <<>> \in Seq(UpFrames) /\ <<>> \in Seq(DownFrames)
    OBVIOUS
  <2>3. /\ online' = [online EXCEPT ![a] = FALSE] /\ gone' = gone \union {sess[a]}
        /\ up' = [up EXCEPT ![a] = <<>>] /\ down' = [down EXCEPT ![a] = <<>>]
        /\ UNCHANGED <<sess, used>>
    BY <1>1, DropIs
  <2>4. FrameTypes'
    BY <2>2, <2>3 DEF FrameTypes
  <2> QED
    BY <2>1, <2>3, <2>4 DEF TableTypes
<1>2. ASSUME NEW a \in Apps, NEW s \in Sessions, Reconnect(a, s) PROVE TableTypes' /\ FrameTypes'
  <2>1. RMTypeOK'
    BY <1>2, RMTypeOKStep DEF TableTypes, rmVars, Reconnect
  <2> QED
    BY <1>2, <2>1 DEF TableTypes, FrameTypes, Reconnect
<1>3. ASSUME NEW s \in Sessions, ServerForgets(s) PROVE TableTypes' /\ FrameTypes'
  <2>1. RMTypeOK'
    BY <1>3, RMTypeOKStep DEF TableTypes, RMNext, ServerForgets
  <2>2. down' \in [Apps -> Seq(DownFrames)]
    BY <1>3, DeparturesAre, PushedTypes DEF ServerForgets
  <2> QED
    BY <1>3, <2>1, <2>2 DEF TableTypes, FrameTypes, ServerForgets
<1> QED
  BY <1>1, <1>2, <1>3 DEF SocketStep
-----------------------------------------------------------------------------
(***************************************************************************)
(* The sharers' half.                                                      *)
(***************************************************************************)
SharersCount ==
  \A a \in CanShare : /\ sh[a].subscribed => sh[a].listening >= 1
                      /\ sh[a].listening <= Cardinality(StartsDone(a))
SharersTyped == SharingTypeOK /\ SharersCount

LEMMA StartsAre == Starts = 1 .. MaxStarts /\ MaxStarts \in Nat /\ 0 \notin Starts
BY SharersAssumption DEF Starts
LEMMA CountOfStarts ==
  ASSUME NEW S \in SUBSET Starts
  PROVE  IsFiniteSet(S) /\ Cardinality(S) \in Nat /\ Cardinality(S) <= MaxStarts
<1>1. IsFiniteSet(Starts) /\ Cardinality(Starts) = MaxStarts
  BY StartsAre, FS_Interval
<1> QED
  BY <1>1, FS_Subset, FS_CardinalityType
LEMMA StartsDoneAre == \A a : StartsDone(a) \in SUBSET Starts /\ StartsDone(a)' \in SUBSET Starts
BY DEF StartsDone
LEMMA OneMoreDone ==
  ASSUME SharingTypeOK, NEW a \in CanShare, NEW n \in Starts, starting[a][n] # "done",
         starting' = [starting EXCEPT ![a][n] = "done"]
  PROVE  /\ Cardinality(StartsDone(a)') = Cardinality(StartsDone(a)) + 1
         /\ Cardinality(StartsDone(a)') <= MaxStarts
<1>1. StartsDone(a)' = StartsDone(a) \union {n} /\ n \notin StartsDone(a)
  BY DEF StartsDone, SharingTypeOK
<1>2. Cardinality(StartsDone(a) \union {n}) = Cardinality(StartsDone(a)) + 1
  BY <1>1, StartsDoneAre, CountOfStarts, FS_AddElement
<1>3. Cardinality(StartsDone(a)') <= MaxStarts
  BY StartsDoneAre, CountOfStarts
<1> QED
  BY <1>1, <1>2, <1>3
LEMMA SameDone ==
  ASSUME NEW a, starting'[a] = starting[a]
  PROVE  StartsDone(a)' = StartsDone(a)
BY DEF StartsDone

LEMMA EntriesAre ==
  /\ NoEntry \in Entries /\ NoEntries \in [Sessions -> Entries]
  /\ \A c \in Nat : Offering(c) \in Entries
BY DEF NoEntry, NoEntries, Entries, Offering

\* What #cleanup leaves of a manager's fields.
CleanedTo(m, state) == [Cleaned(m) EXCEPT !.state = state]
LEMMA CleanedIs ==
  ASSUME NEW m \in Managers, m.subscribed => m.listening >= 1,
         NEW state \in {"idle", "starting", "sharing", "error"}
  PROVE  LET k == CleanedTo(m, state) IN
         /\ k \in Managers
         /\ k.state = state /\ k.room = m.room /\ k.stream = 0 /\ ~k.managing /\ ~k.subscribed
         /\ k.made = m.made
         /\ k.listening = IF m.subscribed THEN m.listening - 1 ELSE m.listening
         /\ k.listening <= m.listening
<1> DEFINE k == CleanedTo(m, state)
<1>1. /\ m.listening \in 0 .. MaxStarts /\ m.listening \in Nat /\ MaxStarts \in Nat
      /\ m.subscribed \in BOOLEAN
  BY SharersAssumption DEF Managers
<1> DEFINE l == IF m.subscribed THEN m.listening - 1 ELSE m.listening
<1>2. l \in 0 .. MaxStarts /\ l <= m.listening
  BY <1>1
<1> HIDE DEF l
<1>3. k = [m EXCEPT !.stream = 0, !.managing = FALSE, !.subscribed = FALSE, !.listening = l,
                    !.state = state]
  BY DEF CleanedTo, Cleaned, l, Managers
<1> HIDE DEF k
<1>4. 0 \in 0 .. MaxStarts
  BY <1>1
<1>5. k \in Managers
  BY <1>2, <1>3, <1>4 DEF Managers
<1>6. /\ k.state = state /\ k.room = m.room /\ k.stream = 0 /\ ~k.managing /\ ~k.subscribed
      /\ k.made = m.made /\ k.listening = l
  BY <1>3 DEF Managers
<1> QED
  BY <1>2, <1>5, <1>6 DEF l, k

LEMMA CleanUpTypes ==
  ASSUME SharingTypeOK, NEW a \in CanShare, NEW m \in Managers,
         m.subscribed => m.listening >= 1,
         NEW state \in {"idle", "starting", "sharing", "error"}, CleanUp(a, m, state)
  PROVE  /\ sh' \in [CanShare -> Managers] /\ entry' \in [CanShare -> [Sessions -> Entries]]
         /\ ~sh'[a].subscribed /\ sh'[a].listening <= m.listening
         /\ \A c \in CanShare : c # a => sh'[c] = sh[c] /\ entry'[c] = entry[c]
         /\ entry'[a] = NoEntries
BY CleanedIs, EntriesAre DEF SharingTypeOK, CleanUp, CleanedTo

LEMMA SharersCountIs ==
  ASSUME SharersTyped, NEW a \in CanShare
  PROVE  /\ sh[a] \in Managers
         /\ sh[a].subscribed => sh[a].listening >= 1
         /\ sh[a].listening <= Cardinality(StartsDone(a))
BY DEF SharersTyped, SharersCount, SharingTypeOK

\* A step of a's that starts nothing anew and does not listen more often.
LEMMA CountKept ==
  ASSUME SharersTyped, NEW a \in CanShare, SharingTypeOK',
         \A c \in CanShare : c # a => sh'[c] = sh[c] /\ starting'[c] = starting[c],
         sh'[a].subscribed => sh[a].subscribed /\ sh'[a].listening = sh[a].listening,
         sh'[a].listening <= sh[a].listening,
         Cardinality(StartsDone(a)) <= Cardinality(StartsDone(a)')
  PROVE  SharersCount'
<1> SUFFICES ASSUME NEW c \in CanShare
             PROVE  /\ sh'[c].subscribed => sh'[c].listening >= 1
                    /\ sh'[c].listening <= Cardinality(StartsDone(c)')
  BY DEF SharersCount
<1>1. CASE c # a
  BY <1>1, SameDone, SharersCountIs
<1>2. CASE c = a
  <2>1. sh[a].listening \in Nat /\ sh'[a].listening \in Nat
    BY SharersAssumption DEF SharersTyped, SharingTypeOK, Managers
  <2>2. Cardinality(StartsDone(a)) \in Nat /\ Cardinality(StartsDone(a)') \in Nat
    BY StartsDoneAre, CountOfStarts
  <2>3. /\ sh[a].subscribed => sh[a].listening >= 1
        /\ sh[a].listening <= Cardinality(StartsDone(a))
    BY DEF SharersTyped, SharersCount
  <2> QED
    BY <1>2, <2>1, <2>2, <2>3
<1> QED
  BY <1>1, <1>2

LEMMA SharersTypedKept == SharersTyped /\ UNCHANGED <<sh, starting, capturing, entry>> => SharersTyped'
BY DEF SharersTyped, SharingTypeOK, SharersCount, StartsDone

LEMMA BeginsTypes ==
  ASSUME SharersTyped, NEW a \in CanShare, NEW n \in Starts, Begins(a, n)
  PROVE  SharersTyped'
<1>1. /\ sh' = [sh EXCEPT ![a].state = "starting"]
      /\ starting' = [starting EXCEPT ![a][n] = "picker"]
      /\ starting[a][n] = "none" /\ UNCHANGED <<capturing, entry>>
  BY BeginsIs
<1>2. SharingTypeOK'
  BY <1>1 DEF SharersTyped, SharingTypeOK, Managers, StartPhases
<1>3. /\ \A c \in CanShare : c # a => sh'[c] = sh[c] /\ starting'[c] = starting[c]
      /\ sh'[a].subscribed = sh[a].subscribed /\ sh'[a].listening = sh[a].listening
  BY <1>1 DEF SharersTyped, SharingTypeOK, Managers
<1>4. StartsDone(a)' = StartsDone(a)
  BY <1>1 DEF SharersTyped, SharingTypeOK, StartsDone
<1>5. sh[a].listening \in Nat /\ Cardinality(StartsDone(a)) \in Nat
  BY StartsDoneAre, CountOfStarts, SharersAssumption DEF SharersTyped, SharingTypeOK, Managers
<1> QED
  BY <1>2, <1>3, <1>4, <1>5, CountKept DEF SharersTyped

LEMMA PickerAnswersTypes ==
  ASSUME SharersTyped, NEW a \in CanShare, NEW n \in Starts, PickerAnswers(a, n)
  PROVE  SharersTyped'
<1>1. /\ starting' = [starting EXCEPT ![a][n] = "audio"]
      /\ capturing' = [capturing EXCEPT ![a] = @ \union {n}]
      /\ starting[a][n] = "picker" /\ UNCHANGED <<sh, entry>>
  BY DEF PickerAnswers
<1>2. SharingTypeOK'
  BY <1>1 DEF SharersTyped, SharingTypeOK, StartPhases
<1>3. \A c \in CanShare : sh'[c] = sh[c] /\ (c # a => starting'[c] = starting[c])
  BY <1>1 DEF SharersTyped, SharingTypeOK
<1>4. StartsDone(a)' = StartsDone(a)
  BY <1>1 DEF SharersTyped, SharingTypeOK, StartsDone
<1>5. sh[a].listening \in Nat /\ Cardinality(StartsDone(a)) \in Nat
  BY StartsDoneAre, CountOfStarts, SharersAssumption DEF SharersTyped, SharingTypeOK, Managers
<1> QED
  BY <1>2, <1>3, <1>4, <1>5, CountKept DEF SharersTyped

LEMMA PickerFailsTypes ==
  ASSUME SharersTyped, NEW a \in CanShare, NEW n \in Starts, PickerFails(a, n)
  PROVE  SharersTyped'
<1>1. /\ starting' = [starting EXCEPT ![a][n] = "done"]
      /\ capturing' = [capturing EXCEPT ![a] = @ \ {sh[a].stream}]
      /\ starting[a][n] = "picker"
  BY DEF PickerFails
<1>2. PICK state \in {"idle", "error"} : CleanUp(a, sh[a], state)
  BY DEF PickerFails
<1>3. /\ sh' \in [CanShare -> Managers] /\ entry' \in [CanShare -> [Sessions -> Entries]]
      /\ ~sh'[a].subscribed /\ sh'[a].listening <= sh[a].listening
      /\ \A c \in CanShare : c # a => sh'[c] = sh[c]
  <2>1. sh[a] \in Managers /\ (sh[a].subscribed => sh[a].listening >= 1) /\ SharingTypeOK
    BY SharersCountIs DEF SharersTyped
  <2> QED
    BY <1>2, <2>1, CleanUpTypes
<1>4. SharingTypeOK'
  BY <1>1, <1>3 DEF SharersTyped, SharingTypeOK, StartPhases
<1>5. /\ \A c \in CanShare : c # a => starting'[c] = starting[c]
      /\ Cardinality(StartsDone(a)') = Cardinality(StartsDone(a)) + 1
  BY <1>1, OneMoreDone DEF SharersTyped, SharingTypeOK
<1>6. Cardinality(StartsDone(a)) \in Nat
  BY StartsDoneAre, CountOfStarts
<1>7. Cardinality(StartsDone(a)) <= Cardinality(StartsDone(a)')
  BY <1>5, <1>6
<1> QED
  BY <1>3, <1>4, <1>5, <1>7, CountKept DEF SharersTyped

LEMMA CaptureStartsTypes ==
  ASSUME SharersTyped, NEW a \in CanShare, NEW n \in Starts, CaptureStarts(a, n)
  PROVE  SharersTyped'
<1> DEFINE listens == [sh[a] EXCEPT !.stream = n, !.listening = @ + 1, !.subscribed = TRUE]
<1>1. /\ starting[a][n] = "audio" /\ starting' = [starting EXCEPT ![a][n] = "done"]
  BY DEF CaptureStarts
<1>2. /\ Cardinality(StartsDone(a)') = Cardinality(StartsDone(a)) + 1
      /\ Cardinality(StartsDone(a)') <= MaxStarts
      /\ Cardinality(StartsDone(a)) \in Nat
  BY <1>1, OneMoreDone, StartsDoneAre, CountOfStarts DEF SharersTyped
<1>3. /\ sh[a] \in Managers /\ sh[a].listening \in Nat
      /\ sh[a].listening <= Cardinality(StartsDone(a)) /\ MaxStarts \in Nat
  BY SharersCountIs, SharersAssumption DEF Managers
<1>4. sh[a].listening + 1 \in 0 .. MaxStarts /\ n \in 0 .. MaxStarts
  BY <1>2, <1>3, StartsAre
<1>5. /\ listens \in Managers /\ listens.subscribed /\ listens.listening = sh[a].listening + 1
      /\ listens.listening >= 1
  <2> DEFINE l == sh[a].listening + 1
  <2>1. l \in 0 .. MaxStarts /\ l >= 1
    BY <1>3, <1>4
  <2> HIDE DEF l
  <2>2. listens = [sh[a] EXCEPT !.stream = n, !.listening = l, !.subscribed = TRUE]
    BY DEF l
  <2>3. listens \in Managers /\ listens.subscribed /\ listens.listening = l
    BY <1>3, <1>4, <2>1, <2>2 DEF Managers
  <2> QED
    BY <2>1, <2>3 DEF l
<1> HIDE DEF listens
<1>6. starting' \in [CanShare -> [Starts -> StartPhases]]
      /\ \A c \in CanShare : c # a => starting'[c] = starting[c]
  BY <1>1 DEF SharersTyped, SharingTypeOK, StartPhases
<1>7. /\ SharingTypeOK'
      /\ \A c \in CanShare : c # a => sh'[c] = sh[c]
      /\ sh'[a].subscribed => sh'[a].listening >= 1
      /\ sh'[a].listening <= sh[a].listening + 1
  <2>1. CASE online[a]
    <3>1. sh' = [sh EXCEPT ![a] = listens] /\ UNCHANGED <<capturing, entry>>
      BY <2>1 DEF CaptureStarts, listens
    <3>2. sh'[a] = listens
      BY <3>1 DEF SharersTyped, SharingTypeOK
    <3> QED
      BY <1>3, <1>5, <1>6, <3>1, <3>2 DEF SharersTyped, SharingTypeOK
  <2>2. CASE ~online[a]
    <3>1. CleanUp(a, listens, "error") /\ capturing' = [capturing EXCEPT ![a] = @ \ {n}]
      BY <2>2 DEF CaptureStarts, listens
    <3>2. /\ sh' \in [CanShare -> Managers] /\ entry' \in [CanShare -> [Sessions -> Entries]]
          /\ ~sh'[a].subscribed /\ sh'[a].listening <= listens.listening
          /\ \A c \in CanShare : c # a => sh'[c] = sh[c]
      BY <1>5, <3>1, CleanUpTypes DEF SharersTyped
    <3>3. capturing' \in [CanShare -> SUBSET Starts]
      BY <3>1 DEF SharersTyped, SharingTypeOK
    <3> QED
      BY <1>5, <1>6, <3>2, <3>3 DEF SharingTypeOK
  <2> QED
    BY <2>1, <2>2
<1>8. sh'[a].listening <= Cardinality(StartsDone(a)')
  <2>1. sh'[a].listening \in Nat
    BY <1>3, <1>7 DEF SharingTypeOK, Managers
  <2> QED
    BY <1>2, <1>3, <1>7, <2>1
<1>9. ASSUME NEW c \in CanShare
      PROVE  /\ sh'[c].subscribed => sh'[c].listening >= 1
             /\ sh'[c].listening <= Cardinality(StartsDone(c)')
  <2>1. CASE c = a
    BY <1>7, <1>8, <2>1
  <2>2. CASE c # a
    BY <1>6, <1>7, <2>2, SharersCountIs, SameDone
  <2> QED
    BY <2>1, <2>2
<1> QED
  BY <1>7, <1>9 DEF SharersTyped, SharersCount

LEMMA StoppedTypes ==
  ASSUME SharersTyped, NEW a \in CanShare, Stopped(a), UNCHANGED starting,
         capturing' \in [CanShare -> SUBSET Starts]
  PROVE  SharersTyped'
<1> DEFINE m == [sh[a] EXCEPT !.room = None]
<1>1. sh[a] \in Managers /\ (sh[a].subscribed => sh[a].listening >= 1)
  BY SharersCountIs
<1>2. m \in Managers /\ m.subscribed = sh[a].subscribed /\ m.listening = sh[a].listening
  BY <1>1 DEF Managers
<1>3. CleanUp(a, m, "idle")
  BY DEF Stopped
<1> HIDE DEF m
<1>4. /\ sh' \in [CanShare -> Managers] /\ entry' \in [CanShare -> [Sessions -> Entries]]
      /\ ~sh'[a].subscribed /\ sh'[a].listening <= sh[a].listening
      /\ \A c \in CanShare : c # a => sh'[c] = sh[c]
  BY <1>1, <1>2, <1>3, CleanUpTypes DEF SharersTyped
<1>5. SharingTypeOK' /\ StartsDone(a)' = StartsDone(a)
  BY <1>4 DEF SharersTyped, SharingTypeOK, StartsDone
<1>6. Cardinality(StartsDone(a)) \in Nat
  BY StartsDoneAre, CountOfStarts
<1> QED
  BY <1>4, <1>5, <1>6, CountKept DEF SharersTyped

LEMMA StopTypes ==
  ASSUME SharersTyped, NEW a \in CanShare, Stop(a)
  PROVE  SharersTyped'
<1>1. Stopped(a) /\ UNCHANGED starting /\ capturing' = [capturing EXCEPT ![a] = @ \ {sh[a].stream}]
  BY StopIs
<1>2. capturing' \in [CanShare -> SUBSET Starts]
  BY <1>1 DEF SharersTyped, SharingTypeOK
<1> QED
  BY <1>1, <1>2, StoppedTypes

LEMMA CaptureEndsTypes ==
  ASSUME SharersTyped, NEW a \in CanShare, NEW n \in Starts, CaptureEnds(a, n)
  PROVE  SharersTyped'
<1>1. UNCHANGED starting
  BY CaptureEndsIs
<1>2. CASE starting[a][n] = "audio" \/ sh[a].state = "idle"
  <2>1. capturing' = [capturing EXCEPT ![a] = @ \ {n}] /\ UNCHANGED <<sh, entry>>
    BY <1>2, CaptureEndsIs
  <2> QED
    BY <1>1, <2>1 DEF SharersTyped, SharingTypeOK, SharersCount, StartsDone
<1>3. CASE ~(starting[a][n] = "audio" \/ sh[a].state = "idle")
  <2>1. Stopped(a) /\ capturing' = [capturing EXCEPT ![a] = @ \ {n, sh[a].stream}]
    BY <1>3, CaptureEndsIs
  <2>2. capturing' \in [CanShare -> SUBSET Starts]
    BY <2>1 DEF SharersTyped, SharingTypeOK
  <2> QED
    BY <1>1, <2>1, <2>2, StoppedTypes
<1> QED
  BY <1>2, <1>3

\* A step that only touches an entry.
LEMMA EntryTypes ==
  ASSUME SharersTyped, NEW a \in CanShare, NEW v \in Sessions, NEW e \in Entries,
         entry' = [entry EXCEPT ![a][v] = e], UNCHANGED <<sh, starting, capturing>>
  PROVE  SharersTyped'
BY DEF SharersTyped, SharingTypeOK, SharersCount, StartsDone

LEMMA OfferReadyTypes ==
  ASSUME SharersTyped, NEW a \in CanShare, NEW v \in Sessions, OfferReady(a, v)
  PROVE  SharersTyped'
<1> DEFINE e == [entry[a][v] EXCEPT !.phase = IF entry[a][v].of = 0 THEN "offered" ELSE "answered"]
<1>1. e \in Entries
  <2>1. entry[a][v] \in Entries
    BY DEF SharersTyped, SharingTypeOK
  <2> QED
    BY <2>1 DEF Entries
<1>2. entry' = [entry EXCEPT ![a][v] = e] /\ UNCHANGED <<sh, starting, capturing>>
  BY DEF OfferReady, SharersTyped, SharingTypeOK
<1> HIDE DEF e
<1> QED
  BY <1>1, <1>2, EntryTypes

LEMMA ConnectionFailsTypes ==
  ASSUME SharersTyped, NEW a \in CanShare, NEW v \in Sessions, ConnectionFails(a, v)
  PROVE  SharersTyped'
BY ConnectionFailsIs, EntriesAre, EntryTypes DEF RemoveViewer

LEMMA AfterAnswerIs ==
  ASSUME NEW e \in Entries, NEW m, m.conn \in Nat, m.by \in Nat, NEW l
  PROVE  AfterAnswer(e, m, l) \subseteq Entries
BY EntriesAre DEF AfterAnswer, Entries

LEMMA SharingHearsTypes ==
  ASSUME SharersTyped, NEW a \in CanShare, NEW m \in DownFrames, SharingHears(a, m),
         UNCHANGED <<starting, capturing>>
  PROVE  SharersTyped'
<1>1. CASE UNCHANGED <<sh, entry>>
  BY <1>1, SharersTypedKept
<1>2. CASE m.type = "room-created"
           /\ sh' = [sh EXCEPT ![a] = [@ EXCEPT !.room = m.room, !.managing = TRUE,
                                                !.state = "sharing"]]
           /\ entry' = [entry EXCEPT ![a] = NoEntries]
  <2>1. m.room \in RoomIds
    BY <1>2, DownFrameHas
  <2> QED
    BY <1>2, <2>1, EntriesAre DEF SharersTyped, SharingTypeOK, SharersCount, StartsDone, Managers
<1>3. CASE m.type = "viewer-joined" /\ AddViewer(a, m.viewer)
  <2>1. /\ m.viewer \in Sessions
        /\ sh' = [sh EXCEPT ![a].made = @ + 1]
        /\ entry' = [entry EXCEPT ![a][m.viewer] = Offering(sh[a].made + 1)]
    BY <1>3, DownFrameHas DEF AddViewer
  <2> DEFINE n == sh[a].made + 1
  <2>2. sh[a] \in Managers /\ n \in Nat
    BY DEF SharersTyped, SharingTypeOK, Managers
  <2> HIDE DEF n
  <2>3. entry' \in [CanShare -> [Sessions -> Entries]]
    <3>1. Offering(n) \in Entries /\ entry' = [entry EXCEPT ![a][m.viewer] = Offering(n)]
      BY <2>1, <2>2, EntriesAre DEF n
    <3> QED
      BY <2>1, <3>1 DEF SharersTyped, SharingTypeOK
  <2>4. /\ sh' \in [CanShare -> Managers]
        /\ \A c \in CanShare : /\ sh'[c].subscribed = sh[c].subscribed
                               /\ sh'[c].listening = sh[c].listening
    <3>1. sh' = [sh EXCEPT ![a] = [@ EXCEPT !.made = n]]
      BY <2>1 DEF n
    <3> QED
      BY <2>2, <3>1 DEF SharersTyped, SharingTypeOK, Managers
  <2> QED
    BY <2>3, <2>4 DEF SharersTyped, SharingTypeOK, SharersCount, StartsDone
<1>4. CASE m.type = "viewer-left" /\ RemoveViewer(a, m.viewer) /\ UNCHANGED sh
  BY <1>4, DownFrameHas, EntriesAre, EntryTypes DEF RemoveViewer
<1>5. CASE m.type = "answer" /\ UNCHANGED sh
           /\ \E e \in AfterAnswer(entry[a][m.from], m, sh[a].listening) :
                 entry' = [entry EXCEPT ![a][m.from] = e]
  <2>1. m.from \in Sessions /\ m.conn \in Nat /\ m.by \in Nat
    BY <1>5, DownFrameHas
  <2>2. entry[a][m.from] \in Entries
    BY <2>1 DEF SharersTyped, SharingTypeOK
  <2>3. AfterAnswer(entry[a][m.from], m, sh[a].listening) \subseteq Entries
    BY <2>1, <2>2, AfterAnswerIs
  <2> QED
    BY <1>5, <2>1, <2>3, EntryTypes
<1>6. CASE UNCHANGED entry /\ sh' = [sh EXCEPT ![a].state = "error"]
  BY <1>6 DEF SharersTyped, SharingTypeOK, SharersCount, StartsDone, Managers
<1> QED
  BY <1>1, <1>2, <1>3, <1>4, <1>5, <1>6 DEF SharingHears

LEMMA SharersStepTypes ==
  ASSUME SharersTyped, NEW a \in CanShare, SharersStep(a)
  PROVE  SharersTyped'
BY BeginsTypes, PickerAnswersTypes, PickerFailsTypes, CaptureStartsTypes, StopTypes,
   CaptureEndsTypes, OfferReadyTypes, ConnectionFailsTypes DEF SharersStep
-----------------------------------------------------------------------------
(***************************************************************************)
(* The viewers' half.                                                      *)
(***************************************************************************)
ViewersTyped == WatchTypes /\ \A b \in CanWatch : vw[b].subscribed => vw[b].listening >= 1

LEMMA ViewersTypedKept == ViewersTyped /\ UNCHANGED <<vw, offers>> => ViewersTyped'
BY DEF ViewersTyped, WatchTypes

LEMMA WatcherIs ==
  ASSUME ViewersTyped, NEW b \in CanWatch
  PROVE  /\ vw[b] \in Watchers /\ vw[b].listening \in Nat /\ vw[b].conn \in Nat /\ vw[b].made \in Nat
         /\ vw[b].subscribed => vw[b].listening >= 1
         /\ offers[b] \in Seq(TakenOffers)
         /\ vw[b].subscribed \in BOOLEAN
BY DEF ViewersTyped, WatchTypes, Watchers

\* A step that only touches the manager of b, and its offers.
LEMMA WatcherTypes ==
  ASSUME ViewersTyped, NEW b \in CanWatch, NEW w \in Watchers, w.subscribed => w.listening >= 1,
         vw' = [vw EXCEPT ![b] = w], offers' \in [CanWatch -> Seq(TakenOffers)]
  PROVE  ViewersTyped'
BY DEF ViewersTyped, WatchTypes

LEMMA OffersShrink ==
  ASSUME ViewersTyped, NEW b \in CanWatch, offers[b] # <<>>
  PROVE  /\ [offers EXCEPT ![b] = Tail(@)] \in [CanWatch -> Seq(TakenOffers)]
         /\ Head(offers[b]) \in TakenOffers
<1>1. offers[b] \in Seq(TakenOffers)
  BY WatcherIs
<1>2. Tail(offers[b]) \in Seq(TakenOffers) /\ Head(offers[b]) \in TakenOffers
  BY <1>1
<1> QED
  BY <1>2 DEF ViewersTyped, WatchTypes

WatchStates == {"idle", "connecting", "connected", "reconnecting", "disconnected", "error"}

LEMMA CleanUpWatchIs ==
  ASSUME ViewersTyped, NEW b \in CanWatch, NEW state \in WatchStates,
         NEW room \in RoomIds \union {None}, NEW left \in Nat, CleanUpWatch(b, state, room, left)
  PROVE  /\ ViewersTyped'
         /\ \E w \in Watchers :
              /\ vw' = [vw EXCEPT ![b] = w]
              /\ w.state = state /\ w.room = room /\ w.conn = 0 /\ w.remote = NoOffer
              /\ w.made = vw[b].made /\ ~w.subscribed
              /\ w.listening = left
         /\ offers' = [offers EXCEPT ![b] = <<>>]
<1> DEFINE w == [vw[b] EXCEPT !.state = state, !.room = room, !.conn = 0, !.remote = NoOffer,
                              !.subscribed = FALSE, !.listening = left]
<1>2. vw' = [vw EXCEPT ![b] = w] /\ offers' = [offers EXCEPT ![b] = <<>>]
  BY DEF CleanUpWatch, ViewersTyped, WatchTypes
<1>3. NoOffer \in Offers
  BY DEF NoOffer, Offers
<1>4. /\ w \in Watchers
      /\ w.state = state /\ w.room = room /\ w.conn = 0 /\ w.remote = NoOffer
      /\ w.made = vw[b].made /\ ~w.subscribed /\ w.listening = left
  BY <1>3, WatcherIs DEF Watchers, WatchStates
<1> HIDE DEF w
<1>5. offers' \in [CanWatch -> Seq(TakenOffers)]
  <2>1. <<>> \in Seq(TakenOffers)
    OBVIOUS
  <2> QED
    BY <1>2, <2>1 DEF ViewersTyped, WatchTypes
<1>6. ViewersTyped'
  BY <1>2, <1>4, <1>5, WatcherTypes
<1> QED
  BY <1>2, <1>4, <1>6

LEMMA UnsubscribedNat ==
  ASSUME ViewersTyped, NEW b \in CanWatch
  PROVE  Unsubscribed(b) \in Nat
BY WatcherIs DEF Unsubscribed

LEMMA JoinTypes ==
  ASSUME ViewersTyped, NEW b \in CanWatch, NEW r \in RoomIds, Join(b, r)
  PROVE  ViewersTyped'
<1> DEFINE l == vw[b].listening + 1
           w == [vw[b] EXCEPT !.state = "connecting", !.room = r, !.listening = l, !.subscribed = TRUE]
<1>1. l \in Nat /\ l >= 1
  BY WatcherIs
<1>2. vw' = [vw EXCEPT ![b] = w] /\ UNCHANGED offers
  BY DEF Join, ViewersTyped, WatchTypes
<1> HIDE DEF l
<1>3. w \in Watchers /\ w.listening = l
  BY <1>1, WatcherIs DEF Watchers
<1> HIDE DEF w
<1> QED
  BY <1>1, <1>2, <1>3, WatcherTypes DEF ViewersTyped, WatchTypes

LEMMA LeaveTypes ==
  ASSUME ViewersTyped, NEW b \in CanWatch, Leave(b)
  PROVE  ViewersTyped'
BY CleanUpWatchIs DEF Leave, WatchStates

\* A step that only changes the state that is shown.
LEMMA StateTypes ==
  ASSUME ViewersTyped, NEW b \in CanWatch, NEW state \in WatchStates,
         vw' = [vw EXCEPT ![b].state = state], offers' \in [CanWatch -> Seq(TakenOffers)]
  PROVE  ViewersTyped'
<1> DEFINE w == [vw[b] EXCEPT !.state = state]
<1>1. vw' = [vw EXCEPT ![b] = w]
  BY DEF ViewersTyped, WatchTypes
<1>2. /\ w \in Watchers /\ w.subscribed = vw[b].subscribed /\ w.listening = vw[b].listening
  BY WatcherIs DEF Watchers, WatchStates
<1> HIDE DEF w
<1> QED
  BY <1>1, <1>2, WatcherIs, WatcherTypes

LEMMA AnswerReadyTypes ==
  ASSUME ViewersTyped, NEW b \in CanWatch, AnswerReady(b)
  PROVE  ViewersTyped'
<1> DEFINE o == Head(offers[b])
           state == IF online[b] THEN vw[b].state ELSE "error"
           w == [vw[b] EXCEPT !.remote = o, !.state = state]
<1>1. offers[b] # <<>> /\ offers' = [offers EXCEPT ![b] = Tail(@)]
  BY DEF AnswerReady
<1>2. vw' = [vw EXCEPT ![b] = w]
  BY DEF AnswerReady, ViewersTyped, WatchTypes
<1>3. o \in Offers /\ offers' \in [CanWatch -> Seq(TakenOffers)]
  BY <1>1, OffersShrink DEF TakenOffers, Offers
<1>4. state \in WatchStates
  BY WatcherIs DEF Watchers, WatchStates
<1> HIDE DEF o, state
<1>5. w \in Watchers /\ w.subscribed = vw[b].subscribed /\ w.listening = vw[b].listening
  BY <1>3, <1>4, WatcherIs DEF Watchers, WatchStates
<1> HIDE DEF w
<1> QED
  BY <1>2, <1>3, <1>5, WatcherIs, WatcherTypes

LEMMA ViewersStepTypes ==
  ASSUME ViewersTyped, NEW b \in CanWatch, ViewersStep(b)
  PROVE  ViewersTyped'
<1>1. CASE Joins(b)
  BY <1>1, JoinsIs, JoinTypes
<1>2. CASE Leaves(b)
  BY <1>2, LeavesIs, LeaveTypes
<1>3. CASE AnswerFails(b)
  BY <1>3, AnswerFailsIs, OffersShrink, StateTypes DEF WatchStates
<1>4. CASE PictureLost(b) \/ PictureArrives(b)
  BY <1>4, StateTypes DEF PictureLost, PictureArrives, WatchStates, ViewersTyped, WatchTypes
<1>5. CASE AnswerReady(b)
  BY <1>5, AnswerReadyTypes
<1> QED
  BY <1>1, <1>2, <1>3, <1>4, <1>5 DEF ViewersStep

LEMMA ViewingHearsTypes ==
  ASSUME ViewersTyped, NEW b \in CanWatch, NEW m \in DownFrames, ViewingHears(b, m)
  PROVE  ViewersTyped'
<1>0. vw[b].room \in RoomIds \union {None}
  BY WatcherIs DEF Watchers
<1>1. CASE UNCHANGED <<vw, offers>>
  BY <1>1, ViewersTypedKept
<1>2. CASE RoomOver(b)
  BY <1>0, <1>2, UnsubscribedNat, CleanUpWatchIs DEF RoomOver, WatchStates
<1>3. CASE Refused(b)
  BY <1>0, <1>3, UnsubscribedNat, CleanUpWatchIs DEF Refused, WatchStates
<1>4. CASE m.type = "offer" /\ TakeOffer(b, m)
  <2> DEFINE o == [from |-> m.from, conn |-> m.conn]
             q == [i \in 1 .. vw[b].listening |-> o]
  <2>1. o \in TakenOffers
    BY <1>4, DownFrameHas DEF TakenOffers
  <2>2. offers' = [offers EXCEPT ![b] = @ \o q]
    BY <1>4 DEF TakeOffer
  <2> HIDE DEF o
  <2>3. q \in Seq(TakenOffers)
    BY <2>1, WatcherIs
  <2> HIDE DEF q
  <2>4. offers[b] \o q \in Seq(TakenOffers)
    BY <2>3, WatcherIs, ConcatProperties
  <2>5. offers' \in [CanWatch -> Seq(TakenOffers)]
    BY <2>2, <2>4 DEF ViewersTyped, WatchTypes
  <2>6. CASE vw' = vw
    BY <2>5, <2>6 DEF ViewersTyped, WatchTypes
  <2>7. CASE vw' = [vw EXCEPT ![b] = [@ EXCEPT !.conn = vw[b].made + 1, !.made = vw[b].made + 1]]
    <3> DEFINE n == vw[b].made + 1
               w == [vw[b] EXCEPT !.conn = n, !.made = n]
    <3>1. n \in Nat
      BY WatcherIs
    <3>2. vw' = [vw EXCEPT ![b] = w]
      BY <2>7 DEF ViewersTyped, WatchTypes
    <3> HIDE DEF n
    <3>3. w \in Watchers /\ w.subscribed = vw[b].subscribed /\ w.listening = vw[b].listening
      BY <3>1, WatcherIs DEF Watchers
    <3> HIDE DEF w
    <3> QED
      BY <2>5, <3>2, <3>3, WatcherIs, WatcherTypes
  <2> QED
    BY <1>4, <2>6, <2>7 DEF TakeOffer
<1> QED
  BY <1>1, <1>2, <1>3, <1>4 DEF ViewingHears

LEMMA VisitTypesStep ==
  ASSUME VisitTypes, NEW b \in CanWatch, ViewersStep(b)
  PROVE  VisitTypes'
<1>0. visits[b].joins \in 0 .. MaxJoins /\ visits[b].leaves \in 0 .. MaxLeaves
      /\ MaxJoins \in Nat /\ MaxLeaves \in Nat
  BY WatchersAssumption DEF VisitTypes
<1>1. CASE Joins(b)
  <2>1. visits[b].joins < MaxJoins /\ visits' = [visits EXCEPT ![b].joins = @ + 1]
    BY <1>1, JoinsIs DEF Join
  <2>2. visits[b].joins + 1 \in 0 .. MaxJoins
    BY <1>0, <2>1
  <2> QED
    BY <2>1, <2>2 DEF VisitTypes
<1>2. CASE Leaves(b)
  <2>1. visits[b].leaves < MaxLeaves /\ visits' = [visits EXCEPT ![b].leaves = @ + 1]
    BY <1>2, LeavesIs DEF Leave
  <2>2. visits[b].leaves + 1 \in 0 .. MaxLeaves
    BY <1>0, <2>1
  <2> QED
    BY <2>1, <2>2 DEF VisitTypes
<1>3. CASE AnswerFails(b)
  BY <1>3, AnswerFailsIs DEF VisitTypes
<1>4. CASE PictureLost(b) \/ PictureArrives(b) \/ AnswerReady(b)
  BY <1>4 DEF PictureLost, PictureArrives, AnswerReady, VisitTypes
<1> QED
  BY <1>1, <1>2, <1>3, <1>4 DEF ViewersStep
-----------------------------------------------------------------------------
(***************************************************************************)
(* All of it together.                                                     *)
(***************************************************************************)
LEMMA TypedIs ==
  Typed <=> /\ TableTypes /\ FrameTypes /\ MishapTypes /\ SharersTyped /\ ViewersTyped /\ VisitTypes
BY DEF Typed, SharersTyped, ViewersTyped, ListenersCount, SharersCount
LEMMA TypedAfter ==
  Typed' <=> /\ TableTypes' /\ FrameTypes' /\ MishapTypes' /\ SharersTyped' /\ ViewersTyped'
             /\ VisitTypes'
BY TypedIs, PTL

LEMMA SharersStepFrames ==
  ASSUME TableTypes, FrameTypes, SharersTyped, NEW a \in CanShare, SharersStep(a)
  PROVE  TableTypes' /\ FrameTypes' /\ UNCHANGED vwVars
<1>0. a \in Apps
  BY SharersAssumption
<1>1. ASSUME up' = up \/ up' = Sent(a, <<Plain("create-room")>>)
                      \/ up' = Sent(a, <<Plain("leave-room")>>)
      PROVE  up' \in [Apps -> Seq(UpFrames)]
  BY <1>0, <1>1, UpFramesAre, OneFrame, SentTypes DEF FrameTypes
<1>2. ASSUME UNCHANGED <<rmVars, sess, online, used, gone, down>>, up' \in [Apps -> Seq(UpFrames)]
      PROVE  TableTypes' /\ FrameTypes'
  BY <1>2, TableKept DEF FrameTypes
<1>3. CASE Stop(a) /\ UNCHANGED vwVars
  BY <1>1, <1>2, <1>3, StopIs DEF Stopped
<1>4. ASSUME NEW n \in Starts, Begins(a, n) \/ PickerAnswers(a, n) \/ PickerFails(a, n), UNCHANGED vwVars
      PROVE  TableTypes' /\ FrameTypes' /\ UNCHANGED vwVars
  <2>1. UNCHANGED linkVars
    BY <1>4, BeginsIs DEF PickerAnswers, PickerFails
  <2> QED
    BY <1>1, <1>2, <1>4, <2>1 DEF linkVars
<1>5. ASSUME NEW n \in Starts, CaptureEnds(a, n), UNCHANGED vwVars
      PROVE  TableTypes' /\ FrameTypes' /\ UNCHANGED vwVars
  BY <1>1, <1>2, <1>5, CaptureEndsIs DEF Stopped
<1>6. ASSUME NEW v \in Sessions, ConnectionFails(a, v), UNCHANGED vwVars
      PROVE  TableTypes' /\ FrameTypes' /\ UNCHANGED vwVars
  BY <1>1, <1>2, <1>6, ConnectionFailsIs DEF linkVars
<1>7. ASSUME NEW n \in Starts, CaptureStarts(a, n), UNCHANGED vwVars
      PROVE  TableTypes' /\ FrameTypes' /\ UNCHANGED vwVars
  BY <1>1, <1>2, <1>7 DEF CaptureStarts
<1>8. ASSUME NEW v \in Sessions, OfferReady(a, v), UNCHANGED vwVars
      PROVE  TableTypes' /\ FrameTypes' /\ UNCHANGED vwVars
  <2> DEFINE m == To(v, Offer(sess[a], entry[a][v].conn))
  <2>1. sess[a] \in Sessions /\ entry[a][v].conn \in Nat
    BY <1>0 DEF TableTypes, SharersTyped, SharingTypeOK, Entries
  <2>2. m \in UpFrames
    BY <2>1, SignalsAre, UpFramesAre
  <2>3. up' = Sent(a, <<m>>) /\ UNCHANGED <<rmVars, sess, online, used, gone, down>>
    BY <1>8 DEF OfferReady
  <2> HIDE DEF m
  <2> QED
    BY <1>0, <1>2, <1>8, <2>2, <2>3, OneFrame, SentTypes
<1> QED
  BY <1>3, <1>4, <1>5, <1>6, <1>7, <1>8 DEF SharersStep

LEMMA ViewersStepFrames ==
  ASSUME TableTypes, FrameTypes, ViewersTyped, NEW b \in CanWatch, ViewersStep(b)
  PROVE  TableTypes' /\ FrameTypes' /\ UNCHANGED shVars
<1>0. b \in Apps /\ UNCHANGED shVars
  BY WatchersAssumption DEF ViewersStep
<1>1. ASSUME UNCHANGED <<rmVars, sess, online, used, gone, down>>, up' \in [Apps -> Seq(UpFrames)]
      PROVE  TableTypes' /\ FrameTypes'
  BY <1>1, TableKept DEF FrameTypes
<1>2. CASE UNCHANGED linkVars
  BY <1>0, <1>1, <1>2 DEF linkVars, FrameTypes
<1>3. ASSUME NEW r \in RoomIds, Join(b, r) PROVE TableTypes' /\ FrameTypes'
  BY <1>0, <1>1, <1>3, UpFramesAre, OneFrame, SentTypes DEF Join
<1>4. ASSUME Leave(b) PROVE TableTypes' /\ FrameTypes'
  <2>1. PICK frames \in LeaveFrames(b) : up' = Sent(b, frames)
    BY <1>4 DEF Leave
  <2>2. frames \in Seq(UpFrames)
    BY UpFramesAre, OneFrame DEF LeaveFrames
  <2> QED
    BY <1>0, <1>1, <1>4, <2>1, <2>2, SentTypes DEF Leave
<1>5. ASSUME AnswerReady(b) PROVE TableTypes' /\ FrameTypes'
  <2> DEFINE o == Head(offers[b])
             m == To(o.from, Answer(sess[b], o.conn, vw[b].conn))
  <2>1. o \in TakenOffers
    BY <1>5, OffersShrink DEF AnswerReady
  <2>2. o.from \in Sessions /\ o.conn \in Nat /\ vw[b].conn \in Nat /\ sess[b] \in Sessions
    BY <1>0, <2>1, WatcherIs DEF TakenOffers, TableTypes
  <2>3. up' = Sent(b, <<m>>) /\ UNCHANGED <<rmVars, sess, online, used, gone, down>>
    BY <1>5 DEF AnswerReady
  <2> HIDE DEF o
  <2>4. m \in UpFrames
    BY <2>2, SignalsAre, UpFramesAre
  <2> HIDE DEF m
  <2> QED
    BY <1>0, <1>1, <2>3, <2>4, OneFrame, SentTypes
<1>6. AnswerFails(b) \/ PictureLost(b) \/ PictureArrives(b) => UNCHANGED linkVars
  BY AnswerFailsIs DEF PictureLost, PictureArrives
<1> QED
  BY <1>0, <1>2, <1>3, <1>4, <1>5, <1>6, JoinsIs, LeavesIs DEF ViewersStep

LEMMA TypedStep == Typed /\ Next => Typed'
<1> SUFFICES ASSUME TableTypes, FrameTypes, MishapTypes, SharersTyped, ViewersTyped, VisitTypes, Next
             PROVE  TableTypes' /\ FrameTypes' /\ SharersTyped' /\ ViewersTyped' /\ VisitTypes'
  BY TypedIs, TypedAfter, MishapTypesStep
<1>1. ASSUME NEW a \in Apps, Receive(a)
      PROVE  TableTypes' /\ FrameTypes' /\ SharersTyped' /\ ViewersTyped' /\ VisitTypes'
  <2>1. Head(down[a]) \in DownFrames /\ Tail(down[a]) \in Seq(DownFrames)
    BY <1>1, HeadOfDown DEF Receive
  <2>2. /\ down' = [down EXCEPT ![a] = Tail(@)]
        /\ UNCHANGED <<rmVars, sess, online, used, gone, up, starting, capturing, visits>>
    BY <1>1 DEF Receive
  <2>3. TableTypes' /\ FrameTypes'
    BY <2>1, <2>2, TableKept DEF FrameTypes
  <2>4. SharersTyped'
    BY <1>1, <2>1, <2>2, SharingHearsTypes, SharersTypedKept DEF Receive
  <2>5. ViewersTyped'
    BY <1>1, <2>1, ViewingHearsTypes, ViewersTypedKept DEF Receive
  <2> QED
    BY <2>2, <2>3, <2>4, <2>5 DEF VisitTypes
<1>2. ASSUME NEW a \in Apps, Serve(a)
      PROVE  TableTypes' /\ FrameTypes' /\ SharersTyped' /\ ViewersTyped' /\ VisitTypes'
  BY <1>2, ServeTypes, TableKept, SharersTypedKept, ViewersTypedKept DEF shVars, vwVars, VisitTypes
<1>3. ASSUME NEW a \in CanShare, SharingStep(a)
      PROVE  TableTypes' /\ FrameTypes' /\ SharersTyped' /\ ViewersTyped' /\ VisitTypes'
  BY <1>3, SharersStepIs, SharersStepFrames, SharersStepTypes, ViewersTypedKept DEF vwVars, VisitTypes
<1>4. ASSUME NEW b \in CanWatch, ViewingStep(b)
      PROVE  TableTypes' /\ FrameTypes' /\ SharersTyped' /\ ViewersTyped' /\ VisitTypes'
  BY <1>4, ViewersStepIs, ViewersStepFrames, ViewersStepTypes, VisitTypesStep, SharersTypedKept DEF shVars
<1>5. ASSUME SocketStep, UNCHANGED <<shVars, vwVars>>
      PROVE  TableTypes' /\ FrameTypes' /\ SharersTyped' /\ ViewersTyped' /\ VisitTypes'
  BY <1>5, SocketTypes, SharersTypedKept, ViewersTypedKept DEF shVars, vwVars, VisitTypes
<1> QED
  BY <1>1, <1>2, <1>3, <1>4, <1>5 DEF Next

LEMMA TypedKept == Typed /\ UNCHANGED shareVars => Typed'
<1> SUFFICES ASSUME Typed, UNCHANGED shareVars PROVE Typed'
  OBVIOUS
<1>1. UNCHANGED <<linkVars, happened, shVars, vwVars>>
  BY DEF shareVars
<1>2. TableTypes' /\ FrameTypes' /\ MishapTypes'
  BY <1>1, TypedIs, TableKept DEF linkVars, FrameTypes, MishapTypes
<1>3. SharersTyped' /\ ViewersTyped' /\ VisitTypes'
  BY <1>1, TypedIs, SharersTypedKept, ViewersTypedKept DEF shVars, vwVars, VisitTypes
<1> QED
  BY <1>2, <1>3, TypedAfter

LEMMA InitSessions ==
  ASSUME Init
  PROVE  sess \in [Apps -> Sessions] /\ \A a, b \in Apps : a # b => sess[a] # sess[b]
<1> DEFINE P(f) == \A a, b \in Apps : a # b => f[a] # f[b]
<1>1. sess = CHOOSE f \in [Apps -> Sessions] : P(f)
  BY Zenon DEF Init, LinkInit
<1>2. \E f \in [Apps -> Sessions] : P(f)
  BY SessionsAssumption
<1> HIDE DEF P
<1>3. sess \in [Apps -> Sessions] /\ P(sess)
  BY <1>1, <1>2, Zenon
<1> QED
  BY <1>3 DEF P

LEMMA TypedInit == Init => Typed
<1> SUFFICES ASSUME Init PROVE Typed
  OBVIOUS
<1>1. TableTypes
  BY InitSessions DEF Init, LinkInit, RMInit, TableTypes, RMTypeOK, RoomExists
<1>2. FrameTypes
  <2>1. <<>> \in Seq(UpFrames) /\ <<>> \in Seq(DownFrames)
    OBVIOUS
  <2> QED
    BY <2>1 DEF Init, LinkInit, FrameTypes
<1>3. MishapTypes
  BY DEF Init, LinkInit, MishapTypes
<1>4. SharersTyped
  <2>1. SharingTypeOK
    BY SharersAssumption, EntriesAre DEF Init, SharingInit, SharingTypeOK, Managers, StartPhases
  <2>2. \A a \in CanShare : ~sh[a].subscribed /\ sh[a].listening = 0
    BY DEF Init, SharingInit
  <2>3. \A a \in CanShare : Cardinality(StartsDone(a)) \in Nat
    BY StartsDoneAre, CountOfStarts
  <2> QED
    BY <2>1, <2>2, <2>3 DEF SharersTyped, SharersCount
<1>5. ViewersTyped
  <2>1. <<>> \in Seq(TakenOffers) /\ NoOffer \in Offers
    BY DEF NoOffer, Offers
  <2> QED
    BY <2>1 DEF Init, ViewingInit, ViewersTyped, WatchTypes, Watchers
<1>6. VisitTypes
  BY WatchersAssumption DEF Init, ViewingInit, VisitTypes
<1> QED
  BY <1>1, <1>2, <1>3, <1>4, <1>5, <1>6, TypedIs

LEMMA TypedHolds == Spec => []Typed
<1>1. Typed /\ [Next]_shareVars => Typed'
  BY TypedStep, TypedKept
<1> QED
  BY <1>1, TypedInit, PTL DEF Spec

(***************************************************************************)
(* Every field of both halves keeps its type; a manager's count of its     *)
(* listeners never goes below zero or above its starts.                    *)
(***************************************************************************)
THEOREM ShareTypeCorrect == Spec => []TypeOK
<1>1. Typed => TypeOK
  <2> SUFFICES ASSUME Typed PROVE TypeOK
    OBVIOUS
  <2>1. LinkTypeOK
    BY DEF Typed, TableTypes, MishapTypes, LinkTypeOK
  <2>2. \A b \in CanWatch : \A i \in 1 .. Len(offers[b]) : offers[b][i] \in Offers
    <3> SUFFICES ASSUME NEW b \in CanWatch, NEW i \in 1 .. Len(offers[b])
                 PROVE  offers[b][i] \in Offers
      OBVIOUS
    <3>1. offers[b] \in Seq(TakenOffers)
      BY TypedIs, WatcherIs
    <3>2. offers[b][i] \in TakenOffers
      BY <3>1
    <3> QED
      BY <3>2 DEF TakenOffers, Offers
  <2>3. ViewingTypeOK
    BY <2>2 DEF Typed, WatchTypes, VisitTypes, ViewingTypeOK
  <2> QED
    BY <2>1, <2>3 DEF Typed, TypeOK
<1> QED
  BY <1>1, TypedHolds, PTL
-----------------------------------------------------------------------------
(***************************************************************************)
(* SharerInv, one application at a time.                                   *)
(***************************************************************************)
LEMMA SteadyBefore ==
  ASSUME happened \subseteq happened', NEW a
  PROVE  /\ Steady(a)' => Steady(a)
         /\ NotEndedEarly(a)' => NotEndedEarly(a)
BY SparedBefore, Zenon DEF Steady, NotEndedEarly

LEMMA InOrderKept ==
  ASSUME NEW a \in CanShare, InOrder(a), happened \subseteq happened',
         sh'[a] = sh[a], starting'[a] = starting[a], capturing'[a] = capturing[a], entry'[a] = entry[a]
  PROVE  InOrder(a)'
<1>1. NotEndedEarly(a)' => NotEndedEarly(a)
  BY SteadyBefore
<1> QED
  BY <1>1 DEF InOrder, OneStart, Under, AwaitsCapture, Holds, HoldsNothing, Captures

LEMMA SharerIs ==
  ASSUME SharingTypeOK, NEW a \in CanShare
  PROVE  /\ sh[a] \in Managers /\ sh[a].stream \in 0 .. MaxStarts /\ sh[a].listening \in Nat
         /\ sh[a].subscribed \in BOOLEAN /\ sh[a].managing \in BOOLEAN
         /\ sh[a].stream # 0 => sh[a].stream \in Starts
         /\ starting[a] \in [Starts -> StartPhases] /\ capturing[a] \in SUBSET Starts
         /\ entry[a] \in [Sessions -> Entries]
<1>1. /\ sh[a] \in Managers /\ starting[a] \in [Starts -> StartPhases]
      /\ capturing[a] \in SUBSET Starts /\ entry[a] \in [Sessions -> Entries]
  BY DEF SharingTypeOK
<1>2. /\ sh[a].stream \in 0 .. MaxStarts /\ sh[a].listening \in 0 .. MaxStarts
      /\ sh[a].subscribed \in BOOLEAN /\ sh[a].managing \in BOOLEAN
  BY <1>1 DEF Managers
<1>3. MaxStarts \in Nat /\ Starts = 1 .. MaxStarts
  BY StartsAre
<1> QED
  BY <1>1, <1>2, <1>3

LEMMA BeginsInOrder ==
  ASSUME SharingTypeOK, NEW a \in CanShare, NEW n \in Starts, Begins(a, n), InOrder(a), Steady(a)',
         happened \subseteq happened'
  PROVE  InOrder(a)'
<1>1. /\ sh[a].state \in {"idle", "error"} /\ starting[a][n] = "none" /\ sh[a].stream = 0
      /\ sh'[a] = [sh[a] EXCEPT !.state = "starting"]
      /\ starting'[a] = [starting[a] EXCEPT ![n] = "picker"]
      /\ capturing'[a] = capturing[a] /\ entry'[a] = entry[a]
  <2>1. /\ sh[a].state \in {"idle", "error"} /\ starting[a][n] = "none"
        /\ sh' = [sh EXCEPT ![a].state = "starting"]
        /\ starting' = [starting EXCEPT ![a][n] = "picker"]
        /\ UNCHANGED <<capturing, entry>>
    BY BeginsIs
  <2>2. sh[a].stream = 0
    BY BeginsIs
  <2> QED
    BY <2>1, <2>2 DEF SharingTypeOK
<1>2. /\ sh'[a].state = "starting" /\ sh'[a].stream = 0 /\ sh'[a].subscribed = sh[a].subscribed
      /\ sh'[a].listening = sh[a].listening /\ sh'[a].managing = sh[a].managing
  BY <1>1, SharerIs DEF Managers
<1>3. \A k \in Starts : starting'[a][k] = IF k = n THEN "picker" ELSE starting[a][k]
  BY <1>1, SharerIs
<1>4. \A k \in Starts : ~Under(a, k)
  BY <1>1 DEF InOrder, OneStart, AwaitsCapture, Under
<1>5. OneStart(a)'
  BY <1>2, <1>3, <1>4 DEF OneStart, Under, AwaitsCapture
<1>6. HoldsNothing(a)'
  BY <1>1, <1>2 DEF InOrder, HoldsNothing
<1>7. Captures(a)'
  BY <1>1, <1>2, <1>3, SteadyBefore DEF InOrder, Captures
<1> QED
  BY <1>2, <1>5, <1>6, <1>7 DEF InOrder

LEMMA PickerAnswersInOrder ==
  ASSUME SharingTypeOK, NEW a \in CanShare, NEW n \in Starts, PickerAnswers(a, n), InOrder(a),
         happened \subseteq happened'
  PROVE  InOrder(a)'
<1>1. /\ starting[a][n] = "picker" /\ sh'[a] = sh[a] /\ entry'[a] = entry[a]
      /\ starting'[a] = [starting[a] EXCEPT ![n] = "audio"]
      /\ capturing'[a] = capturing[a] \union {n}
  BY DEF PickerAnswers, SharingTypeOK
<1>2. \A k \in Starts : starting'[a][k] = IF k = n THEN "audio" ELSE starting[a][k]
  BY <1>1, SharerIs
<1>3. Under(a, n) /\ sh[a].stream = 0
  BY <1>1 DEF Under, InOrder, OneStart, AwaitsCapture
<1>4. OneStart(a)'
  BY <1>1, <1>2, <1>3 DEF InOrder, OneStart, Under, AwaitsCapture
<1>5. HoldsNothing(a)'
  BY <1>1, <1>3 DEF InOrder, HoldsNothing
<1>6. Captures(a)'
  BY <1>1, <1>2, SteadyBefore DEF InOrder, Captures
<1> QED
  BY <1>1, <1>3, <1>4, <1>5, <1>6 DEF InOrder

\* Everything was let go, and at most one start() goes on.
LEMMA LetGoInOrder ==
  ASSUME SharingTypeOK', NEW a \in CanShare, NEW state,
         sh'[a].state = state, state \in {"idle", "error"},
         sh'[a].stream = 0, ~sh'[a].managing, ~sh'[a].subscribed, sh'[a].listening = 0,
         entry'[a] = NoEntries,
         \A k \in Starts : starting'[a][k] \notin {"picker", "audio"},
         capturing'[a] = {}
  PROVE  InOrder(a)'
<1>1. OneStart(a)' /\ HoldsNothing(a)'
  BY DEF OneStart, Under, AwaitsCapture, HoldsNothing
<1>2. Captures(a)'
  BY StartsAre DEF Captures
<1> QED
  BY <1>1, <1>2 DEF InOrder

LEMMA CleanUpIs ==
  ASSUME SharingTypeOK, NEW a \in CanShare, NEW m \in Managers, m.subscribed => m.listening >= 1,
         NEW state \in {"idle", "starting", "sharing", "error"}, CleanUp(a, m, state)
  PROVE  /\ sh'[a].state = state /\ sh'[a].stream = 0 /\ ~sh'[a].managing /\ ~sh'[a].subscribed
         /\ sh'[a].room = m.room /\ sh'[a].made = m.made
         /\ sh'[a].listening = IF m.subscribed THEN m.listening - 1 ELSE m.listening
         /\ entry'[a] = NoEntries
<1> DEFINE k == CleanedTo(m, state)
<1>1. sh' = [sh EXCEPT ![a] = k] /\ entry' = [entry EXCEPT ![a] = NoEntries]
  BY DEF CleanUp, CleanedTo
<1>2. /\ k.state = state /\ k.room = m.room /\ k.stream = 0 /\ ~k.managing /\ ~k.subscribed
      /\ k.made = m.made
      /\ k.listening = IF m.subscribed THEN m.listening - 1 ELSE m.listening
  BY CleanedIs
<1> HIDE DEF k
<1>3. sh'[a] = k /\ entry'[a] = NoEntries
  BY <1>1 DEF SharingTypeOK
<1> QED
  BY <1>2, <1>3

LEMMA PickerFailsInOrder ==
  ASSUME SharersTyped, SharersTyped', NEW a \in CanShare, NEW n \in Starts, PickerFails(a, n), InOrder(a)
  PROVE  InOrder(a)'
<1>1. /\ starting[a][n] = "picker"
      /\ starting'[a] = [starting[a] EXCEPT ![n] = "done"]
      /\ capturing'[a] = capturing[a] \ {sh[a].stream}
  BY DEF PickerFails, SharersTyped, SharingTypeOK
<1>2. PICK state \in {"idle", "error"} : CleanUp(a, sh[a], state)
  BY DEF PickerFails
<1>3. Under(a, n) /\ sh[a].stream = 0
  BY <1>1 DEF Under, InOrder, OneStart, AwaitsCapture
<1>4. ~sh[a].subscribed /\ sh[a].listening = 0
  BY <1>3 DEF InOrder, HoldsNothing
<1>5. /\ sh'[a].state = state /\ sh'[a].stream = 0 /\ ~sh'[a].managing /\ ~sh'[a].subscribed
      /\ sh'[a].listening = 0 /\ entry'[a] = NoEntries
  BY <1>2, <1>4, SharerIs, CleanUpIs DEF SharersTyped
<1>6. \A k \in Starts : starting'[a][k] = IF k = n THEN "done" ELSE starting[a][k]
  BY <1>1, SharerIs DEF SharersTyped
<1>7. \A k \in Starts : starting'[a][k] \notin {"picker", "audio"}
  BY <1>3, <1>6 DEF InOrder, OneStart, Under
<1>8. capturing'[a] = {}
  <2>1. \A k \in Starts : starting[a][k] # "audio"
    BY <1>1, <1>3 DEF InOrder, OneStart, Under
  <2> QED
    BY <1>1, <1>3, <2>1 DEF InOrder, Captures
<1> QED
  BY <1>5, <1>7, <1>8, LetGoInOrder DEF SharersTyped

LEMMA CaptureStartsInOrder ==
  ASSUME SharersTyped, SharersTyped', NEW a \in CanShare, NEW n \in Starts, CaptureStarts(a, n),
         InOrder(a), happened \subseteq happened'
  PROVE  InOrder(a)'
<1> DEFINE listens == [sh[a] EXCEPT !.stream = n, !.listening = @ + 1, !.subscribed = TRUE]
<1>1. /\ starting[a][n] = "audio"
      /\ starting'[a] = [starting[a] EXCEPT ![n] = "done"]
  BY DEF CaptureStarts, SharersTyped, SharingTypeOK
<1>2. Under(a, n) /\ sh[a].stream = 0 /\ sh[a].state = "starting"
  BY <1>1 DEF Under, InOrder, OneStart, AwaitsCapture
<1>3. ~sh[a].subscribed /\ sh[a].listening = 0 /\ ~sh[a].managing /\ entry[a] = NoEntries
  BY <1>2 DEF InOrder, HoldsNothing
<1>4. /\ listens \in Managers /\ listens.subscribed /\ listens.listening = 1 /\ listens.stream = n
      /\ listens.state = "starting" /\ n # 0
  <2>1. sh[a] \in Managers
    BY SharerIs DEF SharersTyped
  <2>2. n \in 0 .. MaxStarts /\ 1 \in 0 .. MaxStarts /\ n # 0
    BY StartsAre
  <2>3. listens = [sh[a] EXCEPT !.stream = n, !.listening = 1, !.subscribed = TRUE]
    BY <1>3, <2>1 DEF Managers
  <2> QED
    BY <1>2, <2>1, <2>2, <2>3 DEF Managers
<1>5. \A k \in Starts : starting'[a][k] = IF k = n THEN "done" ELSE starting[a][k]
  BY <1>1, SharerIs DEF SharersTyped
<1>6. \A k \in Starts : starting'[a][k] \notin {"picker", "audio"}
  BY <1>2, <1>5 DEF InOrder, OneStart, Under
<1>7. \A k \in Starts : starting[a][k] = "audio" => k = n
  BY <1>2 DEF InOrder, OneStart, Under
<1>8. CASE online[a]
  <2>1. sh'[a] = listens /\ UNCHANGED <<capturing, entry>>
    BY <1>8 DEF CaptureStarts, SharersTyped, SharingTypeOK
  <2> HIDE DEF listens
  <2>2. OneStart(a)' /\ Holds(a)'
    BY <1>4, <1>5, <1>6, <2>1 DEF OneStart, Under, AwaitsCapture, Holds
  <2>3. Captures(a)'
    <3>1. capturing[a] \subseteq {n}
      BY <1>2, <1>7, SharerIs, StartsAre DEF InOrder, Captures, SharersTyped
    <3>2. NotEndedEarly(a)' => n \in capturing[a]
      BY <1>1, SteadyBefore DEF InOrder, Captures
    <3> QED
      BY <1>4, <1>6, <2>1, <3>1, <3>2 DEF Captures
  <2> QED
    BY <1>4, <2>1, <2>2, <2>3 DEF InOrder
<1>9. CASE ~online[a]
  <2>1. CleanUp(a, listens, "error") /\ capturing'[a] = capturing[a] \ {n}
    BY <1>9 DEF CaptureStarts, SharersTyped, SharingTypeOK
  <2> HIDE DEF listens
  <2>2. /\ sh'[a].state = "error" /\ sh'[a].stream = 0 /\ ~sh'[a].managing /\ ~sh'[a].subscribed
        /\ sh'[a].listening = 0 /\ entry'[a] = NoEntries
    BY <1>4, <2>1, CleanUpIs DEF SharersTyped
  <2>3. capturing'[a] = {}
    BY <1>2, <1>7, <2>1, SharerIs, StartsAre DEF InOrder, Captures, SharersTyped
  <2> QED
    BY <1>6, <2>2, <2>3, LetGoInOrder DEF SharersTyped
<1> QED
  BY <1>8, <1>9

\* The effect of stop() on a manager that awaits no capture.
LEMMA StoppedInOrder ==
  ASSUME SharersTyped, SharersTyped', NEW a \in CanShare, Stopped(a), UNCHANGED starting, InOrder(a),
         ~AwaitsCapture(a),
         capturing'[a] \subseteq capturing[a] \ {sh[a].stream}
  PROVE  InOrder(a)'
<1> DEFINE m == [sh[a] EXCEPT !.room = None]
<1>1. m \in Managers /\ m.subscribed = sh[a].subscribed /\ m.listening = sh[a].listening
  BY SharerIs DEF SharersTyped, Managers
<1>2. CleanUp(a, m, "idle")
  BY DEF Stopped
<1> HIDE DEF m
<1>3. sh[a].listening = IF sh[a].subscribed THEN 1 ELSE 0
  BY DEF InOrder, Holds, HoldsNothing
<1>4. /\ sh'[a].state = "idle" /\ sh'[a].stream = 0 /\ ~sh'[a].managing /\ ~sh'[a].subscribed
      /\ sh'[a].listening = 0 /\ entry'[a] = NoEntries
  BY <1>1, <1>2, <1>3, CleanUpIs DEF SharersTyped
<1>5. \A k \in Starts : starting'[a][k] \notin {"picker", "audio"} /\ starting[a][k] # "audio"
  BY DEF AwaitsCapture
<1>6. capturing'[a] = {}
  BY <1>5 DEF InOrder, Captures
<1> QED
  BY <1>4, <1>5, <1>6, LetGoInOrder DEF SharersTyped

LEMMA StopInOrder ==
  ASSUME SharersTyped, SharersTyped', NEW a \in CanShare, Stop(a), InOrder(a), Steady(a)'
  PROVE  InOrder(a)'
<1>1. /\ Stopped(a) /\ UNCHANGED starting /\ ~AwaitsCapture(a)
      /\ capturing' = [capturing EXCEPT ![a] = @ \ {sh[a].stream}]
  BY StopIs
<1>2. capturing'[a] = capturing[a] \ {sh[a].stream}
  BY <1>1 DEF SharersTyped, SharingTypeOK
<1> QED
  BY <1>1, <1>2, StoppedInOrder

LEMMA CaptureEndsInOrder ==
  ASSUME SharersTyped, SharersTyped', NEW a \in CanShare, NEW n \in Starts, CaptureEnds(a, n),
         InOrder(a), Steady(a)', happened \subseteq happened'
  PROVE  InOrder(a)'
<1>1. /\ n \in capturing[a] /\ UNCHANGED starting
      /\ starting[a][n] = "done" => ~AwaitsCapture(a)
      /\ NotEndedEarly(a)' => starting[a][n] # "audio"
  BY CaptureEndsIs
<1>2. starting[a][n] = "audio" \/ (n = sh[a].stream /\ starting[a][n] = "done")
  BY <1>1, StartsAre DEF InOrder, Holds, Captures
<1>3. CASE starting[a][n] = "audio"
  <2>1. /\ capturing'[a] = capturing[a] \ {n} /\ sh'[a] = sh[a] /\ entry'[a] = entry[a]
        /\ starting'[a] = starting[a]
    BY <1>3, CaptureEndsIs DEF SharersTyped, SharingTypeOK
  <2>2. OneStart(a)' /\ (IF sh'[a].stream = 0 THEN HoldsNothing(a)' ELSE Holds(a)')
    BY <2>1 DEF InOrder, OneStart, Under, AwaitsCapture, Holds, HoldsNothing
  <2>3. Captures(a)'
    BY <1>1, <1>3, <2>1 DEF InOrder, Captures
  <2> QED
    BY <2>2, <2>3 DEF InOrder
<1>4. CASE starting[a][n] # "audio"
  <2>1. n = sh[a].stream /\ sh[a].stream # 0 /\ ~AwaitsCapture(a)
    BY <1>1, <1>2, <1>4, StartsAre
  <2>2. sh[a].state # "idle"
    BY <2>1 DEF InOrder, Holds
  <2>3. Stopped(a) /\ capturing' = [capturing EXCEPT ![a] = @ \ {n, sh[a].stream}]
    BY <1>4, <2>2, CaptureEndsIs
  <2>4. capturing'[a] \subseteq capturing[a] \ {sh[a].stream}
    BY <2>3 DEF SharersTyped, SharingTypeOK
  <2> QED
    BY <1>1, <2>1, <2>3, <2>4, StoppedInOrder
<1> QED
  BY <1>3, <1>4

\* A manager that holds a stream goes on holding it.
LEMMA GoesOnInOrder ==
  ASSUME NEW a \in CanShare, InOrder(a), sh[a].stream # 0,
         sh'[a].stream = sh[a].stream, sh'[a].listening = sh[a].listening,
         sh'[a].subscribed = sh[a].subscribed, sh'[a].state # "idle",
         starting'[a] = starting[a], capturing'[a] = capturing[a],
         happened \subseteq happened'
  PROVE  InOrder(a)'
<1>1. ~AwaitsCapture(a)
  BY DEF InOrder, OneStart
<1>2. OneStart(a)' /\ Holds(a)'
  BY <1>1 DEF InOrder, OneStart, Under, AwaitsCapture, Holds
<1>3. Captures(a)'
  BY SteadyBefore DEF InOrder, Captures
<1> QED
  BY <1>2, <1>3 DEF InOrder

LEMMA HearsInOrder ==
  ASSUME SharersTyped, NEW a \in CanShare, NEW m \in DownFrames, SharingHears(a, m), InOrder(a),
         UNCHANGED <<starting, capturing, happened>>
  PROVE  InOrder(a)'
<1>1. CASE sh'[a] = sh[a] /\ entry'[a] = entry[a]
  BY <1>1, InOrderKept
<1>2. CASE ~(sh'[a] = sh[a] /\ entry'[a] = entry[a])
  <2>1. sh[a].listening # 0
    BY <1>2 DEF SharingHears
  <2>2. sh[a].stream # 0 /\ sh[a].state # "idle"
    BY <2>1 DEF InOrder, HoldsNothing, Holds
  <2>3. sh[a] \in Managers
    BY SharerIs DEF SharersTyped
  <2>4. /\ sh'[a].stream = sh[a].stream /\ sh'[a].listening = sh[a].listening
        /\ sh'[a].subscribed = sh[a].subscribed /\ sh'[a].state # "idle"
    <3>1. \/ sh'[a] = [sh[a] EXCEPT !.room = m.room, !.managing = TRUE, !.state = "sharing"]
          \/ sh'[a] = [sh[a] EXCEPT !.made = @ + 1]
          \/ sh'[a] = [sh[a] EXCEPT !.state = "error"]
          \/ sh'[a] = sh[a]
      BY <2>1 DEF SharingHears, AddViewer, SharersTyped, SharingTypeOK
    <3> QED
      BY <2>2, <2>3, <3>1 DEF Managers
  <2> QED
    BY <2>2, <2>4, GoesOnInOrder
<1> QED
  BY <1>1, <1>2

LEMMA OfferReadyInOrder ==
  ASSUME SharersTyped, NEW a \in CanShare, NEW v \in Sessions, OfferReady(a, v), InOrder(a)
  PROVE  InOrder(a)'
<1>1. entry[a][v].phase = "offering" /\ UNCHANGED <<sh, starting, capturing, happened>>
  BY DEF OfferReady
<1>2. sh[a].stream # 0
  BY <1>1 DEF InOrder, HoldsNothing, NoEntries, NoEntry
<1>3. sh[a].state # "idle"
  BY <1>2 DEF InOrder, Holds
<1> QED
  BY <1>1, <1>2, <1>3, GoesOnInOrder

LEMMA ConnectionFailsInOrder ==
  ASSUME SharersTyped, NEW a \in CanShare, NEW v \in Sessions, ConnectionFails(a, v), InOrder(a),
         happened \subseteq happened'
  PROVE  InOrder(a)'
<1>1. entry[a][v].phase # "none" /\ UNCHANGED <<sh, starting, capturing>>
  BY ConnectionFailsIs
<1>2. sh[a].stream # 0
  BY <1>1 DEF InOrder, HoldsNothing, NoEntries, NoEntry
<1>3. sh[a].state # "idle"
  BY <1>2 DEF InOrder, Holds
<1> QED
  BY <1>1, <1>2, <1>3, GoesOnInOrder

\* What no step of a's own touches.
LEMMA SharersStepOf ==
  ASSUME SharersTyped, NEW c \in CanShare, SharersStep(c), NEW a \in CanShare, a # c
  PROVE  /\ sh'[a] = sh[a] /\ starting'[a] = starting[a] /\ capturing'[a] = capturing[a]
         /\ entry'[a] = entry[a]
<1>1. CASE Stop(c)
  BY <1>1, StopIs DEF Stopped, CleanUp, SharersTyped, SharingTypeOK
<1>2. ASSUME NEW n \in Starts, Begins(c, n) \/ PickerAnswers(c, n)
      PROVE  /\ sh'[a] = sh[a] /\ starting'[a] = starting[a] /\ capturing'[a] = capturing[a]
             /\ entry'[a] = entry[a]
  BY <1>2, BeginsIs DEF PickerAnswers, SharersTyped, SharingTypeOK
<1>3. ASSUME NEW n \in Starts, PickerFails(c, n)
      PROVE  /\ sh'[a] = sh[a] /\ starting'[a] = starting[a] /\ capturing'[a] = capturing[a]
             /\ entry'[a] = entry[a]
  BY <1>3 DEF PickerFails, CleanUp, SharersTyped, SharingTypeOK
<1>4. ASSUME NEW n \in Starts, CaptureStarts(c, n)
      PROVE  /\ sh'[a] = sh[a] /\ starting'[a] = starting[a] /\ capturing'[a] = capturing[a]
             /\ entry'[a] = entry[a]
  BY <1>4 DEF CaptureStarts, CleanUp, SharersTyped, SharingTypeOK
<1>5. ASSUME NEW n \in Starts, CaptureEnds(c, n)
      PROVE  /\ sh'[a] = sh[a] /\ starting'[a] = starting[a] /\ capturing'[a] = capturing[a]
             /\ entry'[a] = entry[a]
  <2>1. UNCHANGED starting /\ ((UNCHANGED <<sh, entry>>) \/ Stopped(c))
    BY <1>5, CaptureEndsIs
  <2>2. capturing'[a] = capturing[a]
    BY <1>5, CaptureEndsIs DEF SharersTyped, SharingTypeOK
  <2> QED
    BY <2>1, <2>2 DEF Stopped, CleanUp, SharersTyped, SharingTypeOK
<1>6. ASSUME NEW v \in Sessions, ConnectionFails(c, v) \/ OfferReady(c, v)
      PROVE  /\ sh'[a] = sh[a] /\ starting'[a] = starting[a] /\ capturing'[a] = capturing[a]
             /\ entry'[a] = entry[a]
  BY <1>6, ConnectionFailsIs DEF RemoveViewer, OfferReady, SharersTyped, SharingTypeOK
<1> QED
  BY <1>1, <1>2, <1>3, <1>4, <1>5, <1>6 DEF SharersStep

LEMMA SharingHearsOf ==
  ASSUME SharingTypeOK, NEW c \in CanShare, NEW m, SharingHears(c, m), NEW a \in CanShare, a # c
  PROVE  sh'[a] = sh[a] /\ entry'[a] = entry[a]
<1>1. CASE UNCHANGED <<sh, entry>>
  BY <1>1
<1>2. CASE ~UNCHANGED <<sh, entry>>
  <2>1. \/ AddViewer(c, m.viewer)
        \/ RemoveViewer(c, m.viewer) /\ UNCHANGED sh
        \/ UNCHANGED sh /\ \E e \in AfterAnswer(entry[c][m.from], m, sh[c].listening) :
                               entry' = [entry EXCEPT ![c][m.from] = e]
        \/ sh' = [sh EXCEPT ![c].state = "error"] /\ UNCHANGED entry
        \/ /\ sh' = [sh EXCEPT ![c] = [@ EXCEPT !.room = m.room, !.managing = TRUE,
                                                !.state = "sharing"]]
           /\ entry' = [entry EXCEPT ![c] = NoEntries]
    BY <1>2 DEF SharingHears
  <2> QED
    BY <2>1 DEF AddViewer, RemoveViewer, SharingTypeOK
<1> QED
  BY <1>1, <1>2

LEMMA SharerStep ==
  ASSUME Typed, SharerInv, Next
  PROVE  SharerInv'
<1> SUFFICES ASSUME NEW a \in CanShare, Steady(a)' PROVE InOrder(a)'
  BY DEF SharerInv
<1>0. /\ happened \subseteq happened' /\ InOrder(a) /\ a \in Apps
      /\ SharersTyped /\ SharersTyped' /\ SharingTypeOK /\ FrameTypes /\ TableTypes
  BY MishapsStay, SteadyBefore, TypedStep, TypedIs, TypedAfter, SharersAssumption
     DEF SharerInv, SharersTyped
<1>1. CASE UNCHANGED shVars
  BY <1>0, <1>1, InOrderKept DEF shVars
<1>2. ASSUME NEW c \in Apps, Receive(c) PROVE InOrder(a)'
  <2>1. UNCHANGED <<starting, capturing, happened>> /\ Head(down[c]) \in DownFrames
    BY <1>0, <1>2, HeadOfDown DEF Receive
  <2>2. CASE c = a
    BY <1>0, <1>2, <2>1, <2>2, HearsInOrder DEF Receive
  <2>3. CASE c # a
    <3>1. sh'[a] = sh[a] /\ entry'[a] = entry[a]
      BY <1>0, <1>2, <2>3, SharingHearsOf DEF Receive
    <3> QED
      BY <1>0, <2>1, <3>1, InOrderKept
  <2> QED
    BY <2>2, <2>3
<1>3. ASSUME NEW c \in CanShare, SharersStep(c), c # a PROVE InOrder(a)'
  BY <1>0, <1>3, SharersStepOf, InOrderKept
<1>4. CASE SharersStep(a)
  BY <1>0, <1>4, BeginsInOrder, PickerAnswersInOrder, PickerFailsInOrder, CaptureStartsInOrder,
     StopInOrder, CaptureEndsInOrder, OfferReadyInOrder, ConnectionFailsInOrder DEF SharersStep
<1>5. ASSUME NEW c \in Apps, Serve(c) PROVE UNCHANGED shVars
  BY <1>5 DEF Serve
<1>6. ASSUME NEW b \in CanWatch, ViewingStep(b) PROVE UNCHANGED shVars
  BY <1>6, ViewersStepIs DEF ViewersStep
<1> QED
  BY <1>1, <1>2, <1>3, <1>4, <1>5, <1>6, SharersStepIs DEF Next

LEMMA SharerInit == Init => SharerInv
<1> SUFFICES ASSUME Init, NEW a \in CanShare PROVE InOrder(a)
  BY DEF SharerInv
<1>1. /\ sh[a].stream = 0 /\ ~sh[a].subscribed /\ sh[a].listening = 0 /\ ~sh[a].managing
      /\ sh[a].state = "idle" /\ entry[a] = NoEntries /\ capturing[a] = {}
      /\ \A n \in Starts : starting[a][n] = "none"
  BY DEF Init, SharingInit
<1> QED
  BY <1>1, StartsAre DEF InOrder, OneStart, Under, AwaitsCapture, HoldsNothing, Captures

LEMMA SharerInvHolds == Spec => [](Typed /\ SharerInv)
<1>1. Typed /\ SharerInv /\ [Next]_shareVars => (Typed /\ SharerInv)'
  <2>1. ASSUME SharerInv, UNCHANGED shareVars PROVE SharerInv'
    <3>1. UNCHANGED <<sh, starting, capturing, entry, happened>>
      BY <2>1 DEF shareVars, shVars
    <3> QED
      BY <2>1, <3>1, InOrderKept, SteadyBefore DEF SharerInv
  <2> QED
    BY <2>1, TypedStep, TypedKept, SharerStep
<1> QED
  BY <1>1, TypedInit, SharerInit, PTL DEF Spec

(***************************************************************************)
(* No interleaving of pickers, stops and lost captures leaves a capture    *)
(* running that its manager does not hold (#cleanup).                      *)
(***************************************************************************)
THEOREM NoCaptureIsOrphaned == Spec => []NoOrphanCapture
<1>1. SharerInv => NoOrphanCapture
  BY Zenon DEF SharerInv, InOrder, Captures, NoOrphanCapture, Steady
<1> QED
  BY <1>1, SharerInvHolds, PTL

(***************************************************************************)
(* An application that says it is sharing has a live capture, unless it    *)
(* was ended before anybody listened for its end.                          *)
(***************************************************************************)
LEMMA SparedBoth ==
  ASSUME NEW who, NEW ms, NEW ns, Spared(who, ms \union ns)
  PROVE  Spared(who, ms) /\ Spared(who, ns)
BY DEF Spared

THEOREM SharingIsLive == Spec => []LiveMeansCapturing
<1>1. ASSUME Typed, SharerInv PROVE LiveMeansCapturing
  <2>1. ASSUME NEW a \in CanShare, sh[a].state = "sharing", Steady(a), NotEndedEarly(a)
        PROVE  sh[a].stream \in capturing[a]
    <3>1. sh[a].stream # 0 /\ sh[a].stream \in Starts
      BY <1>1, <2>1, TypedIs, SharerIs DEF SharerInv, InOrder, HoldsNothing, SharersTyped
    <3> QED
      BY <1>1, <2>1, <3>1 DEF SharerInv, InOrder, Captures
  <2> QED
    BY <2>1, SparedBoth, Zenon DEF LiveMeansCapturing, Steady, NotEndedEarly
<1> QED
  BY <1>1, SharerInvHolds, PTL
-----------------------------------------------------------------------------
(***************************************************************************)
(* Queues of frames: a frame that is in one, and one that is in it once.   *)
(***************************************************************************)
Has(q, m) == \E i \in 1 .. Len(q) : q[i] = m
Single(q, m) == \A i, j \in 1 .. Len(q) : q[i] = m /\ q[j] = m => i = j

LEMMA EmptyQueue == \A m : ~Has(<<>>, m) /\ Single(<<>>, m)
BY DEF Has, Single

LEMMA QueueGrows ==
  ASSUME NEW S, NEW q \in Seq(S), NEW x \in S
  PROVE  /\ q \o <<x>> \in Seq(S)
         /\ \A m : Has(q \o <<x>>, m) <=> Has(q, m) \/ x = m
         /\ \A m : Single(q, m) /\ ~(Has(q, m) /\ x = m) => Single(q \o <<x>>, m)
<1> DEFINE r == q \o <<x>>
<1>1. /\ r \in Seq(S) /\ Len(r) = Len(q) + 1 /\ r[Len(q) + 1] = x
      /\ \A i \in 1 .. Len(q) : r[i] = q[i]
      /\ Len(q) \in Nat
  OBVIOUS
<1> HIDE DEF r
<1>2. ASSUME NEW m PROVE Has(r, m) <=> Has(q, m) \/ x = m
  <2>1. \A i \in 1 .. Len(r) : i \in 1 .. Len(q) \/ i = Len(q) + 1
    BY <1>1
  <2>2. \A i \in 1 .. Len(q) : i \in 1 .. Len(r)
    BY <1>1
  <2>3. Len(q) + 1 \in 1 .. Len(r)
    BY <1>1
  <2> QED
    BY <1>1, <2>1, <2>2, <2>3 DEF Has
<1>3. ASSUME NEW m, Single(q, m), ~(Has(q, m) /\ x = m) PROVE Single(r, m)
  <2>1. \A i \in 1 .. Len(r) : i \in 1 .. Len(q) \/ i = Len(q) + 1
    BY <1>1
  <2> QED
    BY <1>1, <1>3, <2>1 DEF Has, Single
<1> QED
  BY <1>1, <1>2, <1>3 DEF r

LEMMA QueueShrinks ==
  ASSUME NEW S, NEW q \in Seq(S), q # <<>>
  PROVE  /\ Head(q) \in S /\ Tail(q) \in Seq(S) /\ Has(q, Head(q))
         /\ \A m : Has(Tail(q), m) => Has(q, m)
         /\ \A m : Has(q, m) => Has(Tail(q), m) \/ m = Head(q)
         /\ \A m : Single(q, m) => Single(Tail(q), m)
         /\ Single(q, Head(q)) => ~Has(Tail(q), Head(q))
<1> DEFINE r == Tail(q)
<1>1. /\ r \in Seq(S) /\ Len(r) + 1 = Len(q) /\ Head(q) = q[1] /\ Head(q) \in S
      /\ \A i \in 1 .. Len(r) : r[i] = q[i + 1]
      /\ Len(q) \in Nat /\ Len(r) \in Nat /\ Len(q) >= 1
  OBVIOUS
<1> HIDE DEF r
<1>2. /\ \A i \in 1 .. Len(r) : i + 1 \in 1 .. Len(q) /\ i + 1 # 1
      /\ \A i \in 1 .. Len(q) : i = 1 \/ (i - 1 \in 1 .. Len(r) /\ i = (i - 1) + 1)
      /\ 1 \in 1 .. Len(q)
  BY <1>1
<1>3. /\ \A m : Has(r, m) => Has(q, m)
      /\ Has(q, Head(q))
  BY <1>1, <1>2 DEF Has
<1>4. ASSUME NEW m, Has(q, m), m # Head(q) PROVE Has(r, m)
  <2>1. PICK i \in 1 .. Len(q) : q[i] = m
    BY <1>4 DEF Has
  <2>2. i - 1 \in 1 .. Len(r) /\ i = (i - 1) + 1
    BY <1>1, <1>2, <1>4, <2>1
  <2>3. r[i - 1] = m
    BY <1>1, <2>1, <2>2
  <2> QED
    BY <2>2, <2>3 DEF Has
<1>5. ASSUME NEW m, Single(q, m) PROVE Single(r, m)
  <2> SUFFICES ASSUME NEW i \in 1 .. Len(r), NEW j \in 1 .. Len(r), r[i] = m, r[j] = m PROVE i = j
    BY DEF Single
  <2>1. q[i + 1] = m /\ q[j + 1] = m /\ i + 1 \in 1 .. Len(q) /\ j + 1 \in 1 .. Len(q)
    BY <1>1, <1>2
  <2>2. i + 1 = j + 1
    BY <1>5, <2>1 DEF Single
  <2> QED
    BY <2>2
<1>6. ASSUME Single(q, Head(q)), Has(r, Head(q)) PROVE FALSE
  <2>1. PICK i \in 1 .. Len(r) : r[i] = Head(q)
    BY <1>6 DEF Has
  <2>2. i + 1 \in 1 .. Len(q) /\ q[i + 1] = Head(q) /\ i + 1 # 1
    BY <1>1, <1>2, <2>1
  <2> QED
    BY <1>1, <1>2, <1>6, <2>2 DEF Single
<1> QED
  BY <1>1, <1>3, <1>4, <1>5, <1>6 DEF r

LEMMA QueueGrowsTwice ==
  ASSUME NEW S, NEW q \in Seq(S), NEW x \in S
  PROVE  /\ \A m : Has(q \o <<x, x>>, m) <=> Has(q, m) \/ x = m
         /\ \A m : Single(q, m) /\ x # m => Single(q \o <<x, x>>, m)
<1>1. q \o <<x, x>> = (q \o <<x>>) \o <<x>> /\ q \o <<x>> \in Seq(S)
  OBVIOUS
<1> QED
  BY <1>1, QueueGrows
LEMMA AppendIs == \A S : \A q \in Seq(S), x \in S : Append(q, x) = q \o <<x>>
OBVIOUS

\* What one application gets of what a handler pushes.
LEMMA PushedIs ==
  ASSUME FrameTypes, TableTypes, NEW msgs \in [Sessions -> DownFrames \union {Silence}], Pushed(msgs),
         NEW b \in Apps
  PROVE  \/ down'[b] = down[b] /\ (~online[b] \/ msgs[sess[b]] = Silence)
         \/ /\ online[b] /\ msgs[sess[b]] \in DownFrames /\ msgs[sess[b]] # Silence
            /\ down'[b] = down[b] \o <<msgs[sess[b]]>>
<1>1. sess[b] \in Sessions /\ down[b] \in Seq(DownFrames)
  BY DEF TableTypes, FrameTypes
<1>2. msgs[sess[b]] \in DownFrames \union {Silence}
  BY <1>1
<1>3. CASE ~online[b] \/ msgs[sess[b]] = Silence
  BY <1>3 DEF Pushed
<1>4. CASE online[b] /\ msgs[sess[b]] # Silence
  <2>1. down'[b] = Append(down[b], msgs[sess[b]])
    BY <1>4 DEF Pushed
  <2> QED
    BY <1>1, <1>2, <1>4, <2>1, AppendIs
<1> QED
  BY <1>3, <1>4
-----------------------------------------------------------------------------
(***************************************************************************)
(* Sessions: each application has its own, and what is not connected has   *)
(* nothing under way.                                                      *)
(***************************************************************************)
SessionsInv ==
  /\ \A a, b \in Apps : sess[a] = sess[b] => a = b
  /\ \A a \in Apps : sess[a] \in used
  /\ \A a \in Apps : ~online[a] => up[a] = <<>> /\ down[a] = <<>>

\* Who sends, and what: nobody else's queue changes.
LEMMA SharersSend ==
  ASSUME NEW a \in CanShare, SharersStep(a)
  PROVE  /\ UNCHANGED <<rmVars, sess, online, used, gone, down, visits>>
         /\ \/ up' = up
            \/ \E n \in Starts : CaptureStarts(a, n) /\ up' = Sent(a, <<Plain("create-room")>>)
            \/ up' = Sent(a, <<Plain("leave-room")>>)
            \/ \E v \in Sessions :
                 OfferReady(a, v) /\ up' = Sent(a, <<To(v, Offer(sess[a], entry[a][v].conn))>>)
<1>1. CASE Stop(a) /\ UNCHANGED vwVars
  BY <1>1, StopIs DEF Stopped, vwVars
<1>2. ASSUME NEW n \in Starts, Begins(a, n) \/ PickerAnswers(a, n) \/ PickerFails(a, n), UNCHANGED vwVars
      PROVE  UNCHANGED <<rmVars, sess, online, used, gone, down, up, visits>>
  BY <1>2, BeginsIs DEF PickerAnswers, PickerFails, linkVars, vwVars
<1>3. ASSUME NEW n \in Starts, CaptureEnds(a, n), UNCHANGED vwVars
      PROVE  /\ UNCHANGED <<rmVars, sess, online, used, gone, down, visits>>
             /\ up' = up \/ up' = Sent(a, <<Plain("leave-room")>>)
  BY <1>3, CaptureEndsIs DEF Stopped, vwVars
<1>4. ASSUME NEW v \in Sessions, ConnectionFails(a, v), UNCHANGED vwVars
      PROVE  UNCHANGED <<rmVars, sess, online, used, gone, down, up, visits>>
  BY <1>4, ConnectionFailsIs DEF linkVars, vwVars
<1>5. ASSUME NEW n \in Starts, CaptureStarts(a, n), UNCHANGED vwVars
      PROVE  /\ UNCHANGED <<rmVars, sess, online, used, gone, down, visits>>
             /\ up' = Sent(a, <<Plain("create-room")>>)
  BY <1>5 DEF CaptureStarts, vwVars
<1>6. ASSUME NEW v \in Sessions, OfferReady(a, v), UNCHANGED vwVars
      PROVE  /\ UNCHANGED <<rmVars, sess, online, used, gone, down, visits>>
             /\ up' = Sent(a, <<To(v, Offer(sess[a], entry[a][v].conn))>>)
  BY <1>6 DEF OfferReady, vwVars
<1> QED
  BY <1>1, <1>2, <1>3, <1>4, <1>5, <1>6 DEF SharersStep

LEMMA ViewersSend ==
  ASSUME NEW b \in CanWatch, ViewersStep(b)
  PROVE  /\ UNCHANGED <<rmVars, sess, online, used, gone, down, shVars>>
         /\ \/ up' = up
            \/ \E r \in RoomIds : Join(b, r) /\ up' = Sent(b, <<JoinMsg(r)>>)
            \/ up' = Sent(b, <<Plain("leave-room")>>)
            \/ up' = Sent(b, <<Plain("leave-room"), Plain("leave-room")>>)
            \/ LET o == Head(offers[b]) IN
               AnswerReady(b) /\ up' = Sent(b, <<To(o.from, Answer(sess[b], o.conn, vw[b].conn))>>)
<1>1. ASSUME NEW r \in RoomIds, Join(b, r)
      PROVE  UNCHANGED <<rmVars, sess, online, used, gone, down>> /\ up' = Sent(b, <<JoinMsg(r)>>)
  BY <1>1 DEF Join
<1>2. ASSUME Leave(b)
      PROVE  /\ UNCHANGED <<rmVars, sess, online, used, gone, down>>
             /\ \/ up' = Sent(b, <<Plain("leave-room")>>)
                \/ up' = Sent(b, <<Plain("leave-room"), Plain("leave-room")>>)
  BY <1>2 DEF Leave, LeaveFrames
<1>3. ASSUME AnswerFails(b) \/ PictureLost(b) \/ PictureArrives(b)
      PROVE  UNCHANGED <<rmVars, sess, online, used, gone, down, up>>
  BY <1>3, AnswerFailsIs DEF PictureLost, PictureArrives, linkVars
<1>4. ASSUME AnswerReady(b)
      PROVE  /\ UNCHANGED <<rmVars, sess, online, used, gone, down>>
             /\ LET o == Head(offers[b]) IN
                up' = Sent(b, <<To(o.from, Answer(sess[b], o.conn, vw[b].conn))>>)
  BY <1>4 DEF AnswerReady
<1> QED
  BY <1>1, <1>2, <1>3, <1>4, JoinsIs, LeavesIs DEF ViewersStep

\* Nothing a client sent another one.
Plainly(msgs) == \A t \in Sessions : msgs[t].type \notin {"offer", "answer"}
LEMMA PlainPushes ==
  /\ \A t \in Sessions, c \in ErrorCodes : Plainly(OnlyTo(t, ErrorMsg(c)))
  /\ \A t \in Sessions, r \in RoomIds : Plainly(OnlyTo(t, RoomCreated(r)))
  /\ \A t \in Sessions, r \in RoomIds, k \in Sessions :
       Plainly([Quiet EXCEPT ![t] = RoomJoined(r, k), ![k] = ViewerJoined(t)])
  /\ \A t \in Sessions : Plainly(DepartureMessages(t))
BY DEF Plainly, OnlyTo, Quiet, ErrorMsg, RoomCreated, RoomJoined, ViewerJoined, Silence, DepartureMessages,
   RoomEnded, ViewerLeft

LEMMA ServePushes ==
  ASSUME TableTypes, FrameTypes, NEW a \in Apps, Serve(a)
  PROVE  /\ UNCHANGED <<sess, online, used, gone, happened, shVars, vwVars>>
         /\ up[a] # <<>> /\ up' = [up EXCEPT ![a] = Tail(@)]
         /\ \E msgs \in [Sessions -> DownFrames \union {Silence}] :
              /\ Pushed(msgs)
              /\ \/ Plainly(msgs)
                 \/ LET m == Head(up[a]) IN
                    /\ m.type = "signal" /\ ResolveTarget(sess[a], m.to) = "ok"
                    /\ msgs = OnlyTo(m.to, m.signal) /\ UNCHANGED rmVars
<1> DEFINE s == sess[a]
<1>s. s \in Sessions
  BY DEF TableTypes
<1>1. /\ UNCHANGED <<sess, online, used, gone, happened, shVars, vwVars>>
      /\ up[a] # <<>> /\ up' = [up EXCEPT ![a] = Tail(@)]
  BY DEF Serve, ServerHandles, ServerCreates, ServerJoins, ServerRemoves, ServerRelays, Takes
<1>3. CASE ServerCreates(a)
  <2>1. PICK r \in RoomIds : CreateRoom(s, r) /\ Pushed(OnlyTo(s, RoomCreated(r)))
    BY <1>3 DEF ServerCreates
  <2>2. OnlyTo(s, RoomCreated(r)) \in [Sessions -> DownFrames \union {Silence}]
    BY <1>s, DownFramesAre, PushesAre
  <2>3. Head(up[a]).type # "signal"
    BY <1>3 DEF ServerCreates, Takes
  <2> QED
    BY PlainPushes, <1>s, <1>1, <2>1, <2>2, <2>3
<1>4. CASE ServerJoins(a)
  <2> DEFINE r == Head(up[a]).room
  <2>1. r \in RoomIds /\ JoinRoom(r, s) /\ Head(up[a]).type # "signal"
    BY <1>4, HeadOfUp, UpFrameHas DEF ServerJoins, Takes
  <2>2. CASE JoinResult(r, s) # "ok"
    <3>1. Pushed(OnlyTo(s, ErrorMsg(JoinResult(r, s))))
      BY <1>4, <2>2 DEF ServerJoins
    <3>2. JoinResult(r, s) \in ErrorCodes
      BY <1>s, <2>1, <2>2, CodesAre
    <3>3. OnlyTo(s, ErrorMsg(JoinResult(r, s))) \in [Sessions -> DownFrames \union {Silence}]
      BY <1>s, <3>2, DownFramesAre, PushesAre
    <3> QED
      BY PlainPushes, <1>s, <1>1, <2>1, <3>1, <3>2, <3>3
  <2>3. CASE JoinResult(r, s) = "ok"
    <3> DEFINE msgs == [Quiet EXCEPT ![s] = RoomJoined(r, sharerId[r]), ![sharerId[r]] = ViewerJoined(s)]
    <3>1. Pushed(msgs)
      BY <1>4, <2>3 DEF ServerJoins
    <3>2. sharerId[r] \in Sessions
      BY <2>1, <2>3 DEF JoinResult, RoomExists, TableTypes, RMTypeOK
    <3>3. msgs \in [Sessions -> DownFrames \union {Silence}]
      BY <1>s, <2>1, <3>2, DownFramesAre, PushesAre
    <3>4. Plainly(msgs)
      BY PlainPushes, <1>s, <2>1, <3>2
    <3> HIDE DEF msgs
    <3> QED
      BY <1>1, <2>1, <3>1, <3>3, <3>4
  <2> QED
    BY <2>2, <2>3
<1>5. CASE ServerRemoves(a)
  <2>1. "NOT_IN_ROOM" \in ErrorCodes /\ Head(up[a]).type # "signal"
    BY <1>5 DEF ErrorCodes, ServerRemoves, Takes
  <2>2. /\ OnlyTo(s, ErrorMsg("NOT_IN_ROOM")) \in [Sessions -> DownFrames \union {Silence}]
        /\ DepartureMessages(s) \in [Sessions -> DownFrames \union {Silence}]
    BY <1>s, <2>1, DownFramesAre, PushesAre, DeparturesAre
  <2>3. Pushed(OnlyTo(s, ErrorMsg("NOT_IN_ROOM"))) \/ Pushed(DepartureMessages(s))
    BY <1>5 DEF ServerRemoves
  <2> QED
    BY PlainPushes, <1>s, <1>1, <2>1, <2>2, <2>3
<1>6. CASE ServerRelays(a)
  <2> DEFINE m == Head(up[a])
  <2>1. m.to \in Sessions /\ m.signal \in Signals /\ m.type = "signal"
    BY <1>6, HeadOfUp, UpFrameHas DEF ServerRelays, Takes
  <2>2. CASE ResolveTarget(s, m.to) = "ok"
    <3>1. Pushed(OnlyTo(m.to, m.signal))
      BY <1>6, <2>2 DEF ServerRelays
    <3>2. OnlyTo(m.to, m.signal) \in [Sessions -> DownFrames \union {Silence}]
      BY <2>1, DownFramesAre, PushesAre
    <3>3. UNCHANGED rmVars
      BY <1>6 DEF ServerRelays
    <3> QED
      BY <1>1, <2>1, <2>2, <3>1, <3>2, <3>3
  <2>3. CASE ResolveTarget(s, m.to) # "ok"
    <3>1. Pushed(OnlyTo(s, ErrorMsg(ResolveTarget(s, m.to))))
      BY <1>6, <2>3 DEF ServerRelays
    <3>2. ResolveTarget(s, m.to) \in ErrorCodes
      BY <2>3 DEF ResolveTarget, ErrorCodes
    <3>3. OnlyTo(s, ErrorMsg(ResolveTarget(s, m.to))) \in [Sessions -> DownFrames \union {Silence}]
      BY <1>s, <3>2, DownFramesAre, PushesAre
    <3> QED
      BY PlainPushes, <1>s, <1>1, <3>1, <3>2, <3>3
  <2> QED
    BY <2>2, <2>3
<1> QED
  BY <1>3, <1>4, <1>5, <1>6 DEF Serve, ServerHandles
LEMMA SocketsDo ==
  ASSUME TableTypes, FrameTypes, SocketStep
  PROVE  \/ \E x \in Apps : /\ up' = [up EXCEPT ![x] = <<>>] /\ down' = [down EXCEPT ![x] = <<>>]
                            /\ online[x] /\ online' = [online EXCEPT ![x] = FALSE]
                            /\ gone' = gone \union {sess[x]}
                            /\ UNCHANGED <<rmVars, sess, used>> /\ Drop(x)
         \/ \E x \in Apps, s \in Sessions :
              /\ ~online[x] /\ s \notin used /\ used' = used \union {s}
              /\ online' = [online EXCEPT ![x] = TRUE] /\ sess' = [sess EXCEPT ![x] = s]
              /\ UNCHANGED <<rmVars, gone, up, down, happened>>
         \/ \E s \in Sessions :
              /\ s \in gone /\ gone' = gone \ {s} /\ RemoveSession(s) /\ Pushed(DepartureMessages(s))
              /\ DepartureMessages(s) \in [Sessions -> DownFrames \union {Silence}]
              /\ Plainly(DepartureMessages(s))
              /\ UNCHANGED <<sess, online, used, up, happened>>
<1>1. ASSUME NEW x \in Apps, Drop(x)
      PROVE  /\ up' = [up EXCEPT ![x] = <<>>] /\ down' = [down EXCEPT ![x] = <<>>]
             /\ online[x] /\ online' = [online EXCEPT ![x] = FALSE]
             /\ gone' = gone \union {sess[x]}
             /\ UNCHANGED <<rmVars, sess, used>>
  BY <1>1, DropIs
<1>2. ASSUME NEW s \in Sessions, ServerForgets(s)
      PROVE  /\ s \in gone /\ gone' = gone \ {s} /\ RemoveSession(s) /\ Pushed(DepartureMessages(s))
             /\ UNCHANGED <<sess, online, used, up, happened>>
  BY <1>2 DEF ServerForgets
<1> QED
  BY <1>1, <1>2, DeparturesAre, PlainPushes DEF SocketStep, Reconnect

LEMMA SessionsInvStep ==
  ASSUME Typed, SessionsInv, Next
  PROVE  SessionsInv'
<1>0. TableTypes /\ FrameTypes /\ CanShare \subseteq Apps /\ CanWatch \subseteq Apps
  BY TypedIs, SharersAssumption, WatchersAssumption
<1>t. /\ sess \in [Apps -> Sessions] /\ online \in [Apps -> BOOLEAN]
      /\ up \in [Apps -> Seq(UpFrames)] /\ down \in [Apps -> Seq(DownFrames)]
  BY <1>0 DEF TableTypes, FrameTypes
<1>1. ASSUME UNCHANGED <<sess, used, online>>,
             \A a \in Apps : ~online[a] => up'[a] = up[a] /\ down'[a] = down[a]
      PROVE  SessionsInv'
  BY <1>1 DEF SessionsInv
<1>2. ASSUME NEW x \in Apps, Receive(x) PROVE SessionsInv'
  <2>1. /\ down[x] # <<>> /\ down' = [down EXCEPT ![x] = Tail(@)]
        /\ UNCHANGED <<sess, used, online, up>>
    BY <1>2 DEF Receive
  <2>2. online[x]
    BY <2>1 DEF SessionsInv
  <2> QED
    BY <1>t, <1>1, <2>1, <2>2
<1>3. ASSUME NEW x \in Apps, Serve(x) PROVE SessionsInv'
  <2>1. /\ up[x] # <<>> /\ up' = [up EXCEPT ![x] = Tail(@)]
        /\ UNCHANGED <<sess, used, online>>
    BY <1>0, <1>3, ServePushes
  <2>2. PICK msgs \in [Sessions -> DownFrames \union {Silence}] : Pushed(msgs)
    BY <1>0, <1>3, ServePushes
  <2>3. \A a \in Apps : ~online[a] => down'[a] = down[a]
    BY <1>0, <2>2, PushedIs
  <2>4. online[x]
    BY <2>1 DEF SessionsInv
  <2> QED
    BY <1>t, <1>1, <2>1, <2>3, <2>4
<1>4. ASSUME NEW x \in Apps, NEW frames, up' = Sent(x, frames), UNCHANGED <<sess, online, used, down>>
      PROVE  SessionsInv'
  <2>1. \A a \in Apps : ~online[a] => up'[a] = up[a]
    BY <1>t, <1>4 DEF Sent
  <2> QED
    BY <1>1, <1>4, <2>1
<1>5. ASSUME UNCHANGED <<sess, online, used, up, down>> PROVE SessionsInv'
  BY <1>1, <1>5
<1>6. ASSUME NEW x \in CanShare, SharingStep(x) PROVE SessionsInv'
  <2>1. /\ UNCHANGED <<sess, online, used, down>>
        /\ up' = up \/ \E frames : up' = Sent(x, frames)
    BY <1>6, SharersStepIs, SharersSend
  <2> QED
    BY <1>0, <1>4, <1>5, <2>1
<1>7. ASSUME NEW x \in CanWatch, ViewingStep(x) PROVE SessionsInv'
  <2>1. /\ UNCHANGED <<sess, online, used, down>>
        /\ up' = up \/ \E frames : up' = Sent(x, frames)
    BY <1>7, ViewersStepIs, ViewersSend
  <2> QED
    BY <1>0, <1>4, <1>5, <2>1
<1>8. ASSUME SocketStep PROVE SessionsInv'
  <2>1. ASSUME NEW x \in Apps, up' = [up EXCEPT ![x] = <<>>], down' = [down EXCEPT ![x] = <<>>],
               online' = [online EXCEPT ![x] = FALSE], UNCHANGED <<sess, used>>
        PROVE  SessionsInv'
    BY <1>t, <2>1 DEF SessionsInv
  <2>2. ASSUME NEW x \in Apps, NEW s \in Sessions,
               s \notin used, used' = used \union {s}, online' = [online EXCEPT ![x] = TRUE],
               sess' = [sess EXCEPT ![x] = s], UNCHANGED <<up, down>>
        PROVE  SessionsInv'
    BY <1>t, <2>2 DEF SessionsInv
  <2>3. ASSUME NEW s \in Sessions, Pushed(DepartureMessages(s)),
               DepartureMessages(s) \in [Sessions -> DownFrames \union {Silence}],
               UNCHANGED <<sess, online, used, up>>
        PROVE  SessionsInv'
    <3>1. \A a \in Apps : ~online[a] => down'[a] = down[a]
      BY <1>0, <2>3, PushedIs
    <3> QED
      BY <1>1, <2>3, <3>1
  <2> QED
    BY <1>0, <1>8, <2>1, <2>2, <2>3, SocketsDo
<1> QED
  BY <1>2, <1>3, <1>6, <1>7, <1>8 DEF Next

LEMMA SessionsInit == Init => SessionsInv
BY InitSessions DEF Init, LinkInit, SessionsInv
LEMMA SessionsKept == SessionsInv /\ UNCHANGED shareVars => SessionsInv'
BY DEF SessionsInv, shareVars, linkVars
-----------------------------------------------------------------------------
(***************************************************************************)
(* A viewer that no refused offer and no lost connection befell listens    *)
(* exactly while it is in a session, and an offer on its way to it is in   *)
(* one place: being made, sent, pushed, being answered or applied.  That   *)
(* no connection numbers two offers is what makes it so, and so no offer   *)
(* comes twice and is refused for that.                                    *)
(***************************************************************************)
Quits == {"offer refused", "drop"}
Kept(b) == Spared({b}, Quits)
Away == {"idle", "disconnected", "error"}

Tidy(b) ==
  /\ online[b]
  /\ vw[b].listening = IF vw[b].state \in Away THEN 0 ELSE 1
  /\ vw[b].subscribed <=> vw[b].listening = 1
  /\ vw[b].listening = 0 => vw[b].conn = 0 /\ offers[b] = <<>> /\ vw[b].remote = NoOffer

OfferOf(o) == Offer(o.from, o.conn)
Applied(b, o) == vw[b].remote = o
Pending(b, o) == Has(offers[b], o)
Coming(b, o) == Has(down[b], OfferOf(o))
Sending(a, b, o) == Has(up[a], To(sess[b], OfferOf(o)))
Making(a, b, o) ==
  /\ entry[a][sess[b]].phase = "offering"
  /\ o.from = sess[a] /\ o.conn = entry[a][sess[b]].conn

OnePlace(b, o) ==
  /\ Single(offers[b], o) /\ Single(down[b], OfferOf(o))
  /\ Applied(b, o) => ~Pending(b, o) /\ ~Coming(b, o)
  /\ Pending(b, o) => ~Coming(b, o)
  /\ \A a \in Apps :
       /\ Single(up[a], To(sess[b], OfferOf(o)))
       /\ Sending(a, b, o) => /\ ~Applied(b, o) /\ ~Pending(b, o) /\ ~Coming(b, o)
                              /\ o.from = sess[a]
  /\ \A a \in CanShare :
       Making(a, b, o) =>
         ~Applied(b, o) /\ ~Pending(b, o) /\ ~Coming(b, o) /\ ~Sending(a, b, o)

\* A session that there was, and a connection it has made.
Known(o) == o.from \in used /\ \A a \in CanShare : o.from = sess[a] => o.conn <= sh[a].made
Numbered(b, o) ==
  /\ Applied(b, o) \/ Pending(b, o) \/ Coming(b, o) => Known(o)
  /\ \A a \in Apps : Sending(a, b, o) => Known(o)
  /\ \A a \in CanShare : Making(a, b, o) => Known(o)

Placed(b) == \A o \in TakenOffers : OnePlace(b, o) /\ Numbered(b, o)
ViewerInv == \A b \in CanWatch : Kept(b) => Tidy(b) /\ Placed(b)

\* An offer only moves on: to a place from the one before it, which it leaves.
MovesOn(b, o) ==
  /\ Applied(b, o)' => Applied(b, o) \/ (Pending(b, o) /\ ~Pending(b, o)')
  /\ Pending(b, o)' => Pending(b, o) \/ (Coming(b, o) /\ ~Coming(b, o)')
  /\ Coming(b, o)' => \/ Coming(b, o)
                      \/ \E a \in Apps : Sending(a, b, o) /\ ~Sending(a, b, o)'
  /\ \A a \in Apps : Sending(a, b, o)' =>
       /\ o.from = sess'[a]
       /\ \/ Sending(a, b, o)
          \/ a \in CanShare /\ Making(a, b, o) /\ ~Making(a, b, o)'
  /\ \A a \in CanShare : Making(a, b, o)' =>
       /\ o.from = sess'[a]
       /\ Making(a, b, o) \/ (~Known(o) /\ Known(o)')
StaysSingle(b, o) ==
  /\ Single(offers[b], o)' /\ Single(down[b], OfferOf(o))'
  /\ \A a \in Apps : Single(up[a], To(sess[b], OfferOf(o)))'

LEMMA MovedOn ==
  ASSUME NEW b \in CanWatch, NEW o \in TakenOffers, SessionsInv, SessionsInv',
         OnePlace(b, o), Numbered(b, o), MovesOn(b, o), StaysSingle(b, o), Known(o) => Known(o)'
  PROVE  OnePlace(b, o)' /\ Numbered(b, o)'
<1> DEFINE A == Applied(b, o) B == Pending(b, o) C == Coming(b, o)
           S(a) == Sending(a, b, o) M(a) == Making(a, b, o) K == Known(o)
<1>0. CanShare \subseteq Apps
  BY SharersAssumption
<1>1. \A a, c \in Apps : S(a) /\ S(c) => a = c
  BY DEF OnePlace, SessionsInv
<1>2. \A a \in CanShare, c \in Apps : ~(M(a) /\ S(c))
  BY <1>0 DEF OnePlace, SessionsInv, Making
<1>3. \A a, c \in CanShare : M(a) /\ M(c) => a = c
  BY <1>0 DEF SessionsInv, Making
<1>4. \A a, c \in Apps : o.from = sess'[a] /\ o.from = sess'[c] => a = c
  BY DEF SessionsInv
<1>5. /\ A => ~B /\ ~C /\ K
      /\ B => ~C /\ K
      /\ C => K
      /\ \A a \in Apps : S(a) => ~A /\ ~B /\ ~C /\ K
      /\ \A a \in CanShare : M(a) => ~A /\ ~B /\ ~C /\ ~S(a) /\ K
  BY DEF OnePlace, Numbered
<1>6. /\ A' => A \/ (B /\ ~B')
      /\ B' => B \/ (C /\ ~C')
      /\ C' => C \/ \E a \in Apps : S(a) /\ ~S(a)'
      /\ \A a \in Apps : S(a)' => o.from = sess'[a] /\ (S(a) \/ (a \in CanShare /\ M(a) /\ ~M(a)'))
      /\ \A a \in CanShare : M(a)' => o.from = sess'[a] /\ (M(a) \/ (~K /\ K'))
  BY DEF MovesOn
<1>7. K => K'
  OBVIOUS
<1> HIDE DEF A, B, C, S, M, K
<1>8. /\ A' => ~B' /\ ~C' /\ K'
      /\ B' => ~C' /\ K'
      /\ C' => K'
      /\ \A a \in Apps : S(a)' => ~A' /\ ~B' /\ ~C' /\ K'
  BY <1>0, <1>1, <1>2, <1>3, <1>5, <1>6, <1>7
<1>9. \A a \in CanShare : M(a)' => ~A' /\ ~B' /\ ~C' /\ ~S(a)' /\ K'
  BY <1>0, <1>1, <1>2, <1>3, <1>4, <1>5, <1>6, <1>7
<1>10. \A a \in Apps : S(a)' => o.from = sess'[a]
  BY <1>6
<1> USE DEF A, B, C, S, M, K
<1> QED
  BY <1>8, <1>9, <1>10 DEF OnePlace, Numbered, StaysSingle
\* Sending something else, or nothing.
LEMMA OthersSent ==
  ASSUME FrameTypes, NEW x \in Apps, NEW f \in UpFrames, NEW g, f # g,
         up' = up \/ up' = Sent(x, <<f>>) \/ up' = Sent(x, <<f, f>>),
         NEW a \in Apps
  PROVE  /\ Has(up'[a], g) => Has(up[a], g)
         /\ Single(up[a], g) => Single(up'[a], g)
<1>1. up[a] \in Seq(UpFrames) /\ up \in [Apps -> Seq(UpFrames)]
  BY DEF FrameTypes
<1>2. up'[a] = up[a] \/ up'[a] = up[a] \o <<f>> \/ up'[a] = up[a] \o <<f, f>>
  BY <1>1 DEF Sent
<1>3. CASE up'[a] = up[a] \o <<f>>
  BY <1>1, <1>3, QueueGrows
<1>4. CASE up'[a] = up[a] \o <<f, f>>
  BY <1>1, <1>4, QueueGrowsTwice
<1> QED
  BY <1>2, <1>3, <1>4

LEMMA OffersMoveOn ==
  ASSUME NEW b, NEW o, UNCHANGED <<vw, offers>>
  PROVE  /\ Applied(b, o)' <=> Applied(b, o)
         /\ Pending(b, o)' <=> Pending(b, o)
         /\ Single(offers[b], o)' <=> Single(offers[b], o)
BY DEF Applied, Pending, Has, Single

LEMMA OffersStay ==
  ASSUME NEW b, NEW o, vw'[b] = vw[b], offers'[b] = offers[b]
  PROVE  /\ Applied(b, o)' <=> Applied(b, o)
         /\ Pending(b, o)' <=> Pending(b, o)
         /\ Single(offers[b], o)' <=> Single(offers[b], o)
BY DEF Applied, Pending, Has, Single

LEMMA FramesStay ==
  ASSUME NEW b, NEW o, sess'[b] = sess[b]
  PROVE  /\ Coming(b, o)' <=> Has(down'[b], OfferOf(o))
         /\ Single(down[b], OfferOf(o))' <=> Single(down'[b], OfferOf(o))
         /\ \A a : Sending(a, b, o)' <=> Has(up'[a], To(sess[b], OfferOf(o)))
         /\ \A a : Single(up[a], To(sess[b], OfferOf(o)))' <=> Single(up'[a], To(sess[b], OfferOf(o)))
BY DEF Coming, Sending, Has, Single

LEMMA MakingStays ==
  ASSUME NEW b \in CanWatch, NEW o \in TakenOffers, UNCHANGED <<sess, used>>,
         \A a \in CanShare, v \in Sessions :
           /\ entry'[a][v].phase = "offering" => entry'[a][v] = entry[a][v]
           /\ sh'[a].made = sh[a].made,
         TableTypes, SessionsInv
  PROVE  /\ Known(o)' <=> Known(o)
         /\ \A a \in CanShare : Making(a, b, o)' => o.from = sess'[a] /\ Making(a, b, o)
<1>1. sess[b] \in Sessions
  BY WatchersAssumption DEF TableTypes
<1> QED
  BY <1>1 DEF Known, Making

\* Connections are begun only by viewer-joined.
LEMMA SharersMake ==
  ASSUME SharersTyped, NEW x \in CanShare, SharersStep(x), NEW a \in CanShare, NEW v \in Sessions
  PROVE  /\ entry'[a][v].phase = "offering" => entry'[a][v] = entry[a][v]
         /\ sh'[a].made = sh[a].made
<1>0. entry \in [CanShare -> [Sessions -> Entries]] /\ sh \in [CanShare -> Managers]
  BY DEF SharersTyped, SharingTypeOK
<1>1. CASE a # x
  BY <1>1, SharersStepOf
<1> SUFFICES ASSUME a = x PROVE /\ entry'[x][v].phase = "offering" => entry'[x][v] = entry[x][v]
                                /\ sh'[x].made = sh[x].made
  BY <1>1
<1>2. ASSUME NEW m \in Managers, NEW state \in {"idle", "starting", "sharing", "error"},
             m.subscribed => m.listening >= 1, m.made = sh[x].made, CleanUp(x, m, state)
      PROVE  entry'[x][v].phase # "offering" /\ sh'[x].made = sh[x].made
  <2>1. sh'[x] = CleanedTo(m, state) /\ entry'[x] = NoEntries
    BY <1>0, <1>2 DEF CleanUp, CleanedTo
  <2>2. CleanedTo(m, state).made = m.made
    BY <1>2, CleanedIs
  <2> QED
    BY <1>2, <2>1, <2>2 DEF NoEntries, NoEntry
<1>m. /\ sh[x] \in Managers /\ (sh[x].subscribed => sh[x].listening >= 1)
      /\ [sh[x] EXCEPT !.room = None] \in Managers
      /\ LET m == [sh[x] EXCEPT !.room = None] IN
         (m.subscribed => m.listening >= 1) /\ m.made = sh[x].made
  BY <1>0 DEF SharersTyped, SharersCount, Managers
<1>3. Stopped(x) => entry'[x][v].phase # "offering" /\ sh'[x].made = sh[x].made
  BY <1>m, <1>2 DEF Stopped
<1>4. CASE Stop(x)
  BY <1>3, <1>4, StopIs
<1>5. ASSUME NEW n \in Starts, Begins(x, n) \/ PickerAnswers(x, n)
      PROVE  entry'[x][v] = entry[x][v] /\ sh'[x].made = sh[x].made
  BY <1>0, <1>5, BeginsIs DEF PickerAnswers, Managers
<1>6. ASSUME NEW n \in Starts, PickerFails(x, n)
      PROVE  entry'[x][v].phase # "offering" /\ sh'[x].made = sh[x].made
  BY <1>m, <1>2, <1>6 DEF PickerFails
<1>7. ASSUME NEW n \in Starts, CaptureStarts(x, n)
      PROVE  /\ entry'[x][v].phase = "offering" => entry'[x][v] = entry[x][v]
             /\ sh'[x].made = sh[x].made
  <2> DEFINE l == sh[x].listening + 1
             m == [sh[x] EXCEPT !.stream = n, !.listening = l, !.subscribed = TRUE]
  <2>1. \/ sh'[x] = m /\ UNCHANGED entry
        \/ sh'[x] = CleanedTo(m, "error") /\ entry'[x] = NoEntries
    BY <1>0, <1>7 DEF CaptureStarts, CleanUp, CleanedTo
  <2> HIDE DEF l
  <2>2. m.made = sh[x].made
    BY <1>m DEF Managers
  <2>3. CleanedTo(m, "error").made = sh[x].made
    BY <1>m DEF CleanedTo, Cleaned, Managers
  <2> HIDE DEF m
  <2> QED
    BY <2>1, <2>2, <2>3 DEF NoEntries, NoEntry
<1>8. ASSUME NEW n \in Starts, CaptureEnds(x, n)
      PROVE  /\ entry'[x][v].phase = "offering" => entry'[x][v] = entry[x][v]
             /\ sh'[x].made = sh[x].made
  BY <1>3, <1>8, CaptureEndsIs
<1>9. ASSUME NEW w \in Sessions, ConnectionFails(x, w) \/ OfferReady(x, w)
      PROVE  /\ entry'[x][v].phase = "offering" => entry'[x][v] = entry[x][v]
             /\ sh'[x].made = sh[x].made
  <2>1. UNCHANGED sh
    BY <1>9, ConnectionFailsIs DEF OfferReady
  <2>2. \/ entry' = [entry EXCEPT ![x] = [entry[x] EXCEPT ![w] = NoEntry]]
        \/ \E ph \in {"offered", "answered"} :
             entry' = [entry EXCEPT ![x] = [entry[x] EXCEPT ![w] = [entry[x][w] EXCEPT !.phase = ph]]]
    BY <1>0, <1>9, ConnectionFailsIs DEF OfferReady, RemoveViewer
  <2>3. CASE w # v
    BY <1>0, <2>1, <2>2, <2>3
  <2>4. CASE w = v
    <3>1. \/ entry'[x][v] = NoEntry
          \/ \E ph \in {"offered", "answered"} : entry'[x][v] = [entry[x][v] EXCEPT !.phase = ph]
      BY <1>0, <2>2, <2>4
    <3>2. entry[x][v] \in Entries
      BY <1>0
    <3> QED
      BY <2>1, <3>1, <3>2 DEF NoEntry, Entries
  <2> QED
    BY <2>3, <2>4
<1> QED
  BY <1>4, <1>5, <1>6, <1>7, <1>8, <1>9 DEF SharersStep
LEMMA AnsweredIs ==
  ASSUME NEW e \in Entries, NEW f, f.conn \in Nat, f.by \in Nat, NEW l
  PROVE  \A k \in AfterAnswer(e, f, l) :
           \/ k = NoEntry
           \/ /\ k.conn = e.conn /\ k.of = f.conn /\ k.by = f.by /\ e # NoEntry
              /\ \/ e.phase = "offering" /\ k.phase = "offering"
                 \/ e.phase = "offered" /\ k.phase = "answered"
<1> DEFINE accepted == [e EXCEPT !.of = f.conn, !.by = f.by]
           answered == [accepted EXCEPT !.phase = "answered"]
<1>1. ASSUME NEW k \in AfterAnswer(e, f, l), k # NoEntry
      PROVE  \/ e.phase = "offering" /\ k = accepted
             \/ e.phase = "offered" /\ k = answered
  <2>1. e.phase \in {"none", "offering", "offered", "answered"}
    BY DEF Entries
  <2> QED
    BY <1>1, <2>1 DEF AfterAnswer
<1>2. /\ accepted.phase = e.phase /\ accepted.conn = e.conn /\ accepted.of = f.conn
      /\ accepted.by = f.by
      /\ answered.phase = "answered" /\ answered.conn = e.conn /\ answered.of = f.conn
      /\ answered.by = f.by
  BY DEF Entries
<1>3. NoEntry.phase = "none"
  BY DEF NoEntry
<1> HIDE DEF accepted, answered
<1> QED
  BY <1>1, <1>2, <1>3

LEMMA HearsMake ==
  ASSUME SharersTyped, NEW x \in CanShare, NEW f \in DownFrames, SharingHears(x, f),
         NEW a \in CanShare, NEW v \in Sessions
  PROVE  /\ sh[a].made \in Nat /\ sh'[a].made \in Nat /\ sh'[a].made >= sh[a].made
         /\ entry'[a][v].phase = "offering" =>
              \/ entry[a][v].phase = "offering" /\ entry'[a][v].conn = entry[a][v].conn
              \/ entry'[a][v].conn = sh[a].made + 1 /\ sh'[a].made = sh[a].made + 1
<1>0. /\ entry \in [CanShare -> [Sessions -> Entries]] /\ sh \in [CanShare -> Managers]
      /\ sh[a] \in Managers /\ sh[a].made \in Nat /\ sh[x] \in Managers /\ sh[x].made \in Nat
  BY DEF SharersTyped, SharingTypeOK, Managers
<1>1. CASE a # x
  BY <1>0, <1>1, SharingHearsOf DEF SharersTyped
<1>2. CASE a = x
  <2>1. CASE UNCHANGED <<sh, entry>>
    BY <1>0, <1>2, <2>1
  <2>2. CASE f.type = "viewer-joined" /\ AddViewer(x, f.viewer)
    <3>1. f.viewer \in Sessions
      BY <2>2, DownFrameHas
    <3> DEFINE n == sh[x].made + 1
    <3>2. sh'[x] = [sh[x] EXCEPT !.made = n] /\ entry' = [entry EXCEPT ![x][f.viewer] = Offering(n)]
      BY <1>0, <2>2 DEF AddViewer
    <3>3. n \in Nat /\ n >= sh[x].made
      BY <1>0
    <3> HIDE DEF n
    <3>4. sh'[x].made = n
      BY <1>0, <3>2 DEF Managers
    <3>5. entry'[x][v] = entry[x][v] \/ entry'[x][v].conn = n
      BY <1>0, <3>1, <3>2 DEF Offering
    <3> QED
      BY <1>0, <1>2, <3>3, <3>4, <3>5 DEF n
  <2>3. CASE f.type = "viewer-left" /\ RemoveViewer(x, f.viewer) /\ UNCHANGED sh
    <3>1. f.viewer \in Sessions
      BY <2>3, DownFrameHas
    <3> QED
      BY <1>0, <1>2, <2>3, <3>1 DEF RemoveViewer, NoEntry
  <2>4. CASE /\ f.type = "answer" /\ UNCHANGED sh
             /\ \E e \in AfterAnswer(entry[x][f.from], f, sh[x].listening) :
                  entry' = [entry EXCEPT ![x][f.from] = e]
    <3>1. PICK e \in AfterAnswer(entry[x][f.from], f, sh[x].listening) :
                  entry' = [entry EXCEPT ![x][f.from] = e]
      BY <2>4
    <3>2. /\ entry[x][f.from] \in Entries /\ f.from \in Sessions /\ f.conn \in Nat /\ f.by \in Nat
      BY <1>0, <2>4, DownFrameHas
    <3>3. e.phase = "offering" =>
            entry[x][f.from].phase = "offering" /\ e.conn = entry[x][f.from].conn
      BY <3>1, <3>2, AnsweredIs DEF NoEntry
    <3> QED
      BY <1>0, <1>2, <2>4, <3>1, <3>2, <3>3
  <2>5. CASE UNCHANGED entry /\ sh' = [sh EXCEPT ![x].state = "error"]
    BY <1>0, <1>2, <2>5 DEF Managers
  <2>6. CASE /\ sh' = [sh EXCEPT ![x] = [@ EXCEPT !.room = f.room, !.managing = TRUE, !.state = "sharing"]]
             /\ entry' = [entry EXCEPT ![x] = NoEntries]
    <3>1. sh'[x] = [sh[x] EXCEPT !.room = f.room, !.managing = TRUE, !.state = "sharing"]
          /\ entry'[x] = NoEntries
      BY <1>0, <2>6
    <3> QED
      BY <1>0, <1>2, <3>1 DEF NoEntries, NoEntry, Managers
  <2> QED
    BY <2>1, <2>2, <2>3, <2>4, <2>5, <2>6 DEF SharingHears
<1> QED
  BY <1>1, <1>2
LEMMA TidyIs ==
  ASSUME ViewersTyped, NEW b \in CanWatch, Tidy(b)
  PROVE  /\ vw[b].listening \in {0, 1} /\ vw[b] \in Watchers /\ offers[b] \in Seq(TakenOffers)
         /\ vw[b].listening - (IF vw[b].subscribed THEN 1 ELSE 0) = 0
         /\ vw[b].made + 1 \in Nat /\ vw[b].made + 1 # 0
BY WatcherIs DEF Tidy

LEMMA CleanedUpIsTidy ==
  ASSUME ViewersTyped, NEW b \in CanWatch, Tidy(b), online'[b],
         NEW state \in Away, NEW room \in RoomIds \union {None}, NEW left \in {0, Unsubscribed(b)},
         CleanUpWatch(b, state, room, left)
  PROVE  Tidy(b)' /\ vw'[b].remote = NoOffer /\ offers'[b] = <<>>
<1>1. state \in WatchStates /\ left \in Nat
  BY UnsubscribedNat DEF Away, WatchStates
<1>2. PICK w \in Watchers :
              /\ vw' = [vw EXCEPT ![b] = w]
              /\ w.state = state /\ w.room = room /\ w.conn = 0 /\ w.remote = NoOffer
              /\ w.made = vw[b].made /\ ~w.subscribed
              /\ w.listening = left
  BY <1>1, CleanUpWatchIs
<1>3. vw'[b] = w /\ offers'[b] = <<>>
  BY <1>2 DEF CleanUpWatch, ViewersTyped, WatchTypes
<1>4. w.listening = 0
  BY <1>2, TidyIs DEF Unsubscribed
<1> QED
  BY <1>2, <1>3, <1>4 DEF Tidy

LEMMA ViewingHearsIs ==
  ASSUME ViewersTyped, NEW b \in CanWatch, NEW f \in DownFrames, ViewingHears(b, f), Tidy(b), online'[b]
  PROVE  /\ Tidy(b)'
         /\ \/ vw'[b].remote = vw[b].remote /\ offers'[b] = offers[b]
            \/ vw'[b].remote = NoOffer /\ offers'[b] = <<>>
            \/ /\ f.type = "offer" /\ vw'[b].remote = vw[b].remote
               /\ offers'[b] = offers[b] \o <<[from |-> f.from, conn |-> f.conn]>>
<1>0. vw[b].room \in RoomIds \union {None}
  BY WatcherIs DEF Watchers
<1>1. CASE UNCHANGED <<vw, offers>>
  BY <1>1 DEF Tidy
<1>2. CASE RoomOver(b) \/ Refused(b)
  BY <1>0, <1>2, CleanedUpIsTidy DEF RoomOver, Refused, Away
<1>3. CASE f.type = "offer" /\ vw[b].listening # 0 /\ TakeOffer(b, f)
  <2> DEFINE o == [from |-> f.from, conn |-> f.conn]
             n == vw[b].made + 1
  <2>1. vw[b].listening = 1 /\ n # 0
    BY <1>3, TidyIs
  <2>2. offers'[b] = offers[b] \o [i \in 1 .. 1 |-> o]
    BY <1>3, <2>1 DEF TakeOffer, ViewersTyped, WatchTypes
  <2>3. [i \in 1 .. 1 |-> o] = <<o>>
    OBVIOUS
  <2>4. vw'[b] = vw[b] \/ vw'[b] = [vw[b] EXCEPT !.conn = n, !.made = n]
    BY <1>3 DEF TakeOffer, ViewersTyped, WatchTypes
  <2>w. vw[b] \in Watchers
    BY TidyIs
  <2> HIDE DEF n, o
  <2>5. /\ vw'[b].remote = vw[b].remote /\ vw'[b].listening = vw[b].listening
        /\ vw'[b].state = vw[b].state /\ vw'[b].subscribed = vw[b].subscribed
    BY <2>4, <2>w DEF Watchers
  <2>6. Tidy(b)'
    BY <2>1, <2>5 DEF Tidy
  <2> QED
    BY <1>3, <2>2, <2>3, <2>5, <2>6 DEF o
<1> QED
  BY <1>1, <1>2, <1>3 DEF ViewingHears

LEMMA OffersAre ==
  ASSUME NEW f \in DownFrames, f.type = "offer", NEW o \in TakenOffers
  PROVE  /\ [from |-> f.from, conn |-> f.conn] \in TakenOffers
         /\ f = Offer(f.from, f.conn)
         /\ [from |-> f.from, conn |-> f.conn] = o <=> f = OfferOf(o)
<1>1. f \in [type : {"offer"}, from : Sessions, conn : Nat]
  BY DEF DownFrames, Signals
<1>2. o = [from |-> o.from, conn |-> o.conn]
  BY DEF TakenOffers
<1> QED
  BY <1>1, <1>2 DEF TakenOffers, Offer, OfferOf

LEMMA ReceiveMoves ==
  ASSUME Typed, SessionsInv, NEW x \in Apps, Receive(x), NEW b \in CanWatch, Tidy(b), Placed(b)
  PROVE  /\ Tidy(b)'
         /\ \A o \in TakenOffers : MovesOn(b, o) /\ StaysSingle(b, o) /\ (Known(o) => Known(o)')
<1>0. /\ TableTypes /\ FrameTypes /\ SharersTyped /\ ViewersTyped /\ b \in Apps
      /\ CanShare \subseteq Apps
  BY TypedIs, WatchersAssumption, SharersAssumption
<1>1. /\ down[x] # <<>> /\ Head(down[x]) \in DownFrames
      /\ down' = [down EXCEPT ![x] = Tail(@)]
      /\ UNCHANGED <<sess, used, online, up>>
  BY <1>0, HeadOfDown DEF Receive
<1>t. /\ down \in [Apps -> Seq(DownFrames)] /\ sess[b] \in Sessions /\ online'[b]
  BY <1>0, <1>1 DEF FrameTypes, TableTypes, Tidy
<1> DEFINE f == Head(down[x])
<1>2. ASSUME NEW a \in CanShare, NEW v \in Sessions
      PROVE  /\ sh[a].made \in Nat /\ sh'[a].made \in Nat /\ sh'[a].made >= sh[a].made
             /\ entry'[a][v].phase = "offering" =>
                  \/ entry[a][v].phase = "offering" /\ entry'[a][v].conn = entry[a][v].conn
                  \/ entry'[a][v].conn = sh[a].made + 1 /\ sh'[a].made = sh[a].made + 1
  <2>1. CASE x \in CanShare
    BY <1>0, <1>1, <2>1, HearsMake DEF Receive
  <2>2. CASE x \notin CanShare
    BY <1>0, <2>2 DEF Receive, SharersTyped, SharingTypeOK, Managers
  <2> QED
    BY <2>1, <2>2
<1>3. ASSUME NEW o \in TakenOffers
      PROVE  /\ Known(o) => Known(o)'
             /\ \A a \in CanShare : Making(a, b, o)' =>
                  o.from = sess'[a] /\ (Making(a, b, o) \/ (~Known(o) /\ Known(o)'))
  <2>1. o.conn \in Nat
    BY DEF TakenOffers
  <2>2. Known(o) => Known(o)'
    BY <1>1, <1>2, <1>t, <2>1 DEF Known
  <2>3. ASSUME NEW a \in CanShare, Making(a, b, o)', ~Making(a, b, o)
        PROVE  ~Known(o) /\ Known(o)'
    <3>1. /\ o.from = sess[a] /\ o.conn = sh[a].made + 1 /\ sh'[a].made = sh[a].made + 1
      BY <1>1, <1>2, <1>t, <2>3 DEF Making
    <3>2. ~Known(o)
      BY <1>2, <1>t, <3>1 DEF Known
    <3>3. \A c \in CanShare : o.from = sess[c] => c = a
      BY <1>0, <3>1 DEF SessionsInv
    <3>4. Known(o)'
      BY <1>0, <1>1, <1>2, <1>t, <3>1, <3>3 DEF Known, SessionsInv
    <3> QED
      BY <3>2, <3>4
  <2>4. \A a \in CanShare : Making(a, b, o)' => o.from = sess'[a]
    BY DEF Making
  <2> QED
    BY <2>2, <2>3, <2>4
<1>4. ASSUME NEW o \in TakenOffers, NEW a \in Apps
      PROVE  /\ Sending(a, b, o)' <=> Sending(a, b, o)
             /\ Single(up[a], To(sess[b], OfferOf(o)))' <=> Single(up[a], To(sess[b], OfferOf(o)))
  BY <1>1 DEF Sending, Has, Single
<1>5. ASSUME NEW o \in TakenOffers
      PROVE  /\ Coming(b, o)' => Coming(b, o)
             /\ Single(down[b], OfferOf(o))'
             /\ x = b /\ f = OfferOf(o) => Coming(b, o) /\ ~Coming(b, o)'
  <2>0. Single(down[b], OfferOf(o))
    BY DEF Placed, OnePlace
  <2>1. CASE x = b
    <3>1. /\ Has(Tail(down[b]), OfferOf(o)) => Has(down[b], OfferOf(o))
          /\ Single(Tail(down[b]), OfferOf(o))
          /\ f = OfferOf(o) => Has(down[b], OfferOf(o)) /\ ~Has(Tail(down[b]), OfferOf(o))
      BY <1>0, <1>1, <1>t, <2>0, <2>1, QueueShrinks
    <3>2. down'[b] = Tail(down[b])
      BY <1>0, <1>1, <1>t, <2>1
    <3> QED
      BY <1>1, <3>1, <3>2, FramesStay DEF Coming
  <2>2. CASE x # b
    <3>1. down'[b] = down[b]
      BY <1>0, <1>1, <1>t, <2>2
    <3> QED
      BY <1>1, <2>0, <2>2, <3>1, FramesStay DEF Coming
  <2> QED
    BY <2>1, <2>2
<1>6. /\ Tidy(b)'
      /\ \/ vw'[b].remote = vw[b].remote /\ offers'[b] = offers[b]
         \/ vw'[b].remote = NoOffer /\ offers'[b] = <<>>
         \/ /\ x = b /\ f.type = "offer" /\ vw'[b].remote = vw[b].remote
            /\ offers'[b] = offers[b] \o <<[from |-> f.from, conn |-> f.conn]>>
  <2>1. CASE x = b
    BY <1>0, <1>1, <1>t, <2>1, ViewingHearsIs DEF Receive
  <2>2. CASE x # b
    <3>1. vw'[b] = vw[b] /\ offers'[b] = offers[b]
      <4>1. CASE x \in CanWatch
        BY <1>0, <2>2, <4>1 DEF Receive, ViewingHears, TakeOffer, RoomOver, Refused, CleanUpWatch,
           ViewersTyped, WatchTypes
      <4>2. CASE x \notin CanWatch
        BY <4>2 DEF Receive
      <4> QED
        BY <4>1, <4>2
    <3> QED
      BY <1>1, <3>1 DEF Tidy
  <2> QED
    BY <2>1, <2>2
<1>7. ASSUME NEW o \in TakenOffers
      PROVE  /\ Applied(b, o)' => Applied(b, o)
             /\ Pending(b, o)' => Pending(b, o) \/ (Coming(b, o) /\ ~Coming(b, o)')
             /\ Single(offers[b], o)'
  <2>0. Single(offers[b], o) /\ (Coming(b, o) => ~Pending(b, o))
    BY DEF Placed, OnePlace
  <2>1. CASE vw'[b].remote = vw[b].remote /\ offers'[b] = offers[b]
    BY <2>0, <2>1 DEF Applied, Pending, Has, Single
  <2>2. CASE vw'[b].remote = NoOffer /\ offers'[b] = <<>>
    <3>1. o # NoOffer
      BY NoneAssumption DEF TakenOffers, NoOffer
    <3> QED
      BY <2>2, <3>1 DEF Applied, Pending, Has, Single
  <2>3. CASE /\ x = b /\ f.type = "offer" /\ vw'[b].remote = vw[b].remote
             /\ offers'[b] = offers[b] \o <<[from |-> f.from, conn |-> f.conn]>>
    <3> DEFINE p == [from |-> f.from, conn |-> f.conn]
    <3>1. p \in TakenOffers /\ (p = o <=> f = OfferOf(o))
      BY <1>1, <2>3, OffersAre
    <3> HIDE DEF p
    <3>2. offers'[b] = offers[b] \o <<p>> /\ offers[b] \in Seq(TakenOffers)
      BY <1>0, <2>3, WatcherIs DEF p
    <3>3. p = o => Coming(b, o) /\ ~Coming(b, o)'
      BY <1>5, <2>3, <3>1
    <3>4. /\ Has(offers'[b], o) <=> Has(offers[b], o) \/ p = o
          /\ Single(offers[b], o) /\ ~(Has(offers[b], o) /\ p = o) => Single(offers'[b], o)
      BY <3>1, <3>2, QueueGrows
    <3>5. /\ Pending(b, o)' => Pending(b, o) \/ p = o
          /\ Single(offers'[b], o)
      BY <2>0, <3>3, <3>4 DEF Pending, Has
    <3> QED
      BY <2>3, <3>3, <3>5 DEF Applied, Single
  <2> QED
    BY <1>6, <2>1, <2>2, <2>3
<1> HIDE DEF f
<1>8. ASSUME NEW o \in TakenOffers PROVE MovesOn(b, o) /\ StaysSingle(b, o)
  <2>1. \A a \in Apps : Sending(a, b, o) => o.from = sess[a]
    BY DEF Placed, OnePlace
  <2>2. \A a \in Apps : Single(up[a], To(sess[b], OfferOf(o)))
    BY DEF Placed, OnePlace
  <2>3. MovesOn(b, o)
    BY <1>1, <1>3, <1>4, <1>5, <1>7, <2>1 DEF MovesOn
  <2> QED
    BY <1>4, <1>5, <1>7, <2>2, <2>3 DEF StaysSingle
<1> QED
  BY <1>3, <1>6, <1>8
\* Nothing of the manager and nothing of the entries changes.
LEMMA HalvesStay ==
  ASSUME UNCHANGED <<shVars, vwVars, sess, used>>, NEW b \in CanWatch, NEW o
  PROVE  /\ Known(o)' <=> Known(o)
         /\ \A a \in CanShare : Making(a, b, o)' <=> Making(a, b, o)
         /\ Applied(b, o)' <=> Applied(b, o)
         /\ Pending(b, o)' <=> Pending(b, o)
         /\ Single(offers[b], o)' <=> Single(offers[b], o)
BY DEF shVars, vwVars, Known, Making, Applied, Pending, Has, Single

LEMMA MayGrow ==
  ASSUME NEW S, NEW q \in Seq(S), NEW x, NEW r, r = q \/ (x \in S /\ r = q \o <<x>>), NEW g
  PROVE  /\ Has(r, g) => Has(q, g) \/ x = g
         /\ Single(q, g) /\ ~(Has(q, g) /\ x = g) => Single(r, g)
<1>1. CASE r = q
  BY <1>1
<1>2. CASE x \in S /\ r = q \o <<x>>
  BY <1>2, QueueGrows
<1> QED
  BY <1>1, <1>2

LEMMA PushedOnce ==
  ASSUME FrameTypes, TableTypes, NEW msgs \in [Sessions -> DownFrames \union {Silence}], Pushed(msgs),
         NEW b \in Apps, NEW g
  PROVE  /\ Has(down'[b], g) => Has(down[b], g) \/ msgs[sess[b]] = g
         /\ Single(down[b], g) /\ ~(Has(down[b], g) /\ msgs[sess[b]] = g) => Single(down'[b], g)
<1>1. down[b] \in Seq(DownFrames)
  BY DEF FrameTypes
<1>2. \/ down'[b] = down[b]
      \/ msgs[sess[b]] \in DownFrames /\ down'[b] = down[b] \o <<msgs[sess[b]]>>
  BY PushedIs
<1> QED
  BY <1>1, <1>2, MayGrow

\* A push of the server's own.
LEMMA PlainPushStays ==
  ASSUME FrameTypes, TableTypes, NEW msgs \in [Sessions -> DownFrames \union {Silence}], Pushed(msgs),
         Plainly(msgs), NEW b \in Apps, NEW o
  PROVE  /\ Has(down'[b], OfferOf(o)) => Has(down[b], OfferOf(o))
         /\ Single(down[b], OfferOf(o)) => Single(down'[b], OfferOf(o))
<1>1. down[b] \in Seq(DownFrames) /\ sess[b] \in Sessions
  BY DEF FrameTypes, TableTypes
<1>2. msgs[sess[b]] # OfferOf(o)
  BY <1>1 DEF Plainly, OfferOf, Offer
<1>3. \/ down'[b] = down[b]
      \/ msgs[sess[b]] \in DownFrames /\ down'[b] = down[b] \o <<msgs[sess[b]]>>
  BY PushedIs
<1> QED
  BY <1>1, <1>2, <1>3, MayGrow

LEMMA ServeMoves ==
  ASSUME Typed, NEW x \in Apps, Serve(x), NEW b \in CanWatch, Tidy(b), Placed(b),
         NEW o \in TakenOffers
  PROVE  MovesOn(b, o) /\ StaysSingle(b, o) /\ (Known(o) => Known(o)')
<1>0. /\ TableTypes /\ FrameTypes /\ b \in Apps
  BY TypedIs, WatchersAssumption
<1>1. /\ UNCHANGED <<sess, used, shVars, vwVars>>
      /\ up[x] # <<>> /\ up' = [up EXCEPT ![x] = Tail(@)]
  BY <1>0, ServePushes
<1>t. /\ up \in [Apps -> Seq(UpFrames)] /\ sess[b] \in Sessions /\ down[b] \in Seq(DownFrames)
  BY <1>0 DEF FrameTypes, TableTypes
<1> DEFINE g == To(sess[b], OfferOf(o))
<1>2. \A a \in Apps : Single(up[a], g)
  BY DEF Placed, OnePlace
<1>3. ASSUME NEW a \in Apps
      PROVE  /\ Has(up'[a], g) => Has(up[a], g)
             /\ Single(up'[a], g)
             /\ a = x /\ Head(up[x]) = g => Has(up[a], g) /\ ~Has(up'[a], g)
  <2> HIDE DEF g
  <2>1. CASE a = x
    <3>1. up'[a] = Tail(up[x]) /\ up[x] \in Seq(UpFrames) /\ Single(up[x], g)
      BY <1>1, <1>2, <1>t, <2>1
    <3> QED
      BY <1>1, <2>1, <3>1, QueueShrinks
  <2>2. CASE a # x
    BY <1>1, <1>2, <1>t, <2>2
  <2> QED
    BY <2>1, <2>2
<1>4. Single(down[b], OfferOf(o)) /\ \A a \in Apps : Sending(a, b, o) => ~Coming(b, o) /\ o.from = sess[a]
  BY DEF Placed, OnePlace
<1>5. PICK msgs \in [Sessions -> DownFrames \union {Silence}] :
        /\ Pushed(msgs)
        /\ \/ Plainly(msgs)
           \/ LET m == Head(up[x]) IN m.type = "signal" /\ msgs = OnlyTo(m.to, m.signal)
  BY <1>0, ServePushes
<1>6. /\ Has(down'[b], OfferOf(o)) => Has(down[b], OfferOf(o)) \/ Head(up[x]) = g
      /\ Single(down'[b], OfferOf(o))
  <2>1. CASE Plainly(msgs)
    BY <1>0, <1>4, <1>5, <2>1, PlainPushStays
  <2>2. CASE LET m == Head(up[x]) IN m.type = "signal" /\ msgs = OnlyTo(m.to, m.signal)
    <3> DEFINE m == Head(up[x])
    <3>1. m.type = "signal" /\ msgs = OnlyTo(m.to, m.signal) /\ m \in UpFrames
      BY <1>0, <1>1, <2>2, HeadOfUp
    <3>2. m = To(m.to, m.signal) /\ m.to \in Sessions
      BY <3>1 DEF UpFrames, To
    <3> HIDE DEF m
    <3>5. /\ Has(down'[b], OfferOf(o)) => Has(down[b], OfferOf(o)) \/ msgs[sess[b]] = OfferOf(o)
          /\ Single(down[b], OfferOf(o)) /\ ~(Has(down[b], OfferOf(o)) /\ msgs[sess[b]] = OfferOf(o))
               => Single(down'[b], OfferOf(o))
      BY <1>0, <1>5, PushedOnce
    <3>3. CASE msgs[sess[b]] = OfferOf(o)
      <4>1. m = g
        BY <1>t, <3>1, <3>2, <3>3 DEF OnlyTo, Quiet, Silence, OfferOf, Offer
      <4>2. Has(up[x], g)
        BY <1>3, <4>1 DEF m
      <4>3. ~Has(down[b], OfferOf(o))
        BY <1>4, <4>2 DEF Sending, Coming
      <4> QED
        BY <1>4, <3>5, <4>1, <4>3 DEF m
    <3>4. CASE msgs[sess[b]] # OfferOf(o)
      BY <1>4, <3>5, <3>4
    <3> QED
      BY <3>3, <3>4
  <2> QED
    BY <1>5, <2>1, <2>2
<1>7. /\ \A a \in Apps : /\ Sending(a, b, o)' <=> Has(up'[a], g)
                         /\ Single(up[a], To(sess[b], OfferOf(o)))' <=> Single(up'[a], g)
      /\ Coming(b, o)' <=> Has(down'[b], OfferOf(o))
      /\ Single(down[b], OfferOf(o))' <=> Single(down'[b], OfferOf(o))
      /\ \A a \in Apps : Sending(a, b, o) <=> Has(up[a], g)
      /\ Coming(b, o) <=> Has(down[b], OfferOf(o))
  BY <1>1, FramesStay DEF Sending, Coming
<1> HIDE DEF g
<1>8. /\ Coming(b, o)' => Coming(b, o) \/ \E a \in Apps : Sending(a, b, o) /\ ~Sending(a, b, o)'
      /\ \A a \in Apps : Sending(a, b, o)' => Sending(a, b, o)
  BY <1>3, <1>6, <1>7
<1>9. /\ Known(o)' <=> Known(o)
      /\ \A a \in CanShare : Making(a, b, o)' <=> Making(a, b, o)
      /\ Applied(b, o)' <=> Applied(b, o)
      /\ Pending(b, o)' <=> Pending(b, o)
      /\ Single(offers[b], o)' <=> Single(offers[b], o)
  BY <1>1, HalvesStay
<1>10. Single(offers[b], o)
  BY DEF Placed, OnePlace
<1>11. MovesOn(b, o)
  BY <1>1, <1>4, <1>8, <1>9 DEF MovesOn, Making
<1>12. StaysSingle(b, o)
  BY <1>3, <1>6, <1>7, <1>9, <1>10 DEF StaysSingle
<1> QED
  BY <1>9, <1>11, <1>12

\* A step of a sharer's own.
LEMMA SharersMove ==
  ASSUME Typed, SessionsInv, NEW x \in CanShare, SharersStep(x), NEW b \in CanWatch, Tidy(b), Placed(b),
         NEW o \in TakenOffers
  PROVE  MovesOn(b, o) /\ StaysSingle(b, o) /\ (Known(o) => Known(o)')
<1>0. /\ TableTypes /\ FrameTypes /\ SharersTyped /\ b \in Apps /\ x \in Apps
      /\ CanShare \subseteq Apps
  BY TypedIs, WatchersAssumption, SharersAssumption
<1>1. UNCHANGED <<sess, used, down, vw, offers>>
  BY <1>0, SharersSend, SharersStepFrames DEF vwVars
<1>2. /\ Known(o)' <=> Known(o)
      /\ \A a \in CanShare : Making(a, b, o)' => o.from = sess'[a] /\ Making(a, b, o)
  BY <1>0, <1>1, SharersMake, MakingStays
<1>3. /\ Applied(b, o)' <=> Applied(b, o)
      /\ Pending(b, o)' <=> Pending(b, o)
      /\ Single(offers[b], o)' <=> Single(offers[b], o)
      /\ Coming(b, o)' <=> Coming(b, o)
      /\ Single(down[b], OfferOf(o))' <=> Single(down[b], OfferOf(o))
  BY <1>1, OffersMoveOn DEF Coming, Has, Single
<1> DEFINE g == To(sess[b], OfferOf(o))
<1>4. \A a \in Apps : /\ Sending(a, b, o)' <=> Has(up'[a], g)
                      /\ Single(up[a], To(sess[b], OfferOf(o)))' <=> Single(up'[a], g)
                      /\ Sending(a, b, o) <=> Has(up[a], g)
  BY <1>1, FramesStay DEF Sending
<1>5. /\ \A a \in Apps : Single(up[a], g) /\ (Has(up[a], g) => o.from = sess[a])
      /\ Single(offers[b], o) /\ Single(down[b], OfferOf(o))
      /\ \A a \in CanShare : Making(a, b, o) => ~Has(up[a], g)
  BY <1>0, <1>4 DEF Placed, OnePlace
<1>6. ASSUME NEW a \in Apps
      PROVE  /\ Has(up'[a], g) => /\ o.from = sess[a]
                                  /\ \/ Has(up[a], g)
                                     \/ a \in CanShare /\ Making(a, b, o) /\ ~Making(a, b, o)'
             /\ Single(up'[a], g)
  <2>1. ASSUME NEW f \in UpFrames, f # g, up' = up \/ up' = Sent(x, <<f>>)
        PROVE  (Has(up'[a], g) => Has(up[a], g)) /\ Single(up'[a], g)
    <3> HIDE DEF g
    <3> QED
      BY <1>0, <1>5, <2>1, OthersSent
  <2>2. /\ Plain("create-room") \in UpFrames /\ Plain("create-room") # g
        /\ Plain("leave-room") \in UpFrames /\ Plain("leave-room") # g
    BY UpFramesAre DEF Plain, To
  <2>3. CASE up' = up \/ up' = Sent(x, <<Plain("create-room")>>) \/ up' = Sent(x, <<Plain("leave-room")>>)
    BY <1>5, <2>1, <2>2, <2>3
  <2>4. ASSUME NEW v \in Sessions, OfferReady(x, v),
               up' = Sent(x, <<To(v, Offer(sess[x], entry[x][v].conn))>>)
        PROVE  /\ Has(up'[a], g) => /\ o.from = sess[a]
                                    /\ \/ Has(up[a], g)
                                       \/ a \in CanShare /\ Making(a, b, o) /\ ~Making(a, b, o)'
               /\ Single(up'[a], g)
    <3> DEFINE f == To(v, Offer(sess[x], entry[x][v].conn))
    <3>1. /\ entry \in [CanShare -> [Sessions -> Entries]] /\ sess[x] \in Sessions
          /\ up \in [Apps -> Seq(UpFrames)]
      BY <1>0 DEF SharersTyped, SharingTypeOK, TableTypes, FrameTypes
    <3>2. f \in UpFrames
      <4>1. entry[x][v].conn \in Nat
        BY <3>1 DEF Entries
      <4> QED
        BY <3>1, <4>1, SignalsAre, UpFramesAre
    <3>3. CASE f # g
      BY <1>5, <2>1, <2>4, <3>2, <3>3
    <3>4. CASE f = g /\ a # x
      <4>1. up'[a] = up[a]
        BY <2>4, <3>1, <3>4 DEF Sent
      <4> QED
        BY <1>5, <4>1
    <3>5. CASE f = g /\ a = x /\ ~online[x]
      <4>1. up'[a] = up[a]
        BY <2>4, <3>5 DEF Sent
      <4> QED
        BY <1>5, <4>1
    <3>6. CASE f = g /\ a = x /\ online[x]
      <4>1. v = sess[b] /\ o.from = sess[x] /\ o.conn = entry[x][v].conn
        BY <3>6 DEF To, OfferOf, Offer
      <4>2. PICK ph \in {"offered", "answered"} :
              entry[x][v].phase = "offering" /\ entry' = [entry EXCEPT ![x][v].phase = ph]
        BY <2>4 DEF OfferReady
      <4>3. Making(x, b, o)
        BY <4>1, <4>2 DEF Making
      <4>4. entry'[x][v].phase \in {"offered", "answered"}
        <5>1. entry'[x][v] = [entry[x][v] EXCEPT !.phase = ph] /\ entry[x][v] \in Entries
          BY <3>1, <4>2
        <5> QED
          BY <5>1 DEF Entries
      <4>5. ~Making(x, b, o)'
        BY <1>1, <4>1, <4>4 DEF Making
      <4>6. up'[x] = up[x] \o <<f>> /\ up[x] \in Seq(UpFrames)
        BY <1>0, <2>4, <3>1, <3>6 DEF Sent
      <4>7. ~Has(up[x], g) /\ Single(up[x], g)
        BY <1>0, <1>5, <4>3
      <4> HIDE DEF f, g
      <4>8. Single(up'[x], g)
        BY <3>2, <4>6, <4>7, QueueGrows
      <4> QED
        BY <3>6, <4>1, <4>3, <4>5, <4>8
    <3> QED
      BY <3>3, <3>4, <3>5, <3>6
  <2> QED
    BY <2>3, <2>4, SharersSend
<1> HIDE DEF g
<1>7. \A a \in Apps : Sending(a, b, o)' =>
         /\ o.from = sess'[a]
         /\ Sending(a, b, o) \/ (a \in CanShare /\ Making(a, b, o) /\ ~Making(a, b, o)')
  BY <1>1, <1>4, <1>6
<1>8. MovesOn(b, o)
  BY <1>2, <1>3, <1>7 DEF MovesOn
<1>9. StaysSingle(b, o)
  BY <1>3, <1>4, <1>5, <1>6 DEF StaysSingle
<1> QED
  BY <1>2, <1>8, <1>9
LEMMA ViewersStepOf ==
  ASSUME ViewersTyped, NEW x \in CanWatch, ViewersStep(x), NEW b \in CanWatch, b # x
  PROVE  vw'[b] = vw[b] /\ offers'[b] = offers[b]
<1>1. ASSUME NEW r \in RoomIds, Join(x, r) PROVE vw'[b] = vw[b] /\ offers'[b] = offers[b]
  BY <1>1 DEF Join, ViewersTyped, WatchTypes
<1>2. ASSUME Leave(x) PROVE vw'[b] = vw[b] /\ offers'[b] = offers[b]
  BY <1>2 DEF Leave, CleanUpWatch, ViewersTyped, WatchTypes
<1>3. ASSUME AnswerFails(x) PROVE vw'[b] = vw[b] /\ offers'[b] = offers[b]
  BY <1>3, AnswerFailsIs DEF ViewersTyped, WatchTypes
<1>4. ASSUME PictureLost(x) \/ PictureArrives(x) \/ AnswerReady(x)
      PROVE  vw'[b] = vw[b] /\ offers'[b] = offers[b]
  BY <1>4 DEF PictureLost, PictureArrives, AnswerReady, ViewersTyped, WatchTypes
<1> QED
  BY <1>1, <1>2, <1>3, <1>4, JoinsIs, LeavesIs DEF ViewersStep

\* An offer that is refused without a mishap is one that was applied before.
LEMMA RefusedWhy ==
  ASSUME NEW b \in CanWatch, AnswerFails(b), Kept(b)'
  PROVE  vw[b].remote = Head(offers[b])
<1> SUFFICES ASSUME vw[b].remote # Head(offers[b]) PROVE FALSE
  OBVIOUS
<1>1. PICK ms : MishapsAllowed({b}, ms) /\ "offer refused" \in ms
  BY Zenon DEF AnswerFails, OnlyIf
<1>2. "offer refused" \in Quits
  BY Zenon DEF Quits
<1> QED
  BY <1>1, <1>2, SparedIsNotRecorded, Zenon DEF Kept

LEMMA ViewerItself ==
  ASSUME Typed, NEW b \in CanWatch, ViewersStep(b), Kept(b)', Tidy(b), Placed(b)
  PROVE  /\ Tidy(b)'
         /\ \/ vw'[b].remote = vw[b].remote /\ offers'[b] = offers[b]
            \/ vw'[b].remote = NoOffer /\ offers'[b] = <<>>
            \/ /\ offers[b] # <<>> /\ vw'[b].remote = Head(offers[b])
               /\ offers'[b] = Tail(offers[b])
<1>0. /\ TableTypes /\ FrameTypes /\ ViewersTyped /\ b \in Apps
      /\ vw \in [CanWatch -> Watchers] /\ offers \in [CanWatch -> Seq(TakenOffers)]
  BY TypedIs, WatchersAssumption DEF ViewersTyped, WatchTypes
<1>1. vw[b] \in Watchers /\ offers[b] \in Seq(TakenOffers) /\ online[b]
  BY <1>0 DEF Tidy
<1>2. online'[b]
  BY <1>0, <1>1, ViewersSend
<1>3. ASSUME NEW r \in RoomIds, Join(b, r)
      PROVE  Tidy(b)' /\ vw'[b].remote = vw[b].remote /\ offers'[b] = offers[b]
  <2> DEFINE l == vw[b].listening + 1
  <2>1. vw[b].state \in Away /\ UNCHANGED offers
    BY <1>3 DEF Join, Away
  <2>2. l = 1
    BY <2>1 DEF Tidy
  <2>3. vw'[b] = [vw[b] EXCEPT !.state = "connecting", !.room = r, !.listening = l, !.subscribed = TRUE]
    BY <1>0, <1>3 DEF Join
  <2> HIDE DEF l
  <2>4. /\ vw'[b].state = "connecting" /\ vw'[b].listening = 1 /\ vw'[b].subscribed
        /\ vw'[b].remote = vw[b].remote
    BY <1>1, <2>2, <2>3 DEF Watchers
  <2> QED
    BY <1>2, <2>1, <2>4 DEF Tidy, Away
<1>4. ASSUME Leave(b) PROVE Tidy(b)' /\ vw'[b].remote = NoOffer /\ offers'[b] = <<>>
  <2>1. CleanUpWatch(b, "idle", None, 0) /\ "idle" \in Away
    BY <1>4 DEF Leave, Away
  <2> QED
    BY <1>0, <1>2, <2>1, CleanedUpIsTidy
<1>5. ASSUME AnswerReady(b)
      PROVE  /\ Tidy(b)' /\ offers[b] # <<>> /\ vw'[b].remote = Head(offers[b])
             /\ offers'[b] = Tail(offers[b])
  <2> DEFINE p == Head(offers[b])
  <2>1. offers[b] # <<>> /\ offers'[b] = Tail(offers[b])
    BY <1>0, <1>5 DEF AnswerReady
  <2>2. vw'[b] = [vw[b] EXCEPT !.remote = p, !.state = vw[b].state]
    BY <1>0, <1>1, <1>5 DEF AnswerReady
  <2> HIDE DEF p
  <2>3. /\ vw'[b].remote = p /\ vw'[b].state = vw[b].state /\ vw'[b].listening = vw[b].listening
        /\ vw'[b].subscribed = vw[b].subscribed
    BY <1>1, <2>2 DEF Watchers
  <2>4. vw[b].listening # 0
    BY <2>1 DEF Tidy
  <2> QED
    BY <1>2, <2>1, <2>3, <2>4 DEF Tidy, p
<1>6. ASSUME AnswerFails(b) PROVE FALSE
  <2> DEFINE o == Head(offers[b])
  <2>1. vw[b].remote = o /\ offers[b] # <<>>
    BY <1>6, RefusedWhy, AnswerFailsIs
  <2>2. o \in TakenOffers /\ Has(offers[b], o)
    BY <1>1, <2>1, QueueShrinks
  <2> QED
    BY <2>1, <2>2 DEF Placed, OnePlace, Applied, Pending
<1>7. ASSUME PictureLost(b) \/ PictureArrives(b)
      PROVE  Tidy(b)' /\ vw'[b].remote = vw[b].remote /\ offers'[b] = offers[b]
  <2>1. /\ UNCHANGED offers
        /\ \/ vw[b].remote # NoOffer /\ vw'[b] = [vw[b] EXCEPT !.state = "reconnecting"]
           \/ vw[b].conn # 0 /\ vw'[b] = [vw[b] EXCEPT !.state = "connected"]
    BY <1>0, <1>7 DEF PictureLost, PictureArrives
  <2>2. /\ vw'[b].state \in {"connected", "reconnecting"} /\ vw'[b].listening = vw[b].listening
        /\ vw'[b].subscribed = vw[b].subscribed /\ vw'[b].remote = vw[b].remote
    BY <1>1, <2>1 DEF Watchers
  <2>3. vw[b].listening = 1
    BY <2>1 DEF Tidy, Away
  <2> QED
    BY <1>2, <2>1, <2>2, <2>3 DEF Tidy, Away
<1> QED
  BY <1>3, <1>4, <1>5, <1>6, <1>7, JoinsIs, LeavesIs DEF ViewersStep

LEMMA ViewersMove ==
  ASSUME Typed, SessionsInv, NEW x \in CanWatch, ViewersStep(x), NEW b \in CanWatch, Kept(b)',
         Tidy(b), Placed(b)
  PROVE  /\ Tidy(b)'
         /\ \A o \in TakenOffers : MovesOn(b, o) /\ StaysSingle(b, o) /\ (Known(o) => Known(o)')
<1>0. /\ TableTypes /\ FrameTypes /\ ViewersTyped /\ b \in Apps /\ x \in Apps
      /\ offers[b] \in Seq(TakenOffers)
  BY TypedIs, WatchersAssumption, WatcherIs
<1>1. UNCHANGED <<sess, used, online, down, shVars>>
  BY ViewersSend
<1>2. /\ Tidy(b)'
      /\ \/ vw'[b].remote = vw[b].remote /\ offers'[b] = offers[b]
         \/ vw'[b].remote = NoOffer /\ offers'[b] = <<>>
         \/ /\ offers[b] # <<>> /\ vw'[b].remote = Head(offers[b])
            /\ offers'[b] = Tail(offers[b])
  <2>1. CASE x = b
    BY <2>1, ViewerItself
  <2>2. CASE x # b
    <3>1. vw'[b] = vw[b] /\ offers'[b] = offers[b]
      BY <1>0, <2>2, ViewersStepOf
    <3> QED
      BY <1>1, <3>1 DEF Tidy
  <2> QED
    BY <2>1, <2>2
<1>3. ASSUME NEW o \in TakenOffers
      PROVE  /\ Applied(b, o)' => Applied(b, o) \/ (Pending(b, o) /\ ~Pending(b, o)')
             /\ Pending(b, o)' => Pending(b, o)
             /\ Single(offers[b], o)'
  <2>0. Single(offers[b], o)
    BY DEF Placed, OnePlace
  <2>1. CASE vw'[b].remote = vw[b].remote /\ offers'[b] = offers[b]
    BY <2>0, <2>1 DEF Applied, Pending, Has, Single
  <2>2. CASE vw'[b].remote = NoOffer /\ offers'[b] = <<>>
    <3>1. o # NoOffer
      BY NoneAssumption DEF TakenOffers, NoOffer
    <3> QED
      BY <2>2, <3>1 DEF Applied, Pending, Has, Single
  <2>3. CASE /\ offers[b] # <<>> /\ vw'[b].remote = Head(offers[b])
             /\ offers'[b] = Tail(offers[b])
    <3>1. /\ Has(Tail(offers[b]), o) => Has(offers[b], o)
          /\ Single(Tail(offers[b]), o)
          /\ Head(offers[b]) = o => Has(offers[b], o) /\ ~Has(Tail(offers[b]), o)
      BY <1>0, <2>0, <2>3, QueueShrinks
    <3>2. /\ Pending(b, o)' <=> Has(Tail(offers[b]), o)
          /\ Single(offers[b], o)' <=> Single(Tail(offers[b]), o)
          /\ Applied(b, o)' <=> Head(offers[b]) = o
      BY <2>3 DEF Pending, Applied, Has, Single
    <3> QED
      BY <3>1, <3>2 DEF Pending
  <2> QED
    BY <1>2, <2>1, <2>2, <2>3
<1>4. ASSUME NEW o \in TakenOffers, NEW a \in Apps
      PROVE  /\ Sending(a, b, o)' => Sending(a, b, o)
             /\ Single(up[a], To(sess[b], OfferOf(o)))'
  <2> DEFINE g == To(sess[b], OfferOf(o))
  <2>0. Single(up[a], g)
    BY DEF Placed, OnePlace
  <2>1. PICK f \in UpFrames : f # g /\ (up' = up \/ up' = Sent(x, <<f>>) \/ up' = Sent(x, <<f, f>>))
    <3>1. \A r \in RoomIds : JoinMsg(r) \in UpFrames /\ JoinMsg(r) # g
      BY UpFramesAre DEF JoinMsg, To
    <3>2. Plain("leave-room") \in UpFrames /\ Plain("leave-room") # g
      BY UpFramesAre DEF Plain, To
    <3>3. ASSUME AnswerReady(x)
          PROVE  LET p == Head(offers[x])
                     m == To(p.from, Answer(sess[x], p.conn, vw[x].conn)) IN
                 m \in UpFrames /\ m # g
      <4> DEFINE p == Head(offers[x]) m == To(p.from, Answer(sess[x], p.conn, vw[x].conn))
      <4>1. p.from \in Sessions /\ p.conn \in Nat /\ vw[x].conn \in Nat /\ sess[x] \in Sessions
        BY <1>0, <3>3, OffersShrink, WatcherIs DEF AnswerReady, TakenOffers, TableTypes
      <4> HIDE DEF p
      <4>2. m \in UpFrames
        BY <4>1, SignalsAre, UpFramesAre
      <4>3. m # g
        BY DEF To, Answer, OfferOf, Offer
      <4> QED
        BY <4>2, <4>3 DEF p
    <3> HIDE DEF g
    <3> QED
      BY <3>1, <3>2, <3>3, ViewersSend
  <2> HIDE DEF g
  <2>2. (Has(up'[a], g) => Has(up[a], g)) /\ Single(up'[a], g)
    BY <1>0, <2>0, <2>1, OthersSent
  <2> QED
    BY <1>1, <2>2, FramesStay DEF g, Sending
<1>5. ASSUME NEW o \in TakenOffers
      PROVE  /\ Coming(b, o)' <=> Coming(b, o)
             /\ Single(down[b], OfferOf(o))'
             /\ Known(o)' <=> Known(o)
             /\ \A a \in CanShare : Making(a, b, o)' <=> Making(a, b, o)
  BY <1>1 DEF Coming, Has, Single, Known, Making, shVars, Placed, OnePlace
<1>6. ASSUME NEW o \in TakenOffers PROVE MovesOn(b, o) /\ StaysSingle(b, o)
  <2>1. /\ \A a \in Apps : Sending(a, b, o) => o.from = sess[a]
        /\ \A a \in CanShare : Making(a, b, o) => o.from = sess[a]
    BY DEF Placed, OnePlace, Making
  <2>2. MovesOn(b, o)
    BY <1>1, <1>3, <1>4, <1>5, <2>1 DEF MovesOn
  <2> QED
    BY <1>3, <1>4, <1>5, <2>2 DEF StaysSingle
<1> QED
  BY <1>2, <1>5, <1>6

\* One that is not kept is one whose connection breaks.
LEMMA DropWhy ==
  ASSUME NEW x \in Apps, NEW b \in CanWatch, Drop(x), Kept(b)'
  PROVE  x # b
<1> SUFFICES ASSUME x = b PROVE FALSE
  OBVIOUS
<1>1. MishapsAllowed({b}, {"drop"}) /\ "drop" \in {"drop"}
  BY Zenon DEF Drop
<1>2. "drop" \in Quits
  BY Zenon DEF Quits
<1> QED
  BY <1>1, <1>2, SparedIsNotRecorded, Zenon DEF Kept

\* A socket breaks, one is replaced, or the server notices.
LEMMA SocketsMove ==
  ASSUME Typed, SessionsInv, SocketStep, UNCHANGED <<shVars, vwVars>>, NEW b \in CanWatch, Kept(b)',
         Tidy(b), Placed(b)
  PROVE  /\ Tidy(b)'
         /\ \A o \in TakenOffers : MovesOn(b, o) /\ StaysSingle(b, o) /\ (Known(o) => Known(o)')
<1>0. /\ TableTypes /\ FrameTypes /\ b \in Apps /\ CanShare \subseteq Apps
      /\ SharersTyped
  BY TypedIs, WatchersAssumption, SharersAssumption
<1>t. /\ up \in [Apps -> Seq(UpFrames)] /\ down \in [Apps -> Seq(DownFrames)]
      /\ sess \in [Apps -> Sessions] /\ online \in [Apps -> BOOLEAN]
      /\ \A a \in CanShare : sh[a].made \in Nat
      /\ vw' = vw /\ offers' = offers /\ sh' = sh /\ entry' = entry
  BY <1>0 DEF FrameTypes, TableTypes, SharersTyped, SharingTypeOK, Managers, shVars, vwVars
<1>p. ASSUME NEW o \in TakenOffers
      PROVE  /\ Single(offers[b], o) /\ Single(down[b], OfferOf(o))
             /\ \A a \in Apps : /\ Single(up[a], To(sess[b], OfferOf(o)))
                                /\ Sending(a, b, o) => o.from = sess[a]
             /\ \A a \in CanShare : Making(a, b, o) => o.from = sess[a]
  BY DEF Placed, OnePlace, Making
<1>v. online'[b] => Tidy(b)'
  BY <1>t DEF Tidy
<1>1. ASSUME NEW x \in Apps, up' = [up EXCEPT ![x] = <<>>], down' = [down EXCEPT ![x] = <<>>],
             online' = [online EXCEPT ![x] = FALSE], UNCHANGED <<sess, used>>, Drop(x)
      PROVE  /\ Tidy(b)'
             /\ \A o \in TakenOffers : MovesOn(b, o) /\ StaysSingle(b, o) /\ (Known(o) => Known(o)')
  <2>1. x # b
    BY <1>1, DropWhy
  <2>2. Tidy(b)'
    BY <1>0, <1>1, <1>t, <1>v, <2>1 DEF Tidy
  <2>3. ASSUME NEW o \in TakenOffers
        PROVE  MovesOn(b, o) /\ StaysSingle(b, o) /\ (Known(o) => Known(o)')
    <3>1. /\ Known(o)' <=> Known(o)
          /\ \A a \in CanShare : Making(a, b, o)' <=> Making(a, b, o)
          /\ Applied(b, o)' <=> Applied(b, o)
          /\ Pending(b, o)' <=> Pending(b, o)
          /\ Single(offers[b], o)' <=> Single(offers[b], o)
      BY <1>1, HalvesStay
    <3>2. down'[b] = down[b]
      BY <1>0, <1>1, <1>t, <2>1
    <3>3. /\ Coming(b, o)' <=> Coming(b, o)
          /\ Single(down[b], OfferOf(o))' <=> Single(down[b], OfferOf(o))
      BY <1>1, <3>2, FramesStay DEF Coming
    <3>4. ASSUME NEW a \in Apps
          PROVE  /\ Sending(a, b, o)' => Sending(a, b, o)
                 /\ Single(up[a], To(sess[b], OfferOf(o)))'
      <4>1. up'[a] = up[a] \/ up'[a] = <<>>
        BY <1>1, <1>t
      <4> QED
        BY <1>1, <1>p, <4>1, FramesStay, EmptyQueue DEF Sending
    <3>5. MovesOn(b, o)
      BY <1>1, <1>p, <3>1, <3>3, <3>4 DEF MovesOn
    <3>6. StaysSingle(b, o)
      BY <1>p, <3>1, <3>3, <3>4 DEF StaysSingle
    <3> QED
      BY <3>1, <3>5, <3>6
  <2> QED
    BY <2>2, <2>3
<1>2. ASSUME NEW x \in Apps, NEW s \in Sessions, ~online[x], s \notin used, used' = used \union {s},
             online' = [online EXCEPT ![x] = TRUE], sess' = [sess EXCEPT ![x] = s],
             UNCHANGED <<up, down>>
      PROVE  /\ Tidy(b)'
             /\ \A o \in TakenOffers : MovesOn(b, o) /\ StaysSingle(b, o) /\ (Known(o) => Known(o)')
  <2>1. x # b
    BY <1>2 DEF Tidy
  <2>2. Tidy(b)'
    BY <1>0, <1>2, <1>t, <1>v, <2>1 DEF Tidy
  <2>s. sess'[b] = sess[b] /\ \A a \in Apps : sess'[a] = IF a = x THEN s ELSE sess[a]
    BY <1>0, <1>2, <1>t, <2>1
  <2>q. up[x] = <<>> /\ up'[x] = <<>>
    BY <1>2 DEF SessionsInv
  <2>3. ASSUME NEW o \in TakenOffers
        PROVE  MovesOn(b, o) /\ StaysSingle(b, o) /\ (Known(o) => Known(o)')
    <3>1. Known(o) => Known(o)'
      BY <1>0, <1>2, <1>t, <2>s DEF Known
    <3>2. ASSUME NEW a \in CanShare, Making(a, b, o)'
          PROVE  o.from = sess'[a] /\ (Making(a, b, o) \/ (~Known(o) /\ Known(o)'))
      <4>1. /\ entry[a][sess[b]].phase = "offering"
            /\ o.from = sess'[a] /\ o.conn = entry[a][sess[b]].conn
        BY <1>t, <2>s, <3>2 DEF Making
      <4>2. CASE a # x
        BY <1>0, <2>s, <4>1, <4>2 DEF Making
      <4>3. CASE a = x
        <5>1. o.from = s /\ o.conn <= sh[a].made
          <6> DEFINE p == [from |-> sess[x], conn |-> o.conn]
          <6>1. p \in TakenOffers
            BY <1>t DEF TakenOffers
          <6>2. Making(x, b, p)
            BY <4>1, <4>3 DEF Making
          <6>3. Known(p) /\ p.from = sess[x] /\ p.conn = o.conn
            BY <1>0, <4>3, <6>1, <6>2 DEF Placed, Numbered
          <6> QED
            BY <2>s, <4>1, <4>3, <6>3 DEF Known
        <5>2. ~Known(o)
          BY <1>2, <5>1 DEF Known
        <5>3. Known(o)'
          <6>1. \A c \in CanShare : s = sess'[c] => c = x
            BY <1>0, <1>2, <2>s DEF SessionsInv
          <6> QED
            BY <1>2, <1>t, <4>3, <5>1, <6>1 DEF Known
        <5> QED
          BY <4>1, <5>2, <5>3
      <4> QED
        BY <4>2, <4>3
    <3>3. /\ Applied(b, o)' <=> Applied(b, o)
          /\ Pending(b, o)' <=> Pending(b, o)
          /\ Single(offers[b], o)' <=> Single(offers[b], o)
      BY <1>t, OffersStay
    <3>4. /\ Coming(b, o)' <=> Coming(b, o)
          /\ Single(down[b], OfferOf(o))' <=> Single(down[b], OfferOf(o))
          /\ \A a \in Apps : /\ Sending(a, b, o)' <=> Sending(a, b, o)
                             /\ Single(up[a], To(sess[b], OfferOf(o)))' <=> Single(up[a], To(sess[b], OfferOf(o)))
      BY <1>2, <2>s, FramesStay DEF Coming, Sending
    <3>5. \A a \in Apps : Sending(a, b, o) => a # x /\ o.from = sess'[a]
      BY <1>p, <2>q, <2>s, EmptyQueue DEF Sending
    <3>6. MovesOn(b, o)
      BY <3>2, <3>3, <3>4, <3>5 DEF MovesOn
    <3>7. StaysSingle(b, o)
      BY <1>p, <3>3, <3>4 DEF StaysSingle
    <3> QED
      BY <3>1, <3>6, <3>7
  <2> QED
    BY <2>2, <2>3
<1>3. ASSUME NEW s \in Sessions, Pushed(DepartureMessages(s)), Plainly(DepartureMessages(s)),
             DepartureMessages(s) \in [Sessions -> DownFrames \union {Silence}],
             UNCHANGED <<sess, online, used, up>>
      PROVE  /\ Tidy(b)'
             /\ \A o \in TakenOffers : MovesOn(b, o) /\ StaysSingle(b, o) /\ (Known(o) => Known(o)')
  <2>2. Tidy(b)'
    BY <1>3, <1>v DEF Tidy
  <2>3. ASSUME NEW o \in TakenOffers
        PROVE  MovesOn(b, o) /\ StaysSingle(b, o) /\ (Known(o) => Known(o)')
    <3>1. /\ Known(o)' <=> Known(o)
          /\ \A a \in CanShare : Making(a, b, o)' <=> Making(a, b, o)
          /\ Applied(b, o)' <=> Applied(b, o)
          /\ Pending(b, o)' <=> Pending(b, o)
          /\ Single(offers[b], o)' <=> Single(offers[b], o)
      BY <1>3, HalvesStay
    <3>2. /\ Has(down'[b], OfferOf(o)) => Has(down[b], OfferOf(o))
          /\ Single(down'[b], OfferOf(o))
      BY <1>0, <1>3, <1>p, PlainPushStays
    <3>3. /\ Coming(b, o)' => Coming(b, o)
          /\ Single(down[b], OfferOf(o))'
          /\ \A a \in Apps : /\ Sending(a, b, o)' <=> Sending(a, b, o)
                             /\ Single(up[a], To(sess[b], OfferOf(o)))' <=> Single(up[a], To(sess[b], OfferOf(o)))
      BY <1>3, <3>2, FramesStay DEF Coming, Sending
    <3>4. MovesOn(b, o)
      BY <1>3, <1>p, <3>1, <3>3 DEF MovesOn
    <3>5. StaysSingle(b, o)
      BY <1>p, <3>1, <3>3 DEF StaysSingle
    <3> QED
      BY <3>1, <3>4, <3>5
  <2> QED
    BY <2>2, <2>3
<1> QED
  BY <1>0, <1>1, <1>2, <1>3, SocketsDo

LEMMA TidyStays ==
  ASSUME NEW b \in CanWatch, Tidy(b), online'[b] = online[b], vw'[b] = vw[b], offers'[b] = offers[b]
  PROVE  Tidy(b)'
BY DEF Tidy

LEMMA ViewerInvStep ==
  ASSUME Typed, SessionsInv, ViewerInv, Next
  PROVE  ViewerInv'
<1> SUFFICES ASSUME NEW b \in CanWatch, Kept(b)' PROVE Tidy(b)' /\ Placed(b)'
  BY DEF ViewerInv
<1>0. TableTypes /\ FrameTypes /\ ViewersTyped /\ SharersTyped /\ CanWatch \subseteq Apps /\ CanShare \subseteq Apps
  BY TypedIs, WatchersAssumption, SharersAssumption
<1>1. Kept(b)
  BY MishapsStay, SparedBefore, Zenon DEF Kept
<1>2. Tidy(b) /\ Placed(b)
  BY <1>1 DEF ViewerInv
<1> DEFINE Fine == /\ Tidy(b)'
                   /\ \A o \in TakenOffers : MovesOn(b, o) /\ StaysSingle(b, o) /\ (Known(o) => Known(o)')
<1>3. ASSUME NEW x \in Apps, Receive(x) PROVE Fine
  BY <1>2, <1>3, ReceiveMoves
<1>4. ASSUME NEW x \in Apps, Serve(x) PROVE Fine
  <2>1. UNCHANGED <<online, vw, offers>>
    BY <1>0, <1>4, ServePushes DEF vwVars
  <2>2. Tidy(b)'
    BY <1>2, <2>1, TidyStays
  <2> QED
    BY <1>2, <1>4, <2>2, ServeMoves
<1>5. ASSUME NEW x \in CanShare, SharingStep(x) PROVE Fine
  <2>1. SharersStep(x)
    BY <1>5, SharersStepIs
  <2>2. UNCHANGED <<online, vw, offers>>
    BY <1>0, <2>1, SharersSend, SharersStepFrames DEF vwVars
  <2>3. Tidy(b)'
    BY <1>2, <2>2, TidyStays
  <2> QED
    BY <1>2, <2>1, <2>3, SharersMove
<1>6. ASSUME NEW x \in CanWatch, ViewingStep(x) PROVE Fine
  BY <1>2, <1>6, ViewersStepIs, ViewersMove
<1>7. ASSUME SocketStep, UNCHANGED <<shVars, vwVars>> PROVE Fine
  BY <1>2, <1>7, SocketsMove
<1>8. Fine
  BY <1>3, <1>4, <1>5, <1>6, <1>7 DEF Next
<1>9. SessionsInv'
  BY SessionsInvStep
<1>10. ASSUME NEW o \in TakenOffers PROVE OnePlace(b, o)' /\ Numbered(b, o)'
  BY <1>2, <1>8, <1>9, MovedOn DEF Placed
<1> QED
  BY <1>8, <1>10 DEF Placed

LEMMA ViewerInit == Init => ViewerInv
<1> SUFFICES ASSUME Init, NEW b \in CanWatch PROVE Tidy(b) /\ Placed(b)
  BY DEF ViewerInv
<1>0. /\ b \in Apps /\ CanShare \subseteq Apps /\ TableTypes /\ sess[b] \in Sessions
  BY WatchersAssumption, SharersAssumption, TypedInit, TypedIs DEF TableTypes
<1>1. /\ vw[b].state = "idle" /\ vw[b].conn = 0 /\ vw[b].remote = NoOffer /\ vw[b].listening = 0
      /\ ~vw[b].subscribed /\ offers[b] = <<>> /\ online[b] /\ down[b] = <<>>
      /\ \A a \in Apps : up[a] = <<>>
      /\ \A a \in CanShare : entry[a][sess[b]] = NoEntry
  BY <1>0 DEF Init, LinkInit, ViewingInit, SharingInit, NoEntries
<1>2. Tidy(b)
  BY <1>1 DEF Tidy, Away
<1>3. ASSUME NEW o \in TakenOffers PROVE OnePlace(b, o) /\ Numbered(b, o)
  <2>1. o # NoOffer
    BY NoneAssumption DEF TakenOffers, NoOffer
  <2>2. /\ ~Applied(b, o) /\ ~Pending(b, o) /\ ~Coming(b, o)
        /\ \A a \in Apps : ~Sending(a, b, o)
        /\ \A a \in CanShare : ~Making(a, b, o)
    BY <1>1, <2>1, EmptyQueue DEF Applied, Pending, Coming, Sending, Making, NoEntry
  <2> QED
    BY <1>1, <2>2, EmptyQueue DEF OnePlace, Numbered
<1> QED
  BY <1>2, <1>3 DEF Placed

LEMMA ViewerKept == ViewerInv /\ UNCHANGED shareVars => ViewerInv'
<1> SUFFICES ASSUME ViewerInv, UNCHANGED shareVars, NEW b \in CanWatch, Kept(b)'
             PROVE  Tidy(b)' /\ Placed(b)'
  BY DEF ViewerInv
<1>1. Kept(b)
  BY Zenon DEF Kept, Spared, shareVars
<1>2. Tidy(b) /\ Placed(b)
  BY <1>1 DEF ViewerInv
<1> QED
  BY <1>2 DEF Tidy, Placed, OnePlace, Numbered, Applied, Pending, Coming, Sending, Making, Known, Has,
     Single, shareVars, linkVars, shVars, vwVars

LEMMA ViewersHold == Spec => [](Typed /\ SharerInv /\ SessionsInv /\ ViewerInv)
<1>1. Init => SessionsInv /\ ViewerInv
  BY SessionsInit, ViewerInit
<1>2. Typed /\ SessionsInv /\ ViewerInv /\ [Next]_shareVars => (SessionsInv /\ ViewerInv)'
  BY SessionsInvStep, SessionsKept, ViewerInvStep, ViewerKept
<1> QED
  BY <1>1, <1>2, SharerInvHolds, PTL DEF Spec

(***************************************************************************)
(* Each manager hears each message once, however often start() and join()  *)
(* were called and screens were left (HeardOnce).                          *)
(***************************************************************************)
THEOREM EachHearsOnce == Spec => []HeardOnce
<1>1. SharerInv /\ ViewerInv => HeardOnce
  <2> SUFFICES ASSUME SharerInv, ViewerInv PROVE HeardOnce
    OBVIOUS
  <2>1. ASSUME NEW a \in CanShare, Spared({a}, Restarts) PROVE sh[a].listening <= 1
    <3>1. InOrder(a)
      BY <2>1 DEF SharerInv, Steady
    <3> QED
      BY <3>1 DEF InOrder, Holds, HoldsNothing
  <2>2. ASSUME NEW b \in CanWatch, Kept(b) PROVE vw[b].listening <= 1
    BY <2>2 DEF ViewerInv, Tidy
  <2> QED
    BY <2>1, <2>2, Zenon DEF HeardOnce, Kept, Quits
<1> QED
  BY <1>1, ViewersHold, PTL
-----------------------------------------------------------------------------
(***************************************************************************)
(* What a frame that was not there before comes from.                      *)
(***************************************************************************)
LEMMA ServeIs ==
  ASSUME TableTypes, FrameTypes, NEW a \in Apps, Serve(a)
  PROVE  LET s == sess[a]
             f == Head(up[a]) IN
         \/ /\ f.type = "create-room"
            /\ \E r \in RoomIds : CreateRoom(s, r) /\ Pushed(OnlyTo(s, RoomCreated(r)))
         \/ /\ f.type = "join-room" /\ f.room \in RoomIds /\ JoinRoom(f.room, s)
            /\ JoinResult(f.room, s) # "ok" /\ JoinResult(f.room, s) \in ErrorCodes
            /\ Pushed(OnlyTo(s, ErrorMsg(JoinResult(f.room, s))))
         \/ /\ f.type = "join-room" /\ f.room \in RoomIds /\ JoinRoom(f.room, s)
            /\ JoinResult(f.room, s) = "ok" /\ sharerId[f.room] \in Sessions
            /\ Pushed([Quiet EXCEPT ![s] = RoomJoined(f.room, sharerId[f.room]),
                                    ![sharerId[f.room]] = ViewerJoined(s)])
         \/ /\ f.type = "leave-room" /\ RemoveSession(s)
            /\ \/ RemovalKind(s) = "none" /\ Pushed(OnlyTo(s, ErrorMsg("NOT_IN_ROOM")))
               \/ RemovalKind(s) # "none" /\ Pushed(DepartureMessages(s))
         \/ /\ f.type = "signal" /\ f \in UpFrames /\ UNCHANGED rmVars
            /\ \/ ResolveTarget(s, f.to) = "ok" /\ Pushed(OnlyTo(f.to, f.signal))
               \/ /\ ResolveTarget(s, f.to) \in ErrorCodes
                  /\ Pushed(OnlyTo(s, ErrorMsg(ResolveTarget(s, f.to))))
<1> DEFINE s == sess[a] f == Head(up[a])
<1>s. s \in Sessions
  BY DEF TableTypes
<1>1. CASE ServerCreates(a)
  BY <1>1 DEF ServerCreates, Takes
<1>2. CASE ServerJoins(a)
  <2>1. f.room \in RoomIds /\ JoinRoom(f.room, s) /\ f.type = "join-room"
    BY <1>2, HeadOfUp, UpFrameHas DEF ServerJoins, Takes
  <2>2. CASE JoinResult(f.room, s) # "ok"
    <3>1. Pushed(OnlyTo(s, ErrorMsg(JoinResult(f.room, s))))
      BY <1>2, <2>2 DEF ServerJoins
    <3>2. JoinResult(f.room, s) \in ErrorCodes
      BY <1>s, <2>1, <2>2, CodesAre
    <3> QED
      BY <2>1, <2>2, <3>1, <3>2
  <2>3. CASE JoinResult(f.room, s) = "ok"
    <3>1. Pushed([Quiet EXCEPT ![s] = RoomJoined(f.room, sharerId[f.room]),
                               ![sharerId[f.room]] = ViewerJoined(s)])
      BY <1>2, <2>3 DEF ServerJoins
    <3>2. sharerId[f.room] \in Sessions
      BY <2>1, <2>3 DEF JoinResult, RoomExists, TableTypes, RMTypeOK
    <3> QED
      BY <2>1, <2>3, <3>1, <3>2
  <2> QED
    BY <2>2, <2>3
<1>3. CASE ServerRemoves(a)
  BY <1>3 DEF ServerRemoves, Takes
<1>4. CASE ServerRelays(a)
  <2>1. f.type = "signal" /\ UNCHANGED rmVars /\ f \in UpFrames
    BY <1>4, HeadOfUp DEF ServerRelays, Takes
  <2>2. CASE ResolveTarget(s, f.to) = "ok"
    BY <1>4, <2>1, <2>2 DEF ServerRelays
  <2>3. CASE ResolveTarget(s, f.to) # "ok"
    <3>1. ResolveTarget(s, f.to) \in ErrorCodes
      BY <2>3 DEF ResolveTarget, ErrorCodes
    <3>2. Pushed(OnlyTo(s, ErrorMsg(ResolveTarget(s, f.to))))
      BY <1>4, <2>3 DEF ServerRelays
    <3> QED
      BY <2>1, <3>1, <3>2
  <2> QED
    BY <2>2, <2>3
<1> QED
  BY <1>1, <1>2, <1>3, <1>4 DEF Serve, ServerHandles

\* What the server gives an application when it handles a frame of x's.
Given(x, y, g) ==
  \/ g.type \notin {"viewer-joined", "offer", "answer"}
  \/ g = ViewerJoined(sess[x]) /\ Head(up[x]).type = "join-room"
  \/ Head(up[x]) = To(sess[y], g)

LEMMA ServeGives ==
  ASSUME TableTypes, FrameTypes, NEW x \in Apps, Serve(x), NEW y \in Apps
  PROVE  \/ down'[y] = down[y]
         \/ \E g \in DownFrames : down'[y] = down[y] \o <<g>> /\ Given(x, y, g)
<1> DEFINE s == sess[x] f == Head(up[x]) t == sess[y]
<1>s. s \in Sessions /\ t \in Sessions
  BY DEF TableTypes
<1>1. ASSUME NEW msgs \in [Sessions -> DownFrames \union {Silence}], Pushed(msgs),
             msgs[t] # Silence => Given(x, y, msgs[t])
      PROVE  \/ down'[y] = down[y]
             \/ \E g \in DownFrames : down'[y] = down[y] \o <<g>> /\ Given(x, y, g)
  BY <1>1, PushedIs
<1>2. ASSUME NEW k \in Sessions, NEW m \in DownFrames, Pushed(OnlyTo(k, m)), k = t => Given(x, y, m)
      PROVE  \/ down'[y] = down[y]
             \/ \E g \in DownFrames : down'[y] = down[y] \o <<g>> /\ Given(x, y, g)
  <2>1. OnlyTo(k, m) \in [Sessions -> DownFrames \union {Silence}]
    BY PushesAre
  <2>2. OnlyTo(k, m)[t] = IF k = t THEN m ELSE Silence
    BY <1>s DEF OnlyTo, Quiet
  <2> QED
    BY <1>1, <1>2, <2>1, <2>2
<1>3. /\ \A r \in RoomIds : RoomCreated(r) \in DownFrames /\ Given(x, y, RoomCreated(r))
      /\ \A c \in ErrorCodes : ErrorMsg(c) \in DownFrames /\ Given(x, y, ErrorMsg(c))
  BY DownFramesAre DEF Given, RoomCreated, ErrorMsg
<1>4. "NOT_IN_ROOM" \in ErrorCodes
  BY DEF ErrorCodes
<1>5. CASE \E r \in RoomIds : Pushed(OnlyTo(s, RoomCreated(r)))
  BY <1>s, <1>2, <1>3, <1>5
<1>6. CASE \E c \in ErrorCodes : Pushed(OnlyTo(s, ErrorMsg(c)))
  BY <1>s, <1>2, <1>3, <1>6
<1>7. CASE f.type = "signal" /\ f \in UpFrames /\ Pushed(OnlyTo(f.to, f.signal))
  <2>1. f = To(f.to, f.signal) /\ f.to \in Sessions /\ f.signal \in DownFrames
    BY <1>7, DownFramesAre, UpFrameHas DEF UpFrames, To
  <2> HIDE DEF f
  <2>2. f.to = t => Given(x, y, f.signal)
    BY <2>1 DEF Given, f
  <2> QED
    BY <1>2, <1>7, <2>1, <2>2
<1>8. CASE Pushed(DepartureMessages(s))
  <2>1. DepartureMessages(s)[t] # Silence => Given(x, y, DepartureMessages(s)[t])
    BY <1>s DEF DepartureMessages, Given, RoomEnded, ViewerLeft
  <2> QED
    BY <1>s, <1>1, <1>8, <2>1, DeparturesAre
<1>9. CASE /\ f.type = "join-room" /\ f.room \in RoomIds /\ sharerId[f.room] \in Sessions
           /\ Pushed([Quiet EXCEPT ![s] = RoomJoined(f.room, sharerId[f.room]),
                                   ![sharerId[f.room]] = ViewerJoined(s)])
  <2> DEFINE k == sharerId[f.room] m == RoomJoined(f.room, k)
             msgs == [Quiet EXCEPT ![s] = m, ![k] = ViewerJoined(s)]
  <2>1. msgs \in [Sessions -> DownFrames \union {Silence}]
    BY <1>s, <1>9, DownFramesAre, PushesAre
  <2>2. msgs[t] \in {m, ViewerJoined(s), Silence}
    BY <1>s DEF Quiet
  <2>3. Given(x, y, m) /\ Given(x, y, ViewerJoined(s))
    BY <1>9 DEF Given, RoomJoined
  <2>4. Pushed(msgs)
    BY <1>9
  <2> HIDE DEF msgs, m
  <2> QED
    BY <1>1, <2>1, <2>2, <2>3, <2>4
<1> HIDE DEF f, s
<1> QED
  BY <1>4, <1>5, <1>6, <1>7, <1>8, <1>9, ServeIs DEF f, s

Comes(y, g) ==
  \/ g.type \notin {"viewer-joined", "offer", "answer"}
  \/ \E x \in Apps : Serve(x) /\ up[x] # <<>> /\ Given(x, y, g)

LEMMA DownMoves ==
  ASSUME Typed, Next, NEW y \in Apps
  PROVE  \/ down'[y] = down[y] \/ down'[y] = <<>>
         \/ down[y] # <<>> /\ down'[y] = Tail(down[y]) /\ Receive(y)
         \/ \E g \in DownFrames : down'[y] = down[y] \o <<g>> /\ Comes(y, g)
<1>0. TableTypes /\ FrameTypes /\ SharersTyped /\ down \in [Apps -> Seq(DownFrames)]
  BY TypedIs DEF FrameTypes
<1>1. ASSUME NEW x \in Apps, Receive(x)
      PROVE  down'[y] = down[y] \/ (down[y] # <<>> /\ down'[y] = Tail(down[y]) /\ Receive(y))
  BY <1>0, <1>1 DEF Receive
<1>2. ASSUME NEW x \in Apps, Serve(x)
      PROVE  down'[y] = down[y] \/ \E g \in DownFrames : down'[y] = down[y] \o <<g>> /\ Comes(y, g)
  BY <1>0, <1>2, ServeGives, ServePushes DEF Comes
<1>3. ASSUME NEW x \in CanShare, SharingStep(x) PROVE down' = down
  BY <1>3, SharersStepIs, SharersSend
<1>4. ASSUME NEW x \in CanWatch, ViewingStep(x) PROVE down' = down
  BY <1>4, ViewersStepIs, ViewersSend
<1>5. CASE SocketStep
  <2>1. ASSUME NEW x \in Apps, down' = [down EXCEPT ![x] = <<>>] PROVE down'[y] = down[y] \/ down'[y] = <<>>
    BY <1>0, <2>1
  <2>2. ASSUME NEW s \in Sessions, Pushed(DepartureMessages(s)),
               DepartureMessages(s) \in [Sessions -> DownFrames \union {Silence}]
        PROVE  down'[y] = down[y] \/ \E g \in DownFrames : down'[y] = down[y] \o <<g>> /\ Comes(y, g)
    <3>1. sess[y] \in Sessions
      BY <1>0 DEF TableTypes
    <3>2. DepartureMessages(s)[sess[y]] # Silence => Comes(y, DepartureMessages(s)[sess[y]])
      BY <3>1 DEF DepartureMessages, Comes, RoomEnded, ViewerLeft
    <3> QED
      BY <1>0, <2>2, <3>2, PushedIs
  <2> QED
    BY <1>0, <1>5, <2>1, <2>2, SocketsDo
<1> QED
  BY <1>1, <1>2, <1>3, <1>4, <1>5 DEF Next

\* What an application sends.
Goes(y, f) ==
  \/ f = Plain("leave-room")
  \/ /\ y \in CanShare /\ AwaitsCapture(y) /\ sh'[y].stream # 0
     /\ f = Plain("create-room") /\ up'[y] = up[y] \o <<f>>
  \/ y \in CanWatch /\ Joins(y) /\ (\E r \in RoomIds : f = JoinMsg(r)) /\ up'[y] = up[y] \o <<f>>
  \/ /\ y \in CanShare
     /\ \E v \in Sessions : /\ up'[y] = up[y] \o <<f>>
                            /\ entry[y][v].phase = "offering"
                            /\ entry'[y][v].phase \in {"offered", "answered"}
                            /\ f = To(v, Offer(sess[y], entry[y][v].conn))
  \/ /\ y \in CanWatch /\ offers[y] # <<>> /\ up'[y] = up[y] \o <<f>>
     /\ vw[y].remote # Head(offers[y]) /\ vw'[y].remote = Head(offers[y]) /\ offers'[y] = Tail(offers[y])
     /\ LET o == Head(offers[y]) IN f = To(o.from, Answer(sess[y], o.conn, vw[y].conn))

LEMMA UpMoves ==
  ASSUME Typed, Next, NEW y \in Apps
  PROVE  \/ up'[y] = up[y] \/ up'[y] = <<>>
         \/ up[y] # <<>> /\ up'[y] = Tail(up[y]) /\ Serve(y)
         \/ \E f \in UpFrames : /\ up'[y] = up[y] \o <<f>> \/ up'[y] = up[y] \o <<f, f>>
                                /\ Goes(y, f)
<1>0. /\ TableTypes /\ FrameTypes /\ SharersTyped /\ ViewersTyped /\ up \in [Apps -> Seq(UpFrames)]
      /\ sess \in [Apps -> Sessions]
      /\ CanShare \subseteq Apps /\ CanWatch \subseteq Apps
  BY TypedIs, SharersAssumption, WatchersAssumption DEF FrameTypes, TableTypes
<1> DEFINE New == \E f \in UpFrames : /\ up'[y] = up[y] \o <<f>> \/ up'[y] = up[y] \o <<f, f>>
                                      /\ Goes(y, f)
<1>1. ASSUME NEW x \in Apps, Receive(x) PROVE up' = up
  BY <1>1 DEF Receive
<1>2. ASSUME NEW x \in Apps, Serve(x)
      PROVE  up'[y] = up[y] \/ (up[y] # <<>> /\ up'[y] = Tail(up[y]) /\ Serve(y))
  BY <1>0, <1>2, ServePushes
<1>s. ASSUME NEW x \in Apps, NEW f \in UpFrames, up' = Sent(x, <<f>>) \/ up' = Sent(x, <<f, f>>),
             up'[x] # up[x] => Goes(x, f)
      PROVE  up'[y] = up[y] \/ New
  <2>1. CASE x = y
    <3>1. up'[y] = up[y] \/ up'[y] = up[y] \o <<f>> \/ up'[y] = up[y] \o <<f, f>>
      BY <1>0, <1>s, <2>1 DEF Sent
    <3> QED
      BY <1>s, <2>1, <3>1
  <2>2. CASE x # y
    BY <1>0, <1>s, <2>2 DEF Sent
  <2> QED
    BY <2>1, <2>2
<1>3. ASSUME NEW x \in CanShare, SharingStep(x) PROVE up'[y] = up[y] \/ New
  <2>1. CASE up' = Sent(x, <<Plain("leave-room")>>)
    BY <1>0, <1>s, <2>1, UpFramesAre DEF Goes
  <2>3. ASSUME NEW n \in Starts, CaptureStarts(x, n), up' = Sent(x, <<Plain("create-room")>>)
        PROVE  up'[y] = up[y] \/ New
    <3> DEFINE f == Plain("create-room") l == sh[x].listening + 1
    <3>1. AwaitsCapture(x) /\ n # 0
      BY <2>3, StartsAre DEF CaptureStarts, AwaitsCapture
    <3>2. ASSUME up'[x] # up[x] PROVE up'[x] = up[x] \o <<f>> /\ sh'[x].stream = n
      <4>1. online[x] /\ up'[x] = up[x] \o <<f>>
        BY <1>0, <2>3, <3>2 DEF Sent
      <4>2. sh'[x] = [sh[x] EXCEPT !.stream = n, !.listening = l, !.subscribed = TRUE] /\ sh[x] \in Managers
        BY <1>0, <2>3, <4>1, SharerIs DEF CaptureStarts, SharersTyped, SharingTypeOK
      <4> HIDE DEF l
      <4>3. sh'[x].stream = n
        BY <4>2 DEF Managers
      <4> QED
        BY <4>1, <4>3
    <3>3. up'[x] # up[x] => Goes(x, f)
      BY <3>1, <3>2 DEF Goes
    <3> QED
      BY <1>0, <1>s, <2>3, <3>3, UpFramesAre
  <2>2. ASSUME NEW v \in Sessions, OfferReady(x, v),
               up' = Sent(x, <<To(v, Offer(sess[x], entry[x][v].conn))>>)
        PROVE  up'[y] = up[y] \/ New
    <3> DEFINE f == To(v, Offer(sess[x], entry[x][v].conn))
    <3>1. entry[x][v] \in Entries /\ entry \in [CanShare -> [Sessions -> Entries]] /\ sess[x] \in Sessions
      BY <1>0 DEF SharersTyped, SharingTypeOK
    <3>2. entry[x][v].conn \in Nat
      BY <3>1 DEF Entries
    <3>3. f \in UpFrames
      BY <3>1, <3>2, SignalsAre, UpFramesAre
    <3>4. PICK ph \in {"offered", "answered"} :
            entry'[x][v] = [entry[x][v] EXCEPT !.phase = ph] /\ entry[x][v].phase = "offering"
      BY <2>2, <3>1 DEF OfferReady
    <3>5. entry'[x][v].phase \in {"offered", "answered"}
      BY <3>1, <3>4 DEF Entries
    <3> HIDE DEF f
    <3>7. up'[x] # up[x] => up'[x] = up[x] \o <<f>>
      BY <1>0, <2>2, <3>3 DEF Sent, f
    <3>6. up'[x] # up[x] => Goes(x, f)
      BY <2>2, <3>4, <3>5, <3>7 DEF Goes, f
    <3> QED
      BY <1>0, <1>s, <2>2, <3>3, <3>6 DEF f
  <2> QED
    BY <1>3, <2>1, <2>2, <2>3, SharersStepIs, SharersSend
<1>4. ASSUME NEW x \in CanWatch, ViewingStep(x) PROVE up'[y] = up[y] \/ New
  <2>1. CASE up' = Sent(x, <<Plain("leave-room")>>) \/ up' = Sent(x, <<Plain("leave-room"), Plain("leave-room")>>)
    BY <1>0, <1>s, <2>1, UpFramesAre DEF Goes
  <2>2. ASSUME NEW r \in RoomIds, Join(x, r), Joins(x), up' = Sent(x, <<JoinMsg(r)>>)
        PROVE  up'[y] = up[y] \/ New
    <3>1. up'[x] # up[x] => up'[x] = up[x] \o <<JoinMsg(r)>>
      BY <1>0, <2>2 DEF Sent
    <3> QED
      BY <1>0, <1>s, <2>2, <3>1, UpFramesAre DEF Goes
  <2>3. ASSUME AnswerReady(x),
               LET o == Head(offers[x]) IN up' = Sent(x, <<To(o.from, Answer(sess[x], o.conn, vw[x].conn))>>)
        PROVE  up'[y] = up[y] \/ New
    <3> DEFINE o == Head(offers[x]) f == To(o.from, Answer(sess[x], o.conn, vw[x].conn))
    <3>1. o.from \in Sessions /\ o.conn \in Nat /\ vw[x].conn \in Nat /\ sess[x] \in Sessions
      BY <1>0, <2>3, OffersShrink, WatcherIs DEF AnswerReady, TakenOffers
    <3>4. offers[x] # <<>>
      BY <2>3 DEF AnswerReady
    <3> HIDE DEF o
    <3>3. f \in UpFrames
      BY <3>1, SignalsAre, UpFramesAre
    <3> HIDE DEF f
    <3>5. up'[x] # up[x] => up'[x] = up[x] \o <<f>>
      BY <1>0, <2>3, <3>3 DEF Sent, f, o
    <3>6. vw[x].remote # o /\ vw'[x].remote = o /\ offers'[x] = Tail(offers[x])
      <4> DEFINE st == IF online[x] THEN vw[x].state ELSE "error"
      <4>1. vw[x] \in Watchers /\ vw[x].remote # o /\ offers'[x] = Tail(offers[x])
            /\ vw'[x] = [vw[x] EXCEPT !.remote = o, !.state = st]
        BY <1>0, <2>3, WatcherIs DEF AnswerReady, ViewersTyped, WatchTypes, o
      <4> HIDE DEF st
      <4> QED
        BY <4>1 DEF Watchers
    <3>2. up'[x] # up[x] => Goes(x, f)
      BY <2>3, <3>4, <3>5, <3>6 DEF Goes, f, o
    <3> QED
      BY <1>0, <1>s, <2>3, <3>2, <3>3 DEF f, o
  <2>4. ViewersStep(x)
    BY <1>4, ViewersStepIs
  <2>5. CASE Joins(x)
    BY <2>2, <2>5, JoinsIs DEF Join
  <2>6. CASE Leaves(x)
    BY <2>1, <2>6, LeavesIs DEF Leave, LeaveFrames
  <2>7. CASE AnswerReady(x)
    BY <2>3, <2>7 DEF AnswerReady
  <2>8. CASE AnswerFails(x) \/ PictureLost(x) \/ PictureArrives(x)
    BY <2>8, AnswerFailsIs DEF PictureLost, PictureArrives, linkVars
  <2> QED
    BY <2>4, <2>5, <2>6, <2>7, <2>8 DEF ViewersStep
<1>5. CASE SocketStep
  BY <1>0, <1>5, SocketsDo
<1> QED
  BY <1>1, <1>2, <1>3, <1>4, <1>5 DEF Next
\* What becomes of an entry.
EntryGoes(a, v) ==
  \/ entry'[a][v] = entry[a][v] \/ entry'[a][v] = NoEntry
  \/ /\ entry[a][v].phase = "offering" /\ entry'[a][v].conn = entry[a][v].conn
     /\ entry'[a][v].of = entry[a][v].of
     /\ entry'[a][v].phase = IF entry[a][v].of = 0 THEN "offered" ELSE "answered"
  \/ /\ \/ entry[a][v].phase = "offering" /\ entry'[a][v].phase = "offering"
        \/ entry[a][v].phase = "offered" /\ entry'[a][v].phase = "answered"
     /\ entry[a][v] # NoEntry /\ entry'[a][v].conn = entry[a][v].conn
     /\ down[a] # <<>> /\ down'[a] = Tail(down[a]) /\ entry'[a][v].of \in Nat
     /\ \E k \in Nat : /\ Head(down[a]) = Answer(v, entry'[a][v].of, k)
                       /\ Has(down[a], Answer(v, entry'[a][v].of, k))
  \/ /\ entry[a][v] = NoEntry /\ down[a] # <<>> /\ Head(down[a]) = ViewerJoined(v)
     /\ down'[a] = Tail(down[a]) /\ entry'[a][v].phase = "offering" /\ entry'[a][v].of = 0

LEMMA SharersEntry ==
  ASSUME SharersTyped, NEW x \in CanShare, SharersStep(x), NEW a \in CanShare, NEW v \in Sessions
  PROVE  EntryGoes(a, v)
<1>0. entry \in [CanShare -> [Sessions -> Entries]] /\ entry[x][v] \in Entries
  BY DEF SharersTyped, SharingTypeOK
<1>1. CASE a # x
  BY <1>1, SharersStepOf DEF EntryGoes
<1>2. CASE a = x
  <2>1. CASE UNCHANGED entry
    BY <2>1 DEF EntryGoes
  <2>2. ASSUME NEW m, NEW state, CleanUp(x, m, state) PROVE EntryGoes(a, v)
    BY <1>0, <1>2, <2>2 DEF CleanUp, NoEntries, EntryGoes
  <2>3. CASE Stop(x)
    BY <2>2, <2>3, StopIs DEF Stopped
  <2>4. ASSUME NEW n \in Starts, Begins(x, n) \/ PickerAnswers(x, n) PROVE UNCHANGED entry
    BY <2>4, BeginsIs DEF PickerAnswers
  <2>5. ASSUME NEW n \in Starts, PickerFails(x, n) PROVE EntryGoes(a, v)
    BY <2>2, <2>5 DEF PickerFails
  <2>6. ASSUME NEW n \in Starts, CaptureStarts(x, n) PROVE EntryGoes(a, v)
    BY <2>1, <2>2, <2>6 DEF CaptureStarts
  <2>7. ASSUME NEW n \in Starts, CaptureEnds(x, n) PROVE EntryGoes(a, v)
    BY <2>1, <2>2, <2>7, CaptureEndsIs DEF Stopped
  <2>8. ASSUME NEW w \in Sessions, ConnectionFails(x, w) PROVE EntryGoes(a, v)
    <3>1. entry' = [entry EXCEPT ![x] = [entry[x] EXCEPT ![w] = NoEntry]]
      BY <1>0, <2>8, ConnectionFailsIs DEF RemoveViewer
    <3> QED
      BY <1>0, <1>2, <3>1 DEF EntryGoes
  <2>9. ASSUME NEW w \in Sessions, OfferReady(x, w) PROVE EntryGoes(a, v)
    <3> DEFINE ph == IF entry[x][w].of = 0 THEN "offered" ELSE "answered"
    <3>1. entry' = [entry EXCEPT ![x] = [entry[x] EXCEPT ![w] = [entry[x][w] EXCEPT !.phase = ph]]]
          /\ entry[x][w].phase = "offering"
      BY <1>0, <2>9 DEF OfferReady
    <3>2. CASE w # v
      BY <1>0, <1>2, <3>1, <3>2 DEF EntryGoes
    <3>3. CASE w = v
      <4>1. entry'[x][v] = [entry[x][v] EXCEPT !.phase = ph]
        BY <1>0, <3>1, <3>3
      <4>2. /\ entry'[x][v].phase = ph /\ entry'[x][v].conn = entry[x][v].conn
            /\ entry'[x][v].of = entry[x][v].of
        BY <1>0, <4>1 DEF Entries
      <4> QED
        BY <1>2, <3>1, <3>3, <4>2 DEF EntryGoes
    <3> QED
      BY <3>2, <3>3
  <2> QED
    BY <2>1, <2>3, <2>4, <2>5, <2>6, <2>7, <2>8, <2>9 DEF SharersStep
<1> QED
  BY <1>1, <1>2

LEMMA HearsEntry ==
  ASSUME Typed, NEW x \in CanShare, Receive(x), NEW a \in CanShare, NEW v \in Sessions
  PROVE  EntryGoes(a, v)
<1>0. /\ SharersTyped /\ SharingTypeOK /\ FrameTypes /\ x \in Apps
      /\ entry \in [CanShare -> [Sessions -> Entries]] /\ entry[x][v] \in Entries
      /\ down \in [Apps -> Seq(DownFrames)]
  BY TypedIs, SharersAssumption DEF SharersTyped, SharingTypeOK, FrameTypes
<1> DEFINE f == Head(down[x])
<1>1. /\ down[x] # <<>> /\ SharingHears(x, f) /\ f \in DownFrames /\ down'[x] = Tail(down[x])
      /\ Has(down[x], f)
  BY <1>0, HeadOfDown, QueueShrinks DEF Receive
<1>2. CASE a # x
  BY <1>0, <1>1, <1>2, SharingHearsOf DEF EntryGoes
<1>3. CASE a = x
  <2>1. CASE UNCHANGED entry
    BY <2>1 DEF EntryGoes
  <2>2. CASE entry' = [entry EXCEPT ![x] = NoEntries]
    BY <1>0, <1>3, <2>2 DEF NoEntries, EntryGoes
  <2>3. CASE f.type = "viewer-left" /\ RemoveViewer(x, f.viewer)
    BY <1>0, <1>1, <1>3, <2>3, DownFrameHas DEF RemoveViewer, EntryGoes
  <2>4. CASE f.type = "viewer-joined" /\ entry[x][f.viewer] = NoEntry /\ AddViewer(x, f.viewer)
    <3> DEFINE n == sh[x].made + 1
    <3>1. f.viewer \in Sessions /\ entry' = [entry EXCEPT ![x][f.viewer] = Offering(n)]
      BY <1>1, <2>4, DownFrameHas DEF AddViewer
    <3>2. CASE v # f.viewer
      BY <1>0, <1>3, <3>1, <3>2 DEF EntryGoes
    <3>3. CASE v = f.viewer
      <4>1. entry'[x][v].phase = "offering" /\ entry'[x][v].of = 0
        BY <1>0, <3>1, <3>3 DEF Offering
      <4>2. f = ViewerJoined(v)
        BY <1>1, <2>4, <3>3 DEF DownFrames, Signals, ViewerJoined
      <4> QED
        BY <1>1, <1>3, <2>4, <3>3, <4>1, <4>2 DEF EntryGoes
    <3> QED
      BY <3>2, <3>3
  <2>5. CASE /\ f.type = "answer"
             /\ \E e \in AfterAnswer(entry[x][f.from], f, sh[x].listening) :
                  entry' = [entry EXCEPT ![x][f.from] = e]
    <3>1. PICK e \in AfterAnswer(entry[x][f.from], f, sh[x].listening) :
                  entry' = [entry EXCEPT ![x][f.from] = e]
      BY <2>5
    <3>2. f.from \in Sessions /\ f.conn \in Nat /\ f.by \in Nat /\ entry[x][f.from] \in Entries
      BY <1>0, <1>1, <2>5, DownFrameHas
    <3>3. CASE v # f.from
      BY <1>0, <1>3, <3>1, <3>2, <3>3 DEF EntryGoes
    <3>4. CASE v = f.from
      <4>1. entry'[x][v] = e
        BY <1>0, <3>1, <3>4
      <4>2. \/ e = NoEntry
            \/ /\ e.conn = entry[x][v].conn /\ e.of = f.conn /\ entry[x][v] # NoEntry
               /\ \/ entry[x][v].phase = "offering" /\ e.phase = "offering"
                  \/ entry[x][v].phase = "offered" /\ e.phase = "answered"
        BY <3>1, <3>2, <3>4, AnsweredIs
      <4>3. f = Answer(v, f.conn, f.by)
        BY <1>1, <2>5, <3>4 DEF DownFrames, Signals, Answer
      <4>5. f = Head(down[a]) /\ down[a] # <<>> /\ down'[a] = Tail(down[a]) /\ Has(down[a], f)
        BY <1>1, <1>3
      <4> HIDE DEF f
      <4> QED
        BY <1>3, <3>2, <4>1, <4>2, <4>3, <4>5 DEF EntryGoes
    <3> QED
      BY <3>3, <3>4
  <2> HIDE DEF f
  <2> QED
    BY <1>1, <2>1, <2>2, <2>3, <2>4, <2>5 DEF SharingHears
<1> QED
  BY <1>2, <1>3

LEMMA EntryMoves ==
  ASSUME Typed, Next, NEW a \in CanShare, NEW v \in Sessions
  PROVE  EntryGoes(a, v)
<1>0. TableTypes /\ FrameTypes /\ SharersTyped
  BY TypedIs
<1>1. CASE UNCHANGED entry
  BY <1>1 DEF EntryGoes
<1>2. ASSUME NEW x \in Apps, Receive(x) PROVE EntryGoes(a, v)
  <2>1. CASE x \in CanShare
    BY <1>2, <2>1, HearsEntry
  <2>2. CASE x \notin CanShare
    BY <1>1, <1>2, <2>2 DEF Receive
  <2> QED
    BY <2>1, <2>2
<1>3. ASSUME NEW x \in Apps, Serve(x) PROVE UNCHANGED entry
  BY <1>0, <1>3, ServePushes DEF shVars
<1>4. ASSUME NEW x \in CanShare, SharingStep(x) PROVE EntryGoes(a, v)
  BY <1>0, <1>4, SharersStepIs, SharersEntry
<1>5. ASSUME NEW x \in CanWatch, ViewingStep(x) PROVE UNCHANGED entry
  BY <1>5, ViewersStepIs DEF ViewersStep, shVars
<1>6. ASSUME UNCHANGED shVars PROVE UNCHANGED entry
  BY <1>6 DEF shVars
<1> QED
  BY <1>1, <1>2, <1>3, <1>4, <1>5, <1>6 DEF Next

\* What acceptOffer works on came in a frame; nobody listens, nothing is worked on.
LEMMA SameOffers ==
  ASSUME NEW q \in Seq(TakenOffers), NEW n \in Nat, NEW p \in TakenOffers, NEW o,
         Has(q \o [i \in 1 .. n |-> p], o)
  PROVE  (Has(q, o) \/ o = p) /\ q \o [i \in 1 .. n |-> p] \in Seq(TakenOffers)
<1> DEFINE t == [i \in 1 .. n |-> p]
<1>1. t \in Seq(TakenOffers) /\ Len(t) = n /\ \A i \in 1 .. n : t[i] = p
  OBVIOUS
<1> HIDE DEF t
<1>2. /\ q \o t \in Seq(TakenOffers) /\ Len(q \o t) = Len(q) + n
      /\ \A i \in 1 .. Len(q) + n : (q \o t)[i] = IF i <= Len(q) THEN q[i] ELSE t[i - Len(q)]
      /\ Len(q) \in Nat
  BY <1>1
<1>3. PICK i \in 1 .. Len(q) + n : (q \o t)[i] = o
  BY <1>2 DEF Has, t
<1>4. CASE i <= Len(q)
  <2>1. q[i] = o /\ i \in 1 .. Len(q)
    BY <1>2, <1>3, <1>4
  <2> QED
    BY <1>2, <2>1 DEF Has, t
<1>5. CASE ~(i <= Len(q))
  <2>1. i - Len(q) \in 1 .. n
    BY <1>2, <1>3, <1>5
  <2> QED
    BY <1>1, <1>2, <1>3, <1>5, <2>1 DEF t
<1> QED
  BY <1>4, <1>5
LEMMA OffersMove ==
  ASSUME Typed, Next, NEW b \in CanWatch
  PROVE  /\ \A o \in TakenOffers : Has(offers'[b], o) => Has(offers[b], o) \/ Has(down[b], OfferOf(o))
         /\ (vw[b].listening = 0 => offers[b] = <<>>) => (vw'[b].listening = 0 => offers'[b] = <<>>)
<1> DEFINE Fine == /\ \A o \in TakenOffers : Has(offers'[b], o) => Has(offers[b], o) \/ Has(down[b], OfferOf(o))
                   /\ (vw[b].listening = 0 => offers[b] = <<>>) => (vw'[b].listening = 0 => offers'[b] = <<>>)
<1>0. /\ TableTypes /\ FrameTypes /\ ViewersTyped /\ SharersTyped /\ b \in Apps /\ WatchTypes
      /\ vw \in [CanWatch -> Watchers] /\ vw[b] \in Watchers /\ vw[b].listening \in Nat
      /\ offers \in [CanWatch -> Seq(TakenOffers)] /\ offers[b] \in Seq(TakenOffers)
  BY TypedIs, WatchersAssumption, WatcherIs DEF ViewersTyped, WatchTypes
<1>1. CASE vw'[b] = vw[b] /\ offers'[b] = offers[b]
  BY <1>1
<1>2. CASE offers'[b] = <<>>
  BY <1>2, EmptyQueue
<1>3. ASSUME offers[b] # <<>>, offers'[b] = Tail(offers[b]), vw'[b].listening = vw[b].listening
      PROVE  Fine
  BY <1>0, <1>3, QueueShrinks
<1>4. ASSUME NEW x \in Apps, Receive(x) PROVE Fine
  <2> DEFINE f == Head(down[x])
  <2>1. CASE x \notin CanWatch
    BY <1>1, <1>4, <2>1 DEF Receive
  <2>2. CASE x \in CanWatch
    <3>1. ViewingHears(x, f) /\ f \in DownFrames /\ down[x] # <<>> /\ Has(down[x], f)
      BY <1>0, <1>4, <2>2, HeadOfDown, QueueShrinks DEF Receive
    <3>2. CASE x # b
      <4>1. vw'[b] = vw[b] /\ offers'[b] = offers[b]
        BY <1>0, <2>2, <3>1, <3>2 DEF ViewingHears, TakeOffer, RoomOver, Refused, CleanUpWatch
      <4> QED
        BY <1>1, <4>1
    <3>3. CASE x = b /\ UNCHANGED <<vw, offers>>
      BY <1>1, <3>3
    <3>4. CASE x = b /\ (RoomOver(b) \/ Refused(b))
      <4>1. offers'[b] = <<>>
        BY <1>0, <3>4 DEF RoomOver, Refused, CleanUpWatch
      <4> QED
        BY <1>2, <4>1
    <3>5. CASE x = b /\ f.type = "offer" /\ vw[b].listening # 0 /\ TakeOffer(b, f)
      <4> DEFINE p == [from |-> f.from, conn |-> f.conn] m == vw[b].made + 1
      <4>0. f \in DownFrames /\ f.type = "offer"
        BY <3>1, <3>5
      <4> HIDE DEF f
      <4>1. p \in TakenOffers /\ \A o \in TakenOffers : p = o <=> f = OfferOf(o)
        <5>1. f.from \in Sessions /\ f.conn \in Nat
          BY <4>0, DownFrameHas
        <5>2. \A o \in TakenOffers : p = o <=> f = OfferOf(o)
          BY <4>0, OffersAre
        <5> QED
          BY <5>1, <5>2 DEF TakenOffers
      <4>2. offers'[b] = offers[b] \o [i \in 1 .. vw[b].listening |-> p]
        BY <1>0, <3>5 DEF TakeOffer
      <4>3. vw'[b] = vw[b] \/ vw'[b] = [vw[b] EXCEPT !.conn = m, !.made = m]
        BY <1>0, <3>5 DEF TakeOffer
      <4> HIDE DEF p, m
      <4>4. vw'[b].listening = vw[b].listening
        BY <1>0, <4>3 DEF Watchers
      <4>5. ASSUME NEW o \in TakenOffers, Has(offers'[b], o) PROVE Has(offers[b], o) \/ Has(down[b], OfferOf(o))
        <5> DEFINE l == vw[b].listening q == offers[b]
        <5>0. Has(q \o [i \in 1 .. l |-> p], o) /\ l \in Nat /\ q \in Seq(TakenOffers) /\ p \in TakenOffers
          BY <1>0, <4>1, <4>2, <4>5
        <5> HIDE DEF l, q
        <5>2. Has(q, o) \/ o = p
          BY <5>0, SameOffers
        <5>1. Has(offers[b], o) \/ o = p
          BY <5>2 DEF q
        <5> QED
          BY <3>1, <3>5, <4>1, <5>1
      <4> QED
        BY <3>5, <4>4, <4>5
    <3> QED
      BY <3>1, <3>2, <3>3, <3>4, <3>5 DEF ViewingHears
  <2> QED
    BY <2>1, <2>2
<1>5. ASSUME NEW x \in CanWatch, ViewingStep(x) PROVE Fine
  <2>1. CASE x # b
    BY <1>0, <1>1, <1>5, <2>1, ViewersStepIs, ViewersStepOf
  <2>2. CASE x = b
    <3>1. ASSUME NEW r \in RoomIds, Join(b, r) PROVE Fine
      <4> DEFINE l == vw[b].listening + 1
      <4>1. /\ vw'[b] = [vw[b] EXCEPT !.state = "connecting", !.room = r, !.listening = l, !.subscribed = TRUE]
            /\ offers'[b] = offers[b]
        BY <1>0, <3>1 DEF Join
      <4>2. l # 0
        BY <1>0
      <4> HIDE DEF l
      <4>3. vw'[b].listening # 0
        BY <1>0, <4>1, <4>2 DEF Watchers
      <4> QED
        BY <4>1, <4>3
    <3>2. ASSUME Leave(b) PROVE Fine
      <4>1. offers'[b] = <<>>
        BY <1>0, <3>2 DEF Leave, CleanUpWatch
      <4> QED
        BY <1>2, <4>1
    <3>3. ASSUME AnswerReady(b) PROVE Fine
      <4> DEFINE p == Head(offers[b]) st == IF online[b] THEN vw[b].state ELSE "error"
      <4>1. offers[b] # <<>> /\ offers'[b] = Tail(offers[b])
            /\ vw'[b] = [vw[b] EXCEPT !.remote = p, !.state = st]
        BY <1>0, <3>3 DEF AnswerReady
      <4> HIDE DEF p, st
      <4>2. vw'[b].listening = vw[b].listening
        BY <1>0, <4>1 DEF Watchers
      <4> QED
        BY <1>3, <4>1, <4>2
    <3>4. ASSUME AnswerFails(b) PROVE Fine
      <4>1. offers[b] # <<>> /\ offers'[b] = Tail(offers[b]) /\ vw'[b] = [vw[b] EXCEPT !.state = "error"]
        BY <1>0, <3>4, AnswerFailsIs
      <4>2. vw'[b].listening = vw[b].listening
        BY <1>0, <4>1 DEF Watchers
      <4> QED
        BY <1>3, <4>1, <4>2
    <3>5. ASSUME PictureLost(b) \/ PictureArrives(b) PROVE Fine
      <4>1. /\ offers'[b] = offers[b]
            /\ \E st : vw'[b] = [vw[b] EXCEPT !.state = st]
        BY <1>0, <3>5 DEF PictureLost, PictureArrives
      <4>2. vw'[b].listening = vw[b].listening
        BY <1>0, <4>1 DEF Watchers
      <4> QED
        BY <4>1, <4>2
    <3> QED
      BY <1>5, <2>2, <3>1, <3>2, <3>3, <3>4, <3>5, ViewersStepIs, JoinsIs, LeavesIs DEF ViewersStep
  <2> QED
    BY <2>1, <2>2
<1>6. ASSUME UNCHANGED vwVars PROVE Fine
  BY <1>1, <1>6 DEF vwVars
<1>7. ASSUME NEW x \in Apps, Serve(x) PROVE UNCHANGED vwVars
  BY <1>0, <1>7, ServePushes
<1>8. ASSUME NEW x \in CanShare, SharingStep(x) PROVE UNCHANGED vwVars
  BY <1>0, <1>8, SharersStepIs, SharersStepFrames
<1> HIDE DEF Fine
<1>9. Fine
  BY <1>4, <1>5, <1>6, <1>7, <1>8 DEF Next
<1> QED
  BY <1>9 DEF Fine
LEMMA SessionsMove ==
  ASSUME Typed, Next
  PROVE  \/ UNCHANGED <<sess, used>>
         \/ \E x \in Apps, s \in Sessions :
              /\ ~online[x] /\ s \notin used /\ used' = used \union {s}
              /\ sess' = [sess EXCEPT ![x] = s]
              /\ UNCHANGED <<rmVars, gone, up, down, shVars, vwVars>>
<1>0. TableTypes /\ FrameTypes /\ SharersTyped
  BY TypedIs
<1>1. ASSUME NEW x \in Apps, Receive(x) PROVE UNCHANGED <<sess, used>>
  BY <1>1 DEF Receive
<1>2. ASSUME NEW x \in Apps, Serve(x) PROVE UNCHANGED <<sess, used>>
  BY <1>0, <1>2, ServePushes
<1>3. ASSUME NEW x \in CanShare, SharingStep(x) PROVE UNCHANGED <<sess, used>>
  BY <1>3, SharersStepIs, SharersSend
<1>4. ASSUME NEW x \in CanWatch, ViewingStep(x) PROVE UNCHANGED <<sess, used>>
  BY <1>4, ViewersStepIs, ViewersSend
<1> QED
  BY <1>0, <1>1, <1>2, <1>3, <1>4, SocketsDo DEF Next
-----------------------------------------------------------------------------
(***************************************************************************)
(* A session is named only where it has been: an application that comes    *)
(* back is unknown to every connection and every frame.  A frame names its *)
(* sender as the server does, and nobody answers what he does not hear.    *)
(***************************************************************************)
NamedInUse ==
  /\ \A a \in CanShare, v \in Sessions : entry[a][v] # NoEntry => v \in used
  /\ \A y \in Apps, s \in Sessions : Has(down[y], ViewerJoined(s)) => s \in used
  /\ \A y \in Apps, s \in Sessions, c \in Nat : Has(down[y], Offer(s, c)) => s \in used
  /\ \A b \in CanWatch, o \in TakenOffers : Has(offers[b], o) => o.from \in used
SentInOwnName ==
  \A y \in Apps, t \in Sessions, s \in Sessions, c \in Nat :
    /\ Has(up[y], To(t, Offer(s, c))) => s = sess[y]
    /\ \A k \in Nat : Has(up[y], To(t, Answer(s, c, k))) => s = sess[y] /\ t \in used
DeafTakeNothing == \A b \in CanWatch : vw[b].listening = 0 => offers[b] = <<>>
NamesInv == NamedInUse /\ SentInOwnName /\ DeafTakeNothing

LEMMA FramesDiffer ==
  /\ \A s, t, c, k, u, d : ViewerJoined(s) # Offer(t, c) /\ ViewerJoined(s) # Answer(t, c, k)
                           /\ Offer(s, c) # Answer(t, d, k)
  /\ \A r, t, m : JoinMsg(r) # To(t, m)
  /\ \A t, m : To(t, m) \notin {Plain("create-room"), Plain("leave-room")}
  /\ \A r : JoinMsg(r) \notin {Plain("create-room"), Plain("leave-room")}
BY DEF ViewerJoined, Offer, Answer, JoinMsg, To, Plain
LEMMA FramesEqual ==
  /\ \A s, t : ViewerJoined(s) = ViewerJoined(t) => s = t
  /\ \A s, t, c, d : Offer(s, c) = Offer(t, d) => s = t /\ c = d
  /\ \A s, t, c, d, j, k : Answer(s, c, j) = Answer(t, d, k) => s = t /\ c = d /\ j = k
  /\ \A s, t, m, n : To(s, m) = To(t, n) => s = t /\ m = n
BY DEF ViewerJoined, Offer, Answer, To
LEMMA KindsAre ==
  /\ \A s : ViewerJoined(s).type = "viewer-joined"
  /\ \A s, c : Offer(s, c).type = "offer"
  /\ \A s, c, k : Answer(s, c, k).type = "answer"
  /\ \A t, m : To(t, m).type = "signal"
  /\ \A r : JoinMsg(r).type = "join-room"
  /\ Plain("create-room").type = "create-room" /\ Plain("leave-room").type = "leave-room"
BY DEF ViewerJoined, Offer, Answer, JoinMsg, To, Plain

\* A frame that is there was there, or has been sent or pushed.
LEMMA DownHas ==
  ASSUME Typed, Next, NEW y \in Apps, NEW g, Has(down'[y], g)
  PROVE  Has(down[y], g) \/ Comes(y, g)
<1>1. down[y] \in Seq(DownFrames)
  BY TypedIs DEF FrameTypes
<1>2. CASE down'[y] = down[y] \/ down'[y] = <<>>
  BY <1>2, EmptyQueue
<1>3. CASE down[y] # <<>> /\ down'[y] = Tail(down[y])
  BY <1>1, <1>3, QueueShrinks
<1>4. ASSUME NEW f \in DownFrames, down'[y] = down[y] \o <<f>>, Comes(y, f)
      PROVE  Has(down[y], g) \/ Comes(y, g)
  <2>1. Has(down[y], g) \/ f = g
    BY <1>1, <1>4, QueueGrows
  <2> QED
    BY <1>4, <2>1
<1> QED
  BY <1>2, <1>3, <1>4, DownMoves
LEMMA UpHas ==
  ASSUME Typed, Next, NEW y \in Apps, NEW g, Has(up'[y], g)
  PROVE  Has(up[y], g) \/ Goes(y, g)
<1>1. up[y] \in Seq(UpFrames)
  BY TypedIs DEF FrameTypes
<1>2. ASSUME NEW f \in UpFrames, up'[y] = up[y] \o <<f>> \/ up'[y] = up[y] \o <<f, f>>, Goes(y, f)
      PROVE  Has(up[y], g) \/ Goes(y, g)
  <2>1. Has(up[y], g) \/ f = g
    BY <1>1, <1>2, QueueGrows, QueueGrowsTwice
  <2> QED
    BY <1>2, <2>1
<1>3. CASE up'[y] = up[y] \/ up'[y] = <<>>
  BY <1>3, EmptyQueue
<1>4. CASE up[y] # <<>> /\ up'[y] = Tail(up[y])
  BY <1>1, <1>4, QueueShrinks
<1> QED
  BY <1>2, <1>3, <1>4, UpMoves

\* A signal that comes was sent, a viewer-joined that comes was asked for.
LEMMA SignalComes ==
  ASSUME Typed, NEW y \in Apps, NEW g, Comes(y, g), g.type \in {"offer", "answer"}
  PROVE  \E x \in Apps : Has(up[x], To(sess[y], g))
<1>1. PICK x \in Apps : up[x] # <<>> /\ Given(x, y, g)
  BY DEF Comes
<1>2. Head(up[x]) = To(sess[y], g) /\ up[x] \in Seq(UpFrames)
  BY <1>1, KindsAre, TypedIs DEF Given, FrameTypes
<1> QED
  BY <1>1, <1>2, QueueShrinks
LEMMA JoinedComes ==
  ASSUME Typed, NEW y \in Apps, NEW s, Comes(y, ViewerJoined(s))
  PROVE  \E x \in Apps : Serve(x) /\ up[x] # <<>> /\ Head(up[x]).type = "join-room" /\ s = sess[x]
<1>1. PICK x \in Apps : Serve(x) /\ up[x] # <<>> /\ Given(x, y, ViewerJoined(s))
  BY KindsAre DEF Comes
<1>2. Head(up[x]) # To(sess[y], ViewerJoined(s))
  <2>1. Head(up[x]) \in UpFrames
    BY <1>1, HeadOfUp, TypedIs
  <2>2. Head(up[x]).type = "signal" => Head(up[x]).signal \in Signals
    BY <2>1, UpFrameHas
  <2>3. ViewerJoined(s) \notin Signals
    BY DEF Signals, ViewerJoined
  <2> QED
    BY <2>2, <2>3 DEF To
<1> QED
  BY <1>1, <1>2, KindsAre, FramesEqual DEF Given
LEMMA OfferGoes ==
  ASSUME NEW y, NEW t, NEW s, NEW c, Goes(y, To(t, Offer(s, c)))
  PROVE  /\ y \in CanShare /\ s = sess[y] /\ entry[y][t].phase = "offering" /\ c = entry[y][t].conn
         /\ entry'[y][t].phase # "offering"
<1> DEFINE f == To(t, Offer(s, c)) o == Head(offers[y])
<1>1. /\ f # Plain("leave-room") /\ f # Plain("create-room") /\ \A r \in RoomIds : f # JoinMsg(r)
      /\ f # To(o.from, Answer(sess[y], o.conn, vw[y].conn))
  BY FramesDiffer, FramesEqual
<1>2. /\ y \in CanShare
      /\ \E v \in Sessions : /\ entry[y][v].phase = "offering"
                             /\ entry'[y][v].phase \in {"offered", "answered"}
                             /\ f = To(v, Offer(sess[y], entry[y][v].conn))
  BY <1>1, Zenon DEF Goes
<1> HIDE DEF f
<1>3. PICK v \in Sessions : /\ entry[y][v].phase = "offering"
                           /\ entry'[y][v].phase \in {"offered", "answered"}
                           /\ f = To(v, Offer(sess[y], entry[y][v].conn))
  BY <1>2
<1>4. t = v /\ s = sess[y] /\ c = entry[y][v].conn
  BY <1>3, FramesEqual DEF f
<1> QED
  BY <1>2, <1>3, <1>4
LEMMA AnswerGoes ==
  ASSUME NEW y, NEW t, NEW s, NEW c, NEW k, Goes(y, To(t, Answer(s, c, k)))
  PROVE  /\ y \in CanWatch /\ s = sess[y] /\ offers[y] # <<>>
         /\ t = Head(offers[y]).from /\ c = Head(offers[y]).conn
         /\ vw[y].remote # Head(offers[y]) /\ vw'[y].remote = Head(offers[y]) /\ offers'[y] = Tail(offers[y])
<1> DEFINE f == To(t, Answer(s, c, k)) o == Head(offers[y])
<1>1. /\ f # Plain("leave-room") /\ f # Plain("create-room") /\ \A r \in RoomIds : f # JoinMsg(r)
      /\ \A v \in Sessions : f # To(v, Offer(sess[y], entry[y][v].conn))
  BY FramesDiffer, FramesEqual
<1>2. /\ y \in CanWatch /\ offers[y] # <<>> /\ f = To(o.from, Answer(sess[y], o.conn, vw[y].conn))
      /\ vw[y].remote # o /\ vw'[y].remote = o /\ offers'[y] = Tail(offers[y])
  BY <1>1, Zenon DEF Goes
<1> QED
  BY <1>2, FramesEqual
\* A signal is sent once, and an offer that is sent is one no longer being made.
LEMMA SignalGoes ==
  ASSUME NEW y, NEW t \in Sessions, NEW m, Goes(y, To(t, m))
  PROVE  /\ up'[y] = up[y] \o <<To(t, m)>>
         /\ \A s, c : m = Offer(s, c) => entry'[y][t].phase \in {"offered", "answered"}
<1> DEFINE f == To(t, m) o == Head(offers[y])
<1>1. f # Plain("leave-room") /\ f # Plain("create-room") /\ \A r \in RoomIds : f # JoinMsg(r)
  BY FramesDiffer
<1>2. \/ /\ up'[y] = up[y] \o <<f>>
         /\ \E v \in Sessions : /\ entry'[y][v].phase \in {"offered", "answered"}
                                /\ f = To(v, Offer(sess[y], entry[y][v].conn))
      \/ up'[y] = up[y] \o <<f>> /\ f = To(o.from, Answer(sess[y], o.conn, vw[y].conn))
  BY <1>1, Zenon DEF Goes
<1>3. \A s, c, r, d, k : Offer(s, c) # Answer(r, d, k)
  BY FramesDiffer
<1> QED
  BY <1>2, <1>3, FramesEqual

LEMMA NamesStep ==
  ASSUME Typed, SessionsInv, NamesInv, Next
  PROVE  NamesInv'
<1>0. /\ TableTypes /\ FrameTypes /\ CanShare \subseteq Apps /\ CanWatch \subseteq Apps
      /\ sess \in [Apps -> Sessions] /\ up \in [Apps -> Seq(UpFrames)] /\ ViewersTyped
  BY TypedIs, SharersAssumption, WatchersAssumption DEF TableTypes, FrameTypes
<1>1. DeafTakeNothing'
  BY OffersMove DEF NamesInv, DeafTakeNothing
<1>2. used \subseteq used' /\ \A y \in Apps : sess'[y] = sess[y] \/ up'[y] = <<>>
  BY <1>0, SessionsMove DEF SessionsInv
<1>3. \A y \in Apps : sess[y] \in used
  BY DEF SessionsInv
<1>4. ASSUME NEW a \in CanShare, NEW v \in Sessions, entry'[a][v] # NoEntry PROVE v \in used
  <2>1. entry[a][v] # NoEntry \/ Has(down[a], ViewerJoined(v))
    <3>1. entry[a][v].phase = "offering" => entry[a][v] # NoEntry
      BY DEF NoEntry
    <3>2. down[a] # <<>> => Has(down[a], Head(down[a]))
      BY <1>0, HeadOfDown, QueueShrinks
    <3> QED
      BY <1>4, <3>1, <3>2, EntryMoves DEF EntryGoes
  <2> QED
    BY <1>0, <2>1 DEF NamesInv, NamedInUse
<1>5. ASSUME NEW y \in Apps, NEW s \in Sessions, Has(down'[y], ViewerJoined(s)) PROVE s \in used
  <2>1. Has(down[y], ViewerJoined(s)) \/ Comes(y, ViewerJoined(s))
    BY <1>5, DownHas
  <2> QED
    BY <1>3, <2>1, JoinedComes DEF NamesInv, NamedInUse
<1>6. ASSUME NEW y \in Apps, NEW s \in Sessions, NEW c \in Nat, Has(down'[y], Offer(s, c)) PROVE s \in used
  <2>1. Has(down[y], Offer(s, c)) \/ Comes(y, Offer(s, c))
    BY <1>6, DownHas
  <2>2. CASE Comes(y, Offer(s, c))
    <3>1. PICK x \in Apps : Has(up[x], To(sess[y], Offer(s, c)))
      BY <2>2, SignalComes, KindsAre
    <3>2. sess[y] \in Sessions
      BY <1>0
    <3> QED
      BY <1>3, <3>1, <3>2 DEF NamesInv, SentInOwnName
  <2> QED
    BY <2>1, <2>2 DEF NamesInv, NamedInUse
<1>7. ASSUME NEW b \in CanWatch, NEW o \in TakenOffers, Has(offers'[b], o) PROVE o.from \in used
  <2>1. Has(offers[b], o) \/ Has(down[b], OfferOf(o))
    BY <1>7, OffersMove
  <2>2. o.from \in Sessions /\ o.conn \in Nat /\ b \in Apps
    BY <1>0 DEF TakenOffers
  <2> QED
    BY <2>1, <2>2 DEF NamesInv, NamedInUse, OfferOf
<1>8. NamedInUse'
  BY <1>2, <1>4, <1>5, <1>6, <1>7 DEF NamedInUse, Has
<1>9. ASSUME NEW y \in Apps, NEW t \in Sessions, NEW s \in Sessions, NEW c \in Nat, Has(up'[y], To(t, Offer(s, c)))
      PROVE  s = sess'[y]
  <2>1. sess'[y] = sess[y]
    BY <1>2, <1>9, EmptyQueue
  <2>2. Has(up[y], To(t, Offer(s, c))) \/ Goes(y, To(t, Offer(s, c)))
    BY <1>9, UpHas
  <2> QED
    BY <2>1, <2>2, OfferGoes DEF NamesInv, SentInOwnName
<1>10. ASSUME NEW y \in Apps, NEW t \in Sessions, NEW s \in Sessions, NEW c \in Nat, NEW k \in Nat,
              Has(up'[y], To(t, Answer(s, c, k)))
       PROVE  s = sess'[y] /\ t \in used'
  <2>1. sess'[y] = sess[y]
    BY <1>2, <1>10, EmptyQueue
  <2>2. Has(up[y], To(t, Answer(s, c, k))) \/ Goes(y, To(t, Answer(s, c, k)))
    BY <1>10, UpHas
  <2>3. CASE Goes(y, To(t, Answer(s, c, k)))
    <3> DEFINE o == Head(offers[y])
    <3>1. y \in CanWatch /\ s = sess[y] /\ offers[y] # <<>> /\ t = o.from
      BY <2>3, AnswerGoes
    <3>2. o \in TakenOffers /\ Has(offers[y], o)
      <4>1. offers[y] \in Seq(TakenOffers)
        BY <1>0, <3>1, WatcherIs
      <4> QED
        BY <3>1, <4>1, QueueShrinks
    <3> HIDE DEF o
    <3>3. o.from \in used
      BY <3>1, <3>2 DEF NamesInv, NamedInUse
    <3> QED
      BY <1>2, <2>1, <3>1, <3>3
  <2> QED
    BY <1>2, <2>1, <2>2, <2>3 DEF NamesInv, SentInOwnName
<1>11. SentInOwnName'
  BY <1>9, <1>10 DEF SentInOwnName, Has
<1> QED
  BY <1>1, <1>8, <1>11 DEF NamesInv

LEMMA NamesInit == Init => NamesInv
<1> SUFFICES ASSUME Init PROVE NamesInv
  OBVIOUS
<1>0. CanShare \subseteq Apps /\ CanWatch \subseteq Apps
  BY SharersAssumption, WatchersAssumption
<1>1. /\ \A y \in Apps : up[y] = <<>> /\ down[y] = <<>>
      /\ \A b \in CanWatch : offers[b] = <<>>
      /\ \A a \in CanShare, v \in Sessions : entry[a][v] = NoEntry
  BY <1>0 DEF Init, LinkInit, SharingInit, ViewingInit, NoEntries
<1> QED
  BY <1>1, EmptyQueue DEF NamesInv, NamedInUse, SentInOwnName, DeafTakeNothing
LEMMA NamesKept == NamesInv /\ UNCHANGED shareVars => NamesInv'
BY DEF NamesInv, NamedInUse, SentInOwnName, DeafTakeNothing, Has, shareVars, linkVars, shVars, vwVars
-----------------------------------------------------------------------------
(***************************************************************************)
(* An offer and its answer, on their way round between a's connection and  *)
(* b.  A viewer that comes back only once its last stay is settled finds   *)
(* none on the way when its new connection begins: so all that goes round  *)
(* belongs to the connection there is.                                     *)
(***************************************************************************)
Calm(b) == Spared({b}, {"quick rejoin"})

UnderWay(a, b, c, k) ==
  \/ Has(up[a], To(sess[b], Offer(sess[a], c)))
  \/ Has(down[b], Offer(sess[a], c))
  \/ Has(offers[b], [from |-> sess[a], conn |-> c])
  \/ Has(up[b], To(sess[a], Answer(sess[b], c, k)))
Returned(a, b, c, k) == Has(down[a], Answer(sess[b], c, k))
NoneUnderWay(a, b) == \A c, k \in Nat : ~UnderWay(a, b, c, k)

Meets(a, b) ==
  entry[a][sess[b]] # NoEntry =>
    /\ \A c, k \in Nat : UnderWay(a, b, c, k) \/ Returned(a, b, c, k) => c = entry[a][sess[b]].conn
    /\ entry[a][sess[b]].phase = "answered" => entry[a][sess[b]].of = entry[a][sess[b]].conn
    /\ entry[a][sess[b]].phase = "offering" =>
         /\ entry[a][sess[b]].of = 0
         /\ \A c, k \in Nat : ~UnderWay(a, b, c, k) /\ ~Returned(a, b, c, k)

\* The sharer is to hear that b joined: only old answers are before that.
Told(a, b) == Has(down[a], ViewerJoined(sess[b]))
Behind(q, v) ==
  \A i, j \in 1 .. Len(q) : i < j /\ q[i] = ViewerJoined(v) =>
    q[j] # ViewerJoined(v) /\ \A c, k \in Nat : q[j] # Answer(v, c, k)
Awaited(a, b) == Told(a, b) => entry[a][sess[b]] = NoEntry /\ NoneUnderWay(a, b)

\* b has asked to join, and the server has not heard it.
Asks(b) == \E r \in RoomIds : Has(up[b], JoinMsg(r))
OnceJoin(q) == \A i, j \in 1 .. Len(q) : q[i].type = "join-room" /\ q[j].type = "join-room" => i = j
Asking(a, b) == Asks(b) => entry[a][sess[b]] = NoEntry /\ NoneUnderWay(a, b) /\ ~Told(a, b)

MeetsInOrder(a, b) ==
  Meets(a, b) /\ Awaited(a, b) /\ Behind(down[a], sess[b]) /\ OnceJoin(up[b]) /\ Asking(a, b)
MeetInv == \A a \in CanShare, b \in CanWatch : Calm(b) => MeetsInOrder(a, b)

LEMMA BehindQueues ==
  ASSUME NEW S, NEW q \in Seq(S), NEW v, Behind(q, v)
  PROVE  /\ q # <<>> => Behind(Tail(q), v)
         /\ q # <<>> /\ Head(q) = ViewerJoined(v) =>
              ~Has(Tail(q), ViewerJoined(v)) /\ \A c, k \in Nat : ~Has(Tail(q), Answer(v, c, k))
         /\ \A x \in S :
              (Has(q, ViewerJoined(v)) => x # ViewerJoined(v) /\ \A c, k \in Nat : x # Answer(v, c, k))
                => Behind(q \o <<x>>, v)
<1>1. ASSUME q # <<>>
      PROVE  /\ Behind(Tail(q), v)
             /\ Head(q) = ViewerJoined(v) =>
                  ~Has(Tail(q), ViewerJoined(v)) /\ \A c, k \in Nat : ~Has(Tail(q), Answer(v, c, k))
  <2> DEFINE t == Tail(q)
  <2>1. /\ Len(t) + 1 = Len(q) /\ Head(q) = q[1] /\ Len(q) \in Nat /\ Len(t) \in Nat
        /\ \A i \in 1 .. Len(t) : t[i] = q[i + 1] /\ i + 1 \in 1 .. Len(q) /\ 1 < i + 1
        /\ 1 \in 1 .. Len(q)
    BY <1>1
  <2> HIDE DEF t
  <2>2. Behind(t, v)
    <3> SUFFICES ASSUME NEW i \in 1 .. Len(t), NEW j \in 1 .. Len(t), i < j, t[i] = ViewerJoined(v)
                 PROVE  t[j] # ViewerJoined(v) /\ \A c, k \in Nat : t[j] # Answer(v, c, k)
      BY DEF Behind
    <3>1. i + 1 < j + 1
      OBVIOUS
    <3> QED
      BY <2>1, <3>1 DEF Behind
  <2>3. ASSUME Head(q) = ViewerJoined(v), NEW i \in 1 .. Len(t)
        PROVE  t[i] # ViewerJoined(v) /\ \A c, k \in Nat : t[i] # Answer(v, c, k)
    BY <2>1, <2>3 DEF Behind
  <2> QED
    BY <2>2, <2>3 DEF Has, t
<1>2. ASSUME NEW x \in S,
             Has(q, ViewerJoined(v)) => x # ViewerJoined(v) /\ \A c, k \in Nat : x # Answer(v, c, k)
      PROVE  Behind(q \o <<x>>, v)
  <2> DEFINE r == q \o <<x>>
  <2>1. /\ Len(r) = Len(q) + 1 /\ r[Len(q) + 1] = x /\ Len(q) \in Nat
        /\ \A i \in 1 .. Len(q) : r[i] = q[i]
    OBVIOUS
  <2> HIDE DEF r
  <2> SUFFICES ASSUME NEW i \in 1 .. Len(r), NEW j \in 1 .. Len(r), i < j, r[i] = ViewerJoined(v)
               PROVE  r[j] # ViewerJoined(v) /\ \A c, k \in Nat : r[j] # Answer(v, c, k)
    BY DEF Behind, r
  <2>2. i \in 1 .. Len(q) /\ q[i] = ViewerJoined(v)
    BY <2>1
  <2>3. CASE j \in 1 .. Len(q)
    BY <2>1, <2>2, <2>3 DEF Behind
  <2>4. CASE j = Len(q) + 1
    BY <1>2, <2>1, <2>2, <2>4 DEF Has
  <2> QED
    BY <2>1, <2>3, <2>4
<1> QED
  BY <1>1, <1>2
LEMMA BehindNothing == \A v : Behind(<<>>, v)
BY DEF Behind
LEMMA BehindNone == \A q, v : ~Has(q, ViewerJoined(v)) => Behind(q, v)
BY DEF Behind, Has

LEMMA JoinsSettled ==
  ASSUME NEW b \in CanWatch, Joins(b), Calm(b)'
  PROVE  ~Unsettled(b)
<1> SUFFICES ASSUME Unsettled(b) PROVE FALSE
  OBVIOUS
<1> DEFINE ms == OnlyIf(Unsettled(b), "quick rejoin") \union OnlyIf(Sharing(b), "both roles")
<1>1. MishapsAllowed({b}, ms) /\ "quick rejoin" \in ms
  <2>1. MishapsAllowed({b}, ms)
    BY Zenon DEF Joins
  <2>2. "quick rejoin" \in ms
    BY Zenon DEF OnlyIf
  <2> QED
    BY <2>1, <2>2
<1>2. "quick rejoin" \in {"quick rejoin"}
  BY Zenon
<1> HIDE DEF ms
<1> QED
  BY <1>1, <1>2, SparedIsNotRecorded, Zenon DEF Calm

\* What being settled comes to.
LEMMA SettledIs ==
  ASSUME Typed, NamesInv, NEW a \in CanShare, NEW b \in CanWatch, ~Unsettled(b)
  PROVE  up[b] = <<>> /\ entry[a][sess[b]] = NoEntry /\ NoneUnderWay(a, b) /\ ~Told(a, b)
<1>1. /\ up[b] = <<>> /\ down[b] = <<>> /\ offers[b] = <<>> /\ entry[a][sess[b]] = NoEntry
      /\ \A i \in 1 .. Len(up[a]) : ~(up[a][i].type = "signal" /\ up[a][i].to = sess[b])
      /\ \A i \in 1 .. Len(down[a]) : down[a][i] # ViewerJoined(sess[b])
  BY DEF Unsettled, NamesInv, DeafTakeNothing
<1>2. \A c : ~Has(up[a], To(sess[b], Offer(sess[a], c)))
  BY <1>1 DEF Has, To
<1> QED
  BY <1>1, <1>2, EmptyQueue DEF NoneUnderWay, UnderWay, Told, Has
LEMMA OnceQueues ==
  ASSUME NEW S, NEW q \in Seq(S), OnceJoin(q)
  PROVE  /\ q # <<>> => OnceJoin(Tail(q))
         /\ q # <<>> /\ Head(q).type = "join-room" => \A r : ~Has(Tail(q), JoinMsg(r))
         /\ \A x \in S : x.type # "join-room" => OnceJoin(q \o <<x>>) /\ OnceJoin(q \o <<x, x>>)
<1>1. ASSUME q # <<>>
      PROVE  /\ OnceJoin(Tail(q))
             /\ Head(q).type = "join-room" => \A r : ~Has(Tail(q), JoinMsg(r))
  <2> DEFINE t == Tail(q)
  <2>1. /\ Head(q) = q[1] /\ 1 \in 1 .. Len(q) /\ Len(t) \in Nat
        /\ \A i \in 1 .. Len(t) : t[i] = q[i + 1] /\ i + 1 \in 1 .. Len(q) /\ i + 1 # 1
    BY <1>1
  <2> HIDE DEF t
  <2>2. OnceJoin(t)
    <3> SUFFICES ASSUME NEW i \in 1 .. Len(t), NEW j \in 1 .. Len(t),
                        t[i].type = "join-room", t[j].type = "join-room"
                 PROVE  i = j
      BY DEF OnceJoin
    <3>1. i + 1 = j + 1
      BY <2>1 DEF OnceJoin
    <3> QED
      BY <3>1
  <2>3. ASSUME Head(q).type = "join-room", NEW r, NEW i \in 1 .. Len(t), t[i] = JoinMsg(r) PROVE FALSE
    BY <2>1, <2>3, KindsAre DEF OnceJoin
  <2> QED
    BY <2>2, <2>3 DEF Has, t
<1>2. ASSUME NEW p \in Seq(S), OnceJoin(p), NEW x \in S, x.type # "join-room" PROVE OnceJoin(p \o <<x>>)
  <2> DEFINE r == p \o <<x>>
  <2>1. /\ Len(r) = Len(p) + 1 /\ r[Len(p) + 1] = x /\ Len(p) \in Nat
        /\ \A i \in 1 .. Len(p) : r[i] = p[i]
    OBVIOUS
  <2> HIDE DEF r
  <2> SUFFICES ASSUME NEW i \in 1 .. Len(r), NEW j \in 1 .. Len(r),
                      r[i].type = "join-room", r[j].type = "join-room"
               PROVE  i = j
    BY DEF OnceJoin, r
  <2>2. i \in 1 .. Len(p) /\ j \in 1 .. Len(p)
    BY <1>2, <2>1
  <2> QED
    BY <1>2, <2>1, <2>2 DEF OnceJoin
<1>3. ASSUME NEW x \in S, x.type # "join-room" PROVE OnceJoin(q \o <<x>>) /\ OnceJoin(q \o <<x, x>>)
  <2>1. q \o <<x>> \in Seq(S) /\ q \o <<x, x>> = (q \o <<x>>) \o <<x>>
    OBVIOUS
  <2>2. OnceJoin(q \o <<x>>)
    BY <1>2, <1>3
  <2> QED
    BY <1>2, <1>3, <2>1, <2>2
<1> QED
  BY <1>1, <1>3
LEMMA OnceAlone == \A x : OnceJoin(<<>>) /\ OnceJoin(<<>> \o <<x>>)
BY DEF OnceJoin

(***************************************************************************)
(* Where what is under way after a step comes from, nobody's session being *)
(* new.                                                                    *)
(***************************************************************************)
LEMMA StillUnderWay ==
  ASSUME Typed, SessionsInv, NamesInv, Next, UNCHANGED sess,
         NEW a \in CanShare, NEW b \in CanWatch, NEW c \in Nat, NEW k \in Nat
  PROVE  /\ UnderWay(a, b, c, k)' =>
              \/ UnderWay(a, b, c, k)
              \/ /\ entry[a][sess[b]].phase = "offering" /\ entry[a][sess[b]].conn = c
                 /\ entry'[a][sess[b]].phase # "offering"
         /\ Returned(a, b, c, k)' => Returned(a, b, c, k) \/ UnderWay(a, b, c, k)
<1> DEFINE s == sess[a] v == sess[b]
<1>0. /\ a \in Apps /\ b \in Apps /\ s \in Sessions /\ v \in Sessions /\ ViewersTyped
      /\ \A x \in Apps : (sess[x] = s => x = a) /\ (sess[x] = v => x = b)
  BY TypedIs, SharersAssumption, WatchersAssumption DEF SessionsInv, TableTypes
<1>1. ASSUME Has(up'[a], To(v, Offer(s, c)))
      PROVE  \/ Has(up[a], To(v, Offer(s, c)))
             \/ entry[a][v].phase = "offering" /\ entry[a][v].conn = c /\ entry'[a][v].phase # "offering"
  BY <1>0, <1>1, UpHas, OfferGoes
<1>2. ASSUME Has(down'[b], Offer(s, c)) PROVE Has(down[b], Offer(s, c)) \/ Has(up[a], To(v, Offer(s, c)))
  <2>1. CASE Comes(b, Offer(s, c))
    <3>1. PICK x \in Apps : Has(up[x], To(v, Offer(s, c)))
      BY <1>0, <2>1, SignalComes, KindsAre
    <3>2. x = a
      BY <1>0, <3>1 DEF NamesInv, SentInOwnName
    <3> QED
      BY <3>1, <3>2
  <2> QED
    BY <1>0, <1>2, <2>1, DownHas
<1>3. ASSUME Has(offers'[b], [from |-> s, conn |-> c])
      PROVE  Has(offers[b], [from |-> s, conn |-> c]) \/ Has(down[b], Offer(s, c))
  <2>1. [from |-> s, conn |-> c] \in TakenOffers /\ OfferOf([from |-> s, conn |-> c]) = Offer(s, c)
    BY <1>0 DEF TakenOffers, OfferOf
  <2> QED
    BY <1>3, <2>1, OffersMove
<1>4. ASSUME Has(up'[b], To(s, Answer(v, c, k)))
      PROVE  Has(up[b], To(s, Answer(v, c, k))) \/ Has(offers[b], [from |-> s, conn |-> c])
  <2>1. CASE Goes(b, To(s, Answer(v, c, k)))
    <3> DEFINE o == Head(offers[b])
    <3>1. offers[b] # <<>> /\ s = o.from /\ c = o.conn
      BY <2>1, AnswerGoes
    <3>2. o \in TakenOffers /\ Has(offers[b], o)
      <4>1. offers[b] \in Seq(TakenOffers)
        BY <1>0, WatcherIs
      <4> QED
        BY <3>1, <4>1, QueueShrinks
    <3>3. o = [from |-> o.from, conn |-> o.conn]
      BY <3>2 DEF TakenOffers
    <3> HIDE DEF o
    <3> QED
      BY <3>1, <3>2, <3>3
  <2> QED
    BY <1>0, <1>4, <2>1, UpHas
<1>5. ASSUME Has(down'[a], Answer(v, c, k)) PROVE Has(down[a], Answer(v, c, k)) \/ Has(up[b], To(s, Answer(v, c, k)))
  <2>1. CASE Comes(a, Answer(v, c, k))
    <3>1. PICK x \in Apps : Has(up[x], To(s, Answer(v, c, k)))
      BY <1>0, <2>1, SignalComes, KindsAre
    <3>2. x = b
      BY <1>0, <3>1 DEF NamesInv, SentInOwnName
    <3> QED
      BY <3>1, <3>2
  <2> QED
    BY <1>0, <1>5, <2>1, DownHas
<1>6. /\ UnderWay(a, b, c, k)' <=> \/ Has(up'[a], To(v, Offer(s, c))) \/ Has(down'[b], Offer(s, c))
                                   \/ Has(offers'[b], [from |-> s, conn |-> c])
                                   \/ Has(up'[b], To(s, Answer(v, c, k)))
      /\ Returned(a, b, c, k)' <=> Has(down'[a], Answer(v, c, k))
  BY DEF UnderWay, Returned, Has
<1> HIDE DEF s, v
<1> QED
  BY <1>1, <1>2, <1>3, <1>4, <1>5, <1>6 DEF UnderWay, Returned, s, v

\* Nothing comes of nothing.
LEMMA NothingComes ==
  ASSUME Typed, SessionsInv, NamesInv, Next, UNCHANGED sess, NEW a \in CanShare, NEW b \in CanWatch,
         entry[a][sess[b]] = NoEntry, NoneUnderWay(a, b)
  PROVE  /\ NoneUnderWay(a, b)'
         /\ ~Told(a, b) => entry'[a][sess[b]] = NoEntry
<1>0. sess[b] \in Sessions /\ down[a] \in Seq(DownFrames) /\ NoEntry.phase = "none"
  BY TypedIs, SharersAssumption, WatchersAssumption DEF TableTypes, FrameTypes, NoEntry
<1>1. \A c, k \in Nat : ~UnderWay(a, b, c, k)'
  BY <1>0, StillUnderWay DEF NoneUnderWay
<1>2. down[a] # <<>> => Has(down[a], Head(down[a]))
  BY <1>0, QueueShrinks
<1>3. ~Told(a, b) => entry'[a][sess[b]] = NoEntry
  BY <1>0, <1>2, EntryMoves DEF EntryGoes, Told
<1> QED
  BY <1>1, <1>3 DEF NoneUnderWay

\* A viewer the sharer is newly told of has asked.
LEMMA ToldAsked ==
  ASSUME Typed, SessionsInv, Next, UNCHANGED sess, NEW a \in CanShare, NEW b \in CanWatch,
         Comes(a, ViewerJoined(sess[b]))
  PROVE  Asks(b) /\ up[b] # <<>> /\ Head(up[b]).type = "join-room" /\ up'[b] = Tail(up[b])
<1>0. /\ a \in Apps /\ b \in Apps /\ up[b] \in Seq(UpFrames) /\ up \in [Apps -> Seq(UpFrames)]
      /\ TableTypes /\ FrameTypes
  BY TypedIs, SharersAssumption, WatchersAssumption DEF FrameTypes
<1>1. Serve(b) /\ up[b] # <<>> /\ Head(up[b]).type = "join-room"
  BY <1>0, JoinedComes DEF SessionsInv
<1>2. Head(up[b]) \in UpFrames /\ Has(up[b], Head(up[b]))
  BY <1>0, <1>1, QueueShrinks
<1>3. \E r \in RoomIds : Head(up[b]) = JoinMsg(r)
  BY <1>1, <1>2 DEF UpFrames, JoinMsg, Plain, To
<1>4. up'[b] = Tail(up[b])
  BY <1>0, <1>1, ServePushes
<1> QED
  BY <1>1, <1>2, <1>3, <1>4 DEF Asks
\* What becomes of an entry while what goes round belongs to it: an answer finds
\* the offer sent.
EntryMeets(a, v) ==
  \/ entry'[a][v] = entry[a][v] \/ entry'[a][v] = NoEntry
  \/ /\ entry[a][v].phase = "offering" /\ entry'[a][v].phase = "offered"
     /\ entry'[a][v].conn = entry[a][v].conn
  \/ /\ entry[a][v].phase = "offered" /\ entry'[a][v].phase = "answered"
     /\ entry[a][v] # NoEntry /\ entry'[a][v].conn = entry[a][v].conn
     /\ down[a] # <<>> /\ down'[a] = Tail(down[a]) /\ entry'[a][v].of \in Nat
     /\ \E k \in Nat : /\ Head(down[a]) = Answer(v, entry'[a][v].of, k)
                       /\ Has(down[a], Answer(v, entry'[a][v].of, k))
  \/ /\ entry[a][v] = NoEntry /\ down[a] # <<>> /\ Head(down[a]) = ViewerJoined(v)
     /\ down'[a] = Tail(down[a]) /\ entry'[a][v].phase = "offering" /\ entry'[a][v].of = 0

LEMMA MeetingGoes ==
  ASSUME Typed, Next, NEW a \in CanShare, NEW b \in CanWatch, Meets(a, b)
  PROVE  EntryMeets(a, sess[b])
<1> DEFINE v == sess[b]
<1>1. v \in Sessions /\ NoEntry.phase = "none"
  BY TypedIs, WatchersAssumption DEF TableTypes, NoEntry
<1>2. EntryGoes(a, v)
  BY <1>1, EntryMoves
<1>3. entry[a][v].phase = "offering" =>
        entry[a][v].of = 0 /\ \A c, k \in Nat : ~Has(down[a], Answer(v, c, k))
  BY <1>1 DEF Meets, Returned
<1> HIDE DEF v
<1>4. EntryMeets(a, v)
  BY <1>1, <1>2, <1>3 DEF EntryGoes, EntryMeets
<1> QED
  BY <1>4 DEF v

LEMMA MeetsStays ==
  ASSUME Typed, SessionsInv, NamesInv, Next, UNCHANGED sess, NEW a \in CanShare, NEW b \in CanWatch,
         Meets(a, b), Awaited(a, b), Behind(down[a], sess[b])
  PROVE  Meets(a, b)'
<1> DEFINE v == sess[b] e == entry[a][v] f == entry'[a][v]
<1>0. /\ v \in Sessions /\ down[a] \in Seq(DownFrames) /\ NoEntry.phase = "none" /\ EntryMeets(a, v)
  BY TypedIs, SharersAssumption, WatchersAssumption, MeetingGoes DEF TableTypes, FrameTypes, NoEntry
<1> HIDE DEF v
<1>1. CASE f = NoEntry
  BY <1>1 DEF Meets, v
<1>2. ASSUME e # NoEntry, f.conn = e.conn, f.phase = "offering" => f = e,
             \/ f.phase = "answered" => e.phase = "answered" /\ f.of = e.of
             \/ \E k \in Nat : Has(down[a], Answer(v, f.of, k)) /\ f.of \in Nat
      PROVE  Meets(a, b)'
  <2>1. \A c, k \in Nat : UnderWay(a, b, c, k) \/ Returned(a, b, c, k) => c = e.conn
    BY <1>2 DEF Meets, v
  <2>2. ASSUME NEW c \in Nat, NEW k \in Nat, UnderWay(a, b, c, k)' \/ Returned(a, b, c, k)' PROVE c = f.conn
    BY <1>2, <2>1, <2>2, StillUnderWay DEF v
  <2>3. ASSUME f.phase = "answered" PROVE f.of = f.conn
    <3>1. CASE e.phase = "answered" /\ f.of = e.of
      BY <1>2, <3>1 DEF Meets, v
    <3>2. CASE \E k \in Nat : Has(down[a], Answer(v, f.of, k)) /\ f.of \in Nat
      BY <1>2, <2>1, <3>2 DEF Returned, v
    <3> QED
      BY <1>2, <2>3, <3>1, <3>2
  <2>4. ASSUME f.phase = "offering"
        PROVE  f.of = 0 /\ \A c, k \in Nat : ~UnderWay(a, b, c, k)' /\ ~Returned(a, b, c, k)'
    <3>1. f = e /\ e.phase = "offering"
      BY <1>2, <2>4
    <3>2. e.of = 0 /\ \A c, k \in Nat : ~UnderWay(a, b, c, k) /\ ~Returned(a, b, c, k)
      BY <1>2, <3>1 DEF Meets, v
    <3>3. ASSUME NEW c \in Nat, NEW k \in Nat
          PROVE  ~UnderWay(a, b, c, k)' /\ ~Returned(a, b, c, k)'
      BY <2>4, <3>2, <3>3, StillUnderWay DEF v
    <3> QED
      BY <3>1, <3>2, <3>3
  <2> QED
    BY <2>2, <2>3, <2>4 DEF Meets, v
<1>3. CASE f = e /\ e # NoEntry
  BY <1>2, <1>3
<1>4. CASE e.phase = "offering" /\ f.phase = "offered" /\ f.conn = e.conn
  BY <1>0, <1>2, <1>4
<1>5. CASE e = NoEntry /\ down[a] # <<>> /\ Head(down[a]) = ViewerJoined(v) /\ down'[a] = Tail(down[a])
           /\ f.phase = "offering" /\ f.of = 0
  <2>1. Told(a, b)
    BY <1>0, <1>5, QueueShrinks DEF Told, v
  <2>2. NoneUnderWay(a, b)'
    BY <1>5, <2>1, NothingComes DEF Awaited, v
  <2>3. \A c, k \in Nat : ~Has(down'[a], Answer(v, c, k))
    BY <1>0, <1>5, BehindQueues DEF v
  <2>4. \A c, k \in Nat : ~UnderWay(a, b, c, k)' /\ ~Returned(a, b, c, k)'
    BY <2>2, <2>3 DEF NoneUnderWay, Returned, Has, v
  <2> QED
    BY <1>5, <2>4 DEF Meets, v
<1> QED
  BY <1>0, <1>1, <1>2, <1>3, <1>4, <1>5 DEF EntryMeets

LEMMA AwaitedStays ==
  ASSUME Typed, SessionsInv, NamesInv, Next, UNCHANGED sess, NEW a \in CanShare, NEW b \in CanWatch,
         Awaited(a, b), Behind(down[a], sess[b]), Asking(a, b)
  PROVE  Awaited(a, b)'
<1> DEFINE v == sess[b]
<1>0. /\ v \in Sessions /\ down[a] \in Seq(DownFrames) /\ EntryGoes(a, v) /\ a \in Apps
  BY TypedIs, SharersAssumption, WatchersAssumption, EntryMoves DEF TableTypes, FrameTypes
<1> SUFFICES ASSUME Told(a, b)' PROVE entry'[a][v] = NoEntry /\ NoneUnderWay(a, b)'
  BY DEF Awaited
<1>1. Has(down'[a], ViewerJoined(v))
  BY DEF Told, Has
<1>2. CASE Told(a, b)
  <2>1. entry[a][v] = NoEntry /\ NoneUnderWay(a, b) /\ NoEntry.phase = "none"
    BY <1>2 DEF Awaited, NoEntry
  <2>2. ~(down[a] # <<>> /\ Head(down[a]) = ViewerJoined(v) /\ down'[a] = Tail(down[a]))
    BY <1>0, <1>1, BehindQueues
  <2>3. entry'[a][v] = NoEntry
    BY <1>0, <2>1, <2>2 DEF EntryGoes
  <2> QED
    BY <2>1, <2>3, NothingComes
<1>3. CASE ~Told(a, b)
  <2>1. Comes(a, ViewerJoined(v))
    BY <1>0, <1>1, <1>3, DownHas DEF Told
  <2>2. Asks(b)
    BY <2>1, ToldAsked
  <2> QED
    BY <2>2, NothingComes DEF Asking
<1> QED
  BY <1>2, <1>3

LEMMA BehindStays ==
  ASSUME Typed, SessionsInv, NamesInv, Next, UNCHANGED sess, NEW a \in CanShare, NEW b \in CanWatch,
         Awaited(a, b), Behind(down[a], sess[b]), Asking(a, b)
  PROVE  Behind(down[a], sess[b])'
<1> DEFINE v == sess[b] q == down[a]
<1>0. /\ a \in Apps /\ b \in Apps /\ q \in Seq(DownFrames) /\ sess[a] \in Sessions /\ v \in Sessions
  BY TypedIs, SharersAssumption, WatchersAssumption DEF FrameTypes, TableTypes
<1>1. ASSUME NEW g \in DownFrames, Comes(a, g), Has(q, ViewerJoined(v))
      PROVE  g # ViewerJoined(v) /\ \A c, k \in Nat : g # Answer(v, c, k)
  <2>1. g # ViewerJoined(v)
    BY <1>1, ToldAsked DEF Asking, Told
  <2>2. ASSUME NEW c \in Nat, NEW k \in Nat, g = Answer(v, c, k) PROVE FALSE
    <3>1. PICK x \in Apps : Has(up[x], To(sess[a], Answer(v, c, k)))
      BY <1>0, <1>1, <2>2, SignalComes, KindsAre
    <3>2. x = b
      BY <1>0, <3>1 DEF NamesInv, SentInOwnName, SessionsInv
    <3>3. UnderWay(a, b, c, k)
      BY <3>1, <3>2 DEF UnderWay
    <3> QED
      BY <1>1, <3>3 DEF Awaited, Told, NoneUnderWay
  <2> QED
    BY <2>1, <2>2
<1>2. Behind(down'[a], v)
  <2> HIDE DEF v, q
  <2>0. q \in Seq(DownFrames) /\ Behind(q, v)
    BY <1>0 DEF q, v
  <2>1. CASE down'[a] = q \/ down'[a] = <<>>
    BY <2>0, <2>1, BehindNothing
  <2>2. CASE q # <<>> /\ down'[a] = Tail(q)
    BY <2>0, <2>2, BehindQueues
  <2>3. ASSUME NEW g \in DownFrames, down'[a] = q \o <<g>>, Comes(a, g) PROVE Behind(down'[a], v)
    BY <1>1, <2>0, <2>3, BehindQueues
  <2> QED
    BY <1>0, <2>1, <2>2, <2>3, DownMoves DEF q
<1> QED
  BY <1>2 DEF Behind

LEMMA OnceStays ==
  ASSUME Typed, SessionsInv, NamesInv, Next, NEW b \in CanWatch, Calm(b)', OnceJoin(up[b])
  PROVE  OnceJoin(up[b])'
<1>0. b \in Apps /\ up[b] \in Seq(UpFrames)
  BY TypedIs, WatchersAssumption DEF FrameTypes
<1>1. ASSUME NEW f \in UpFrames, up'[b] = up[b] \o <<f>> \/ up'[b] = up[b] \o <<f, f>>, Goes(b, f)
      PROVE  OnceJoin(up'[b])
  <2>1. CASE f.type # "join-room"
    BY <1>0, <1>1, <2>1, OnceQueues
  <2>2. CASE Joins(b) /\ up'[b] = up[b] \o <<f>>
    <3>1. up[b] = <<>>
      BY <2>2, JoinsSettled DEF Unsettled
    <3> QED
      BY <2>2, <3>1, OnceAlone
  <2> QED
    BY <1>1, <2>1, <2>2, KindsAre DEF Goes
<1>2. OnceJoin(up'[b])
  BY <1>0, <1>1, OnceQueues, OnceAlone, UpMoves
<1> QED
  BY <1>2 DEF OnceJoin

LEMMA AskingStays ==
  ASSUME Typed, SessionsInv, NamesInv, Next, UNCHANGED sess, NEW a \in CanShare, NEW b \in CanWatch,
         Calm(b)', OnceJoin(up[b]), Asking(a, b)
  PROVE  Asking(a, b)'
<1> DEFINE v == sess[b]
<1>0. a \in Apps /\ b \in Apps /\ up[b] \in Seq(UpFrames)
  BY TypedIs, SharersAssumption, WatchersAssumption DEF FrameTypes
<1> SUFFICES ASSUME Asks(b)' PROVE entry'[a][v] = NoEntry /\ NoneUnderWay(a, b)' /\ ~Told(a, b)'
  BY DEF Asking
<1>1. PICK r \in RoomIds : Has(up'[b], JoinMsg(r))
  BY DEF Asks, Has
<1>2. ASSUME entry[a][v] = NoEntry, NoneUnderWay(a, b), ~Told(a, b), ~Comes(a, ViewerJoined(v))
      PROVE  entry'[a][v] = NoEntry /\ NoneUnderWay(a, b)' /\ ~Told(a, b)'
  <2>1. ~Has(down'[a], ViewerJoined(v))
    BY <1>0, <1>2, DownHas DEF Told
  <2> QED
    BY <1>2, <2>1, NothingComes DEF Told, Has
<1>3. CASE Asks(b)
  <2>1. ~Comes(a, ViewerJoined(v))
    BY <1>0, <1>1, OnceQueues, ToldAsked
  <2> QED
    BY <1>2, <1>3, <2>1 DEF Asking
<1>4. CASE ~Asks(b)
  <2>1. Goes(b, JoinMsg(r))
    BY <1>0, <1>1, <1>4, UpHas DEF Asks
  <2>2. Joins(b)
    BY <2>1, FramesDiffer DEF Goes
  <2>3. entry[a][v] = NoEntry /\ NoneUnderWay(a, b) /\ ~Told(a, b)
    BY <2>2, JoinsSettled, SettledIs
  <2>4. ~Comes(a, ViewerJoined(v))
    BY <1>4, ToldAsked
  <2> QED
    BY <1>2, <2>3, <2>4
<1> QED
  BY <1>3, <1>4
LEMMA MeetStep ==
  ASSUME Typed, SessionsInv, NamesInv, MeetInv, Next
  PROVE  MeetInv'
<1> SUFFICES ASSUME NEW a \in CanShare, NEW b \in CanWatch, Calm(b)' PROVE MeetsInOrder(a, b)'
  BY DEF MeetInv
<1> DEFINE v == sess[b]
<1>0. /\ a \in Apps /\ b \in Apps /\ sess \in [Apps -> Sessions]
  BY TypedIs, SharersAssumption, WatchersAssumption DEF TableTypes
<1>c. Calm(b)
  BY SparedBefore, MishapsStay DEF Calm
<1>1. MeetsInOrder(a, b)
  BY <1>c DEF MeetInv
<1>2. CASE UNCHANGED sess
  BY <1>1, <1>2, MeetsStays, AwaitedStays, BehindStays, OnceStays, AskingStays DEF MeetsInOrder
<1>3. ASSUME NEW x \in Apps, NEW s \in Sessions, ~online[x], s \notin used,
             sess' = [sess EXCEPT ![x] = s], UNCHANGED <<rmVars, gone, up, down, shVars, vwVars>>
      PROVE  MeetsInOrder(a, b)'
  <2>0. UNCHANGED <<up, down, entry, offers>> /\ up[x] = <<>> /\ down[x] = <<>>
    BY <1>3 DEF SessionsInv, shVars, vwVars
  <2>1. CASE x = b
    <3>1. sess'[b] = s /\ up[b] = <<>>
      BY <1>0, <1>3, <2>0, <2>1
    <3>2. entry[a][s] = NoEntry /\ ~Has(down[a], ViewerJoined(s))
      BY <1>0, <1>3 DEF NamesInv, NamedInUse
    <3>3. Meets(a, b)' /\ Awaited(a, b)'
      BY <2>0, <3>1, <3>2 DEF Meets, Awaited, Told, Has
    <3>4. Behind(down[a], s)
      BY <3>2, BehindNone
    <3>5. Behind(down[a], sess[b])' /\ OnceJoin(up[b])'
      BY <2>0, <3>1, <3>4, OnceAlone
    <3>6. ~Asks(b)'
      BY <2>0, <3>1 DEF Asks, Has
    <3> QED
      BY <3>3, <3>5, <3>6 DEF MeetsInOrder, Asking
  <2>2. CASE x # b
    <3>1. sess'[b] = v
      BY <1>0, <1>3, <2>2
    <3>2. CASE x # a
      <4>1. sess'[a] = sess[a]
        BY <1>0, <1>3, <3>2
      <4> QED
        BY <1>1, <2>0, <3>1, <4>1 DEF MeetsInOrder, Meets, Awaited, Asking, Asks, Told, NoneUnderWay, UnderWay,
                                      Returned, Behind, OnceJoin, Has
    <3>3. CASE x = a
      <4>1. sess'[a] = s /\ up[a] = <<>> /\ down[a] = <<>>
        BY <1>0, <1>3, <2>0, <3>3
      <4>2. ASSUME NEW c \in Nat, NEW k \in Nat PROVE ~UnderWay(a, b, c, k)' /\ ~Returned(a, b, c, k)'
        <5>1. ~Has(down[b], Offer(s, c))
          BY <1>0, <1>3 DEF NamesInv, NamedInUse
        <5>2. ~Has(offers[b], [from |-> s, conn |-> c])
          BY <1>3 DEF NamesInv, NamedInUse, TakenOffers
        <5>3. ~Has(up[b], To(s, Answer(v, c, k)))
          BY <1>0, <1>3 DEF NamesInv, SentInOwnName
        <5> QED
          BY <2>0, <3>1, <4>1, <5>1, <5>2, <5>3, EmptyQueue DEF UnderWay, Returned, Has
      <4>3. Meets(a, b)'
        BY <1>1, <2>0, <3>1, <4>2 DEF MeetsInOrder, Meets
      <4>4. ~Told(a, b)' /\ NoneUnderWay(a, b)'
        BY <2>0, <4>1, <4>2 DEF Told, Has, NoneUnderWay
      <4>5. Behind(down[a], sess[b])'
        BY <2>0, <4>1 DEF Behind
      <4>6. OnceJoin(up[b])' /\ Asking(a, b)'
        BY <1>1, <2>0, <3>1, <4>4 DEF MeetsInOrder, OnceJoin, Asking, Asks, Has
      <4> QED
        BY <4>3, <4>4, <4>5, <4>6 DEF MeetsInOrder, Awaited
    <3> QED
      BY <3>2, <3>3
  <2> QED
    BY <2>1, <2>2
<1> QED
  BY <1>2, <1>3, SessionsMove

LEMMA MeetInit == Init => MeetInv
<1> SUFFICES ASSUME Init, NEW a \in CanShare, NEW b \in CanWatch PROVE MeetsInOrder(a, b)
  BY DEF MeetInv
<1>0. a \in Apps /\ b \in Apps /\ sess[b] \in Sessions
  BY TypedInit, TypedIs, SharersAssumption, WatchersAssumption DEF TableTypes
<1>1. up[a] = <<>> /\ up[b] = <<>> /\ down[a] = <<>> /\ entry[a][sess[b]] = NoEntry
  BY <1>0 DEF Init, LinkInit, SharingInit, NoEntries
<1>2. ~Told(a, b) /\ ~Asks(b)
  BY <1>1, EmptyQueue DEF Told, Asks
<1>3. Behind(down[a], sess[b]) /\ OnceJoin(up[b])
  BY <1>1, OnceAlone, BehindNothing
<1> QED
  BY <1>1, <1>2, <1>3 DEF MeetsInOrder, Meets, Awaited, Asking
LEMMA MeetKept == MeetInv /\ UNCHANGED shareVars => MeetInv'
<1> SUFFICES ASSUME MeetInv, UNCHANGED shareVars, NEW a \in CanShare, NEW b \in CanWatch, Calm(b)'
             PROVE  MeetsInOrder(a, b)'
  BY DEF MeetInv
<1>1. UNCHANGED <<happened, up, down, sess, entry, offers>>
  BY DEF shareVars, linkVars, shVars, vwVars
<1>2. Calm(b)
  BY <1>1, SparedBefore DEF Calm
<1>3. MeetsInOrder(a, b)
  BY <1>2 DEF MeetInv
<1>4. \A c, k \in Nat : /\ UnderWay(a, b, c, k)' <=> UnderWay(a, b, c, k)
                        /\ Returned(a, b, c, k)' <=> Returned(a, b, c, k)
  BY <1>1 DEF UnderWay, Returned, Has
<1>5. Meets(a, b)'
  BY <1>1, <1>3, <1>4 DEF MeetsInOrder, Meets
<1>6. Awaited(a, b)' /\ Asking(a, b)'
  BY <1>1, <1>3, <1>4 DEF MeetsInOrder, Awaited, Asking, Asks, Told, NoneUnderWay, Has
<1>7. Behind(down[a], sess[b])' /\ OnceJoin(up[b])'
  BY <1>1, <1>3 DEF MeetsInOrder, Behind, OnceJoin
<1> QED
  BY <1>5, <1>6, <1>7 DEF MeetsInOrder

LEMMA MeetsHold == Spec => [](Typed /\ SessionsInv /\ NamesInv /\ MeetInv)
<1>1. Init => Typed /\ SessionsInv /\ NamesInv /\ MeetInv
  BY TypedInit, SessionsInit, NamesInit, MeetInit
<1>2. Typed /\ SessionsInv /\ NamesInv /\ MeetInv /\ [Next]_shareVars
        => (Typed /\ SessionsInv /\ NamesInv /\ MeetInv)'
  BY TypedStep, TypedKept, SessionsInvStep, SessionsKept, NamesStep, NamesKept, MeetStep, MeetKept
<1> QED
  BY <1>1, <1>2, PTL DEF Spec

\* A viewer's answer is applied to the connection whose offer it answers, however a's
\* connections to it and its stays in the room followed upon each other (handleAnswer).
THEOREM AnswersMeet == Spec => []AnswersMeetTheirOffers
<1>1. Typed /\ MeetInv => AnswersMeetTheirOffers
  <2> SUFFICES ASSUME MeetInv, NEW a \in CanShare, NEW b \in CanWatch, entry[a][sess[b]].phase = "answered",
                      Calm(b)
               PROVE  entry[a][sess[b]].of = entry[a][sess[b]].conn
    BY Zenon DEF AnswersMeetTheirOffers, Calm
  <2>1. entry[a][sess[b]] # NoEntry
    BY DEF NoEntry
  <2> QED
    BY <2>1 DEF MeetInv, MeetsInOrder, Meets
<1> QED
  BY <1>1, MeetsHold, PTL
-----------------------------------------------------------------------------
(***************************************************************************)
(* An application's place at the server, now and when each frame it has    *)
(* sent will be handled: a leave-room takes it out of every room, and what *)
(* follows may bring it back.                                              *)
(***************************************************************************)
Seatless(s) == \A r \in RoomIds : s \notin viewers[r]
Shareless(s) == \A r \in RoomIds : sharerId[r] # s
Indexed(s) ==
  \A r \in RoomIds : sharerId[r] = s \/ s \in viewers[r] =>
    sessionRooms[s] = r /\ ~(sharerId[r] = s /\ s \in viewers[r])

\* Before position i of the queue q.
LeftBy(q, i, kind) ==
  \E j \in 1 .. i - 1 : q[j].type = "leave-room" /\ \A k \in j + 1 .. i - 1 : q[k].type # kind
Lacks(q, i, kind) == \A k \in 1 .. i - 1 : q[k].type # kind
NoSeatAt(a, i) == LeftBy(up[a], i, "join-room") \/ (Lacks(up[a], i, "join-room") /\ Seatless(sess[a]))
NoShareAt(a, i) == LeftBy(up[a], i, "create-room") \/ (Lacks(up[a], i, "create-room") /\ Shareless(sess[a]))

\* The end of a's queue.
Last(a) == Len(up[a]) + 1

LEMMA QueueMovesUp ==
  ASSUME NEW S, NEW q \in Seq(S), q # <<>>, NEW kind, NEW i \in 1 .. Len(Tail(q)) + 1
  PROVE  /\ LeftBy(q, i + 1, kind) =>
              LeftBy(Tail(q), i, kind) \/ (Head(q).type = "leave-room" /\ Lacks(Tail(q), i, kind))
         /\ Lacks(q, i + 1, kind) => Lacks(Tail(q), i, kind) /\ Head(q).type # kind
<1> DEFINE t == Tail(q)
<1>1. /\ Head(q) = q[1] /\ Len(t) \in Nat /\ Len(q) = Len(t) + 1
      /\ \A k \in 1 .. Len(t) : t[k] = q[k + 1]
  OBVIOUS
<1> HIDE DEF t
<1>2. i \in Nat /\ i >= 1 /\ i <= Len(t) + 1
  BY <1>1 DEF t
<1>3. \A k \in 1 .. i - 1 : t[k] = q[k + 1] /\ k + 1 \in 1 .. (i + 1) - 1
  BY <1>1, <1>2
<1>4. 1 \in 1 .. (i + 1) - 1
  BY <1>2
<1>5. ASSUME Lacks(q, i + 1, kind) PROVE Lacks(t, i, kind) /\ Head(q).type # kind
  BY <1>1, <1>3, <1>4, <1>5 DEF Lacks
<1>6. ASSUME NEW j \in 1 .. (i + 1) - 1, q[j].type = "leave-room", \A k \in j + 1 .. (i + 1) - 1 : q[k].type # kind
      PROVE  LeftBy(t, i, kind) \/ (Head(q).type = "leave-room" /\ Lacks(t, i, kind))
  <2>1. CASE j = 1
    <3>1. \A k \in 1 .. i - 1 : k + 1 \in j + 1 .. (i + 1) - 1
      BY <1>2, <2>1
    <3>2. Lacks(t, i, kind)
      BY <1>3, <1>6, <3>1 DEF Lacks
    <3> QED
      BY <1>1, <1>6, <2>1, <3>2
  <2>2. CASE j # 1
    <3>1. j - 1 \in 1 .. i - 1 /\ (j - 1) + 1 = j
      BY <1>2, <2>2
    <3>2. t[j - 1].type = "leave-room"
      BY <1>3, <1>6, <3>1
    <3>3. \A k \in (j - 1) + 1 .. i - 1 : k \in 1 .. i - 1 /\ k + 1 \in j + 1 .. (i + 1) - 1
      BY <1>2, <3>1
    <3>4. \A k \in (j - 1) + 1 .. i - 1 : t[k].type # kind
      BY <1>3, <1>6, <3>3
    <3> QED
      BY <3>1, <3>2, <3>4 DEF LeftBy
  <2> QED
    BY <2>1, <2>2
<1> QED
  BY <1>5, <1>6 DEF LeftBy, t

LEMMA QueueGetsLonger ==
  ASSUME NEW S, NEW q \in Seq(S), NEW x \in S, NEW kind, kind # "leave-room"
  PROVE  /\ \A i \in 1 .. Len(q) + 1 : /\ LeftBy(q \o <<x>>, i, kind) <=> LeftBy(q, i, kind)
                                       /\ Lacks(q \o <<x>>, i, kind) <=> Lacks(q, i, kind)
         /\ x.type = "leave-room" => LeftBy(q \o <<x>>, Len(q \o <<x>>) + 1, kind)
         /\ x.type # kind =>
              /\ LeftBy(q, Len(q) + 1, kind) => LeftBy(q \o <<x>>, Len(q \o <<x>>) + 1, kind)
              /\ Lacks(q, Len(q) + 1, kind) => Lacks(q \o <<x>>, Len(q \o <<x>>) + 1, kind)
<1> DEFINE r == q \o <<x>> n == Len(q)
<1>1. /\ n \in Nat /\ Len(r) = n + 1 /\ r[n + 1] = x
      /\ \A k \in 1 .. n : r[k] = q[k]
  OBVIOUS
<1> HIDE DEF r, n
<1>2. ASSUME NEW i \in 1 .. n + 1
      PROVE  (LeftBy(r, i, kind) <=> LeftBy(q, i, kind)) /\ (Lacks(r, i, kind) <=> Lacks(q, i, kind))
  <2>1. \A k \in 1 .. i - 1 : r[k] = q[k]
    BY <1>1
  <2>2. \A j \in 1 .. i - 1 : \A k \in j + 1 .. i - 1 : r[k] = q[k]
    BY <1>1
  <2> QED
    BY <2>1, <2>2 DEF LeftBy, Lacks
<1>3. ASSUME x.type = "leave-room" PROVE LeftBy(r, Len(r) + 1, kind)
  <2>1. n + 1 \in 1 .. (Len(r) + 1) - 1 /\ \A k \in (n + 1) + 1 .. (Len(r) + 1) - 1 : FALSE
    BY <1>1
  <2> QED
    BY <1>1, <1>3, <2>1 DEF LeftBy
<1>4. ASSUME x.type # kind, Lacks(q, n + 1, kind) PROVE Lacks(r, Len(r) + 1, kind)
  <2>1. \A k \in 1 .. (Len(r) + 1) - 1 : (k \in 1 .. (n + 1) - 1 /\ k \in 1 .. n) \/ k = n + 1
    BY <1>1
  <2> QED
    BY <1>1, <1>4, <2>1 DEF Lacks
<1>5. ASSUME x.type # kind, LeftBy(q, n + 1, kind) PROVE LeftBy(r, Len(r) + 1, kind)
  <2>1. PICK j \in 1 .. (n + 1) - 1 : q[j].type = "leave-room" /\ \A k \in j + 1 .. (n + 1) - 1 : q[k].type # kind
    BY <1>5 DEF LeftBy
  <2>2. j \in 1 .. (Len(r) + 1) - 1 /\ j \in 1 .. n
    BY <1>1
  <2>3. \A k \in j + 1 .. (Len(r) + 1) - 1 : (k \in j + 1 .. (n + 1) - 1 /\ k \in 1 .. n) \/ k = n + 1
    BY <1>1
  <2> QED
    BY <1>1, <1>5, <2>1, <2>2, <2>3 DEF LeftBy
<1> QED
  BY <1>2, <1>3, <1>4, <1>5 DEF r, n
LEMMA NothingBefore ==
  \A kind : /\ \A q : Lacks(q, 1, kind) /\ ~LeftBy(q, 1, kind)
            /\ Lacks(<<>>, Len(<<>>) + 1, kind) /\ ~LeftBy(<<>>, Len(<<>>) + 1, kind)
BY DEF Lacks, LeftBy

(***************************************************************************)
(* What the table does to a session.                                       *)
(***************************************************************************)
StaysOut(s) == (Seatless(s) => Seatless(s)') /\ (Shareless(s) => Shareless(s)')

LEMMA RemovalPlaces ==
  ASSUME RMTypeOK, NEW t \in Sessions, RemoveSession(t)
  PROVE  /\ \A s \in Sessions : StaysOut(s) /\ (Indexed(s) => Indexed(s)')
         /\ Indexed(t) => Seatless(t)' /\ Shareless(t)'
<1>1. /\ \A r \in RoomIds : sharerId'[r] = SharersWithout(t)[r] /\ viewers'[r] = ViewersWithout(t)[r]
      /\ \A s \in Sessions : sessionRooms'[s] = IndexWithout(t)[s]
  BY DEF RemoveSession
<1>2. ASSUME NEW s \in Sessions PROVE StaysOut(s)
  <2>1. ASSUME NEW r \in RoomIds PROVE sharerId'[r] = s => sharerId[r] = s
    BY <1>1, NoneAssumption DEF SharersWithout
  <2>2. ASSUME NEW r \in RoomIds PROVE s \in viewers'[r] => s \in viewers[r]
    BY <1>1 DEF ViewersWithout
  <2> QED
    BY <2>1, <2>2 DEF StaysOut, Seatless, Shareless
<1>3. ASSUME Indexed(t) PROVE Seatless(t)' /\ Shareless(t)'
  <2> SUFFICES ASSUME NEW r \in RoomIds, sharerId'[r] = t \/ t \in viewers'[r] PROVE FALSE
    BY DEF Seatless, Shareless
  <2>1. sharerId[r] = t \/ t \in viewers[r]
    BY <1>1, NoneAssumption DEF SharersWithout, ViewersWithout
  <2>2. sessionRooms[t] = r /\ r # None
    BY <1>3, <2>1, NoneAssumption DEF Indexed
  <2>3. RoomExists(r)
    BY <2>1, NoneAssumption DEF RoomExists, RMTypeOK
  <2> QED
    BY <1>1, <2>2, <2>3, NoneAssumption DEF RemovalKind, SharersWithout, ViewersWithout, RoomExists
<1>4. ASSUME NEW s \in Sessions, Indexed(s) PROVE Indexed(s)'
  <2>1. CASE s = t
    BY <1>3, <1>4, <2>1 DEF Indexed, Seatless, Shareless
  <2>2. CASE s # t
    <3> SUFFICES ASSUME NEW r \in RoomIds, sharerId'[r] = s \/ s \in viewers'[r]
                 PROVE  sessionRooms'[s] = r /\ ~(sharerId'[r] = s /\ s \in viewers'[r])
      BY DEF Indexed
    <3>1. sharerId'[r] = s => sharerId[r] = s
      BY <1>1, NoneAssumption DEF SharersWithout
    <3>2. s \in viewers'[r] => s \in viewers[r]
      BY <1>1 DEF ViewersWithout
    <3>3. sessionRooms[s] = r /\ ~(sharerId[r] = s /\ s \in viewers[r])
      BY <1>4, <3>1, <3>2 DEF Indexed
    <3>4. ~(RemovalKind(t) = "room-ended" /\ s \in viewers[sessionRooms[t]])
      <4> SUFFICES ASSUME RemovalKind(t) = "room-ended", s \in viewers[sessionRooms[t]] PROVE FALSE
        OBVIOUS
      <4>1. sessionRooms[t] \in RoomIds /\ sharerId[sessionRooms[t]] = t
        BY DEF RemovalKind, RMTypeOK
      <4>2. sessionRooms[t] = r
        BY <1>4, <3>3, <4>1 DEF Indexed
      <4>3. sharerId[r] = t /\ viewers'[r] = {}
        BY <1>1, <4>1, <4>2 DEF ViewersWithout
      <4> QED
        BY <2>2, <3>1, <4>3
    <3>5. sessionRooms'[s] = r
      BY <1>1, <2>2, <3>3, <3>4 DEF IndexWithout
    <3> QED
      BY <3>1, <3>2, <3>3, <3>5
  <2> QED
    BY <2>1, <2>2
<1> QED
  BY <1>2, <1>3, <1>4

LEMMA CreationPlaces ==
  ASSUME RMTypeOK, NEW t \in Sessions, NEW c \in RoomIds, CreateRoom(t, c)
  PROVE  /\ \A s \in Sessions : s # t => StaysOut(s) /\ (Indexed(s) => Indexed(s)')
         /\ Seatless(t) => Seatless(t)'
         /\ Seatless(t) /\ Shareless(t) => Indexed(t)'
<1>1. /\ \A r \in RoomIds : /\ sharerId'[r] = IF r = c THEN t ELSE SharersWithout(t)[r]
                            /\ viewers'[r] = IF r = c THEN {} ELSE ViewersWithout(t)[r]
      /\ \A s \in Sessions : sessionRooms'[s] = IF s = t THEN c ELSE IndexWithout(t)[s]
  BY DEF CreateRoom, SharersWithout, ViewersWithout, IndexWithout
<1>2. ASSUME NEW s \in Sessions, s # t PROVE StaysOut(s)
  <2>1. ASSUME NEW r \in RoomIds PROVE sharerId'[r] = s => sharerId[r] = s
    BY <1>1, <1>2, NoneAssumption DEF SharersWithout
  <2>2. ASSUME NEW r \in RoomIds PROVE s \in viewers'[r] => s \in viewers[r]
    BY <1>1 DEF ViewersWithout
  <2> QED
    BY <2>1, <2>2 DEF StaysOut, Seatless, Shareless
<1>3. Seatless(t) => Seatless(t)'
  BY <1>1 DEF Seatless, ViewersWithout
<1>4. ASSUME Seatless(t), Shareless(t) PROVE Indexed(t)'
  BY <1>1, <1>3, <1>4, NoneAssumption DEF Indexed, Seatless, Shareless, SharersWithout
<1>5. ASSUME NEW s \in Sessions, Indexed(s), s # t PROVE Indexed(s)'
  <2> SUFFICES ASSUME NEW r \in RoomIds, sharerId'[r] = s \/ s \in viewers'[r]
               PROVE  sessionRooms'[s] = r /\ ~(sharerId'[r] = s /\ s \in viewers'[r])
    BY DEF Indexed
  <2>0. r # c
    BY <1>1, <1>5
  <2>1. sharerId'[r] = s => sharerId[r] = s
    BY <1>1, <2>0, NoneAssumption DEF SharersWithout
  <2>2. s \in viewers'[r] => s \in viewers[r]
    BY <1>1, <2>0 DEF ViewersWithout
  <2>3. sessionRooms[s] = r /\ ~(sharerId[r] = s /\ s \in viewers[r])
    BY <1>5, <2>1, <2>2 DEF Indexed
  <2>4. ~(RemovalKind(t) = "room-ended" /\ s \in viewers[sessionRooms[t]])
    <3> SUFFICES ASSUME RemovalKind(t) = "room-ended", s \in viewers[sessionRooms[t]] PROVE FALSE
      OBVIOUS
    <3>1. sessionRooms[t] \in RoomIds /\ sharerId[sessionRooms[t]] = t
      BY DEF RemovalKind, RMTypeOK
    <3>2. sessionRooms[t] = r
      BY <1>5, <2>3, <3>1 DEF Indexed
    <3>3. sharerId[r] = t /\ viewers'[r] = {}
      BY <1>1, <2>0, <3>1, <3>2 DEF ViewersWithout
    <3> QED
      BY <1>5, <2>1, <3>3
  <2>5. sessionRooms'[s] = r
    BY <1>1, <1>5, <2>3, <2>4 DEF IndexWithout
  <2> QED
    BY <2>1, <2>2, <2>3, <2>5
<1> QED
  BY <1>2, <1>3, <1>4, <1>5

LEMMA JoinPlaces ==
  ASSUME RMTypeOK, NEW t \in Sessions, NEW c \in RoomIds, JoinRoom(c, t)
  PROVE  /\ \A s \in Sessions : s # t => StaysOut(s) /\ (Indexed(s) => Indexed(s)')
         /\ Shareless(t) => Shareless(t)'
         /\ Seatless(t) /\ Shareless(t) => Indexed(t)'
<1>1. CASE JoinResult(c, t) = "ok"
  <2>1. /\ UNCHANGED sharerId
        /\ \A r \in RoomIds : viewers'[r] = IF r = c THEN viewers[r] \union {t} ELSE viewers[r]
        /\ \A s \in Sessions : sessionRooms'[s] = IF s = t THEN c ELSE sessionRooms[s]
    BY <1>1 DEF JoinRoom, RMTypeOK
  <2> QED
    BY <2>1 DEF StaysOut, Seatless, Shareless, Indexed
<1>2. CASE JoinResult(c, t) # "ok"
  BY <1>2 DEF JoinRoom, rmVars, StaysOut, Seatless, Shareless, Indexed
<1> QED
  BY <1>1, <1>2
\* Who is in a room has a session there has been.
TablesInUse == \A r \in RoomIds : viewers[r] \subseteq used /\ sharerId[r] \in used \union {None}

LEMMA TableMoves ==
  ASSUME Typed, Next
  PROVE  \/ UNCHANGED rmVars
         \/ \E x \in Apps : Serve(x)
         \/ \E t \in Sessions : RemoveSession(t) /\ UNCHANGED <<sess, used, online, up, shVars, vwVars>>
<1>0. TableTypes /\ FrameTypes /\ SharersTyped
  BY TypedIs
<1>1. ASSUME NEW x \in Apps, Receive(x) PROVE UNCHANGED rmVars
  BY <1>1 DEF Receive
<1>2. ASSUME NEW x \in CanShare, SharingStep(x) PROVE UNCHANGED rmVars
  BY <1>2, SharersStepIs, SharersSend
<1>3. ASSUME NEW x \in CanWatch, ViewingStep(x) PROVE UNCHANGED rmVars
  BY <1>3, ViewersStepIs, ViewersSend
<1> QED
  BY <1>0, <1>1, <1>2, <1>3, SocketsDo DEF Next

LEMMA TablesInUseStep ==
  ASSUME Typed, SessionsInv, TablesInUse, Next
  PROVE  TablesInUse'
<1>0. TableTypes /\ FrameTypes /\ RMTypeOK /\ used \subseteq used'
  BY TypedIs, SessionsMove DEF TableTypes
<1>1. ASSUME UNCHANGED rmVars PROVE TablesInUse'
  BY <1>0, <1>1 DEF TablesInUse, rmVars
<1>2. ASSUME NEW t \in Sessions, RemoveSession(t) PROVE TablesInUse'
  BY <1>0, <1>2 DEF TablesInUse, RemoveSession, SharersWithout, ViewersWithout
<1>3. ASSUME NEW x \in Apps, Serve(x) PROVE TablesInUse'
  <2> DEFINE s == sess[x]
  <2>0. s \in Sessions /\ s \in used
    BY <1>0 DEF TableTypes, SessionsInv
  <2>1. ASSUME NEW r \in RoomIds, CreateRoom(s, r) PROVE TablesInUse'
    <3>1. ASSUME NEW c \in RoomIds
          PROVE  /\ sharerId'[c] = IF c = r THEN s ELSE SharersWithout(s)[c]
                 /\ viewers'[c] = IF c = r THEN {} ELSE ViewersWithout(s)[c]
      BY <2>1 DEF CreateRoom, SharersWithout, ViewersWithout
    <3> QED
      BY <1>0, <2>0, <3>1 DEF TablesInUse, SharersWithout, ViewersWithout
  <2>2. ASSUME NEW r \in RoomIds, JoinRoom(r, s) PROVE TablesInUse'
    <3>1. CASE JoinResult(r, s) = "ok"
      BY <1>0, <2>0, <2>2, <3>1 DEF TablesInUse, JoinRoom, RMTypeOK
    <3>2. CASE JoinResult(r, s) # "ok"
      BY <1>1, <2>2, <3>2 DEF JoinRoom
    <3> QED
      BY <3>1, <3>2
  <2> HIDE DEF s
  <2> QED
    BY <1>0, <1>1, <1>2, <1>3, <2>0, <2>1, <2>2, ServeIs DEF s
<1> QED
  BY <1>1, <1>2, <1>3, TableMoves

LEMMA PlacesOfOthers ==
  ASSUME Typed, SessionsInv, Next, NEW a \in Apps, ~Serve(a), NEW s \in Sessions, s = sess[a]
  PROVE  StaysOut(s) /\ (Indexed(s) => Indexed(s)')
<1>0. TableTypes /\ FrameTypes /\ RMTypeOK
  BY TypedIs DEF TableTypes
<1>1. CASE UNCHANGED rmVars
  BY <1>1 DEF StaysOut, Seatless, Shareless, Indexed, rmVars
<1>2. ASSUME NEW x \in Apps, Serve(x) PROVE StaysOut(s) /\ (Indexed(s) => Indexed(s)')
  <2> DEFINE t == sess[x]
  <2>1. t # s /\ t \in Sessions
    BY <1>0, <1>2 DEF SessionsInv, TableTypes
  <2> HIDE DEF t
  <2> QED
    BY <1>0, <1>1, <1>2, <2>1, ServeIs, RemovalPlaces, CreationPlaces, JoinPlaces DEF t
<1> QED
  BY <1>0, <1>1, <1>2, TableMoves, RemovalPlaces

LEMMA PlacesHandled ==
  ASSUME Typed, NEW a \in Apps, Serve(a), NEW s \in Sessions, s = sess[a], Indexed(s),
         Head(up[a]).type \in {"create-room", "join-room"} => Seatless(s) /\ Shareless(s)
  PROVE  /\ Indexed(s)'
         /\ \A i \in 1 .. Len(up'[a]) + 1 : /\ NoSeatAt(a, i + 1) => NoSeatAt(a, i)'
                                            /\ NoShareAt(a, i + 1) => NoShareAt(a, i)'
<1> DEFINE q == up[a] f == Head(up[a]) J == "join-room" C == "create-room"
<1>0. /\ TableTypes /\ FrameTypes /\ RMTypeOK /\ q \in Seq(UpFrames) /\ q # <<>> /\ up'[a] = Tail(q)
      /\ sess'[a] = s
  BY TypedIs, ServePushes DEF FrameTypes, TableTypes
<1>1. /\ Indexed(s)'
      /\ f.type = "leave-room" => Seatless(s)' /\ Shareless(s)'
      /\ f.type # J => (Seatless(s) => Seatless(s)')
      /\ f.type # C => (Shareless(s) => Shareless(s)')
  <2>1. CASE f.type = "create-room" /\ \E r \in RoomIds : CreateRoom(s, r)
    BY <1>0, <2>1, CreationPlaces
  <2>2. CASE f.type = "join-room" /\ f.room \in RoomIds /\ JoinRoom(f.room, s)
    BY <1>0, <2>2, JoinPlaces
  <2>3. CASE f.type = "leave-room" /\ RemoveSession(s)
    BY <1>0, <2>3, RemovalPlaces
  <2>4. CASE f.type = "signal" /\ UNCHANGED rmVars
    BY <2>4 DEF Seatless, Shareless, Indexed, rmVars
  <2> QED
    BY <1>0, <2>1, <2>2, <2>3, <2>4, ServeIs
<1>2. ASSUME NEW i \in 1 .. Len(Tail(q)) + 1
      PROVE  /\ NoSeatAt(a, i + 1) => LeftBy(Tail(q), i, J) \/ (Lacks(Tail(q), i, J) /\ Seatless(s)')
             /\ NoShareAt(a, i + 1) => LeftBy(Tail(q), i, C) \/ (Lacks(Tail(q), i, C) /\ Shareless(s)')
  <2>1. /\ LeftBy(q, i + 1, J) => LeftBy(Tail(q), i, J) \/ (f.type = "leave-room" /\ Lacks(Tail(q), i, J))
        /\ Lacks(q, i + 1, J) => Lacks(Tail(q), i, J) /\ f.type # J
        /\ LeftBy(q, i + 1, C) => LeftBy(Tail(q), i, C) \/ (f.type = "leave-room" /\ Lacks(Tail(q), i, C))
        /\ Lacks(q, i + 1, C) => Lacks(Tail(q), i, C) /\ f.type # C
    BY <1>0, QueueMovesUp
  <2>2. /\ NoSeatAt(a, i + 1) => LeftBy(q, i + 1, J) \/ (Lacks(q, i + 1, J) /\ Seatless(s))
        /\ NoShareAt(a, i + 1) => LeftBy(q, i + 1, C) \/ (Lacks(q, i + 1, C) /\ Shareless(s))
    BY DEF NoSeatAt, NoShareAt
  <2> HIDE DEF f, q, J, C
  <2> QED
    BY <1>1, <2>1, <2>2
<1>3. ASSUME NEW i \in 1 .. Len(Tail(q)) + 1
      PROVE  /\ NoSeatAt(a, i)' <=> LeftBy(Tail(q), i, J) \/ (Lacks(Tail(q), i, J) /\ Seatless(s)')
             /\ NoShareAt(a, i)' <=> LeftBy(Tail(q), i, C) \/ (Lacks(Tail(q), i, C) /\ Shareless(s)')
  BY <1>0 DEF NoSeatAt, NoShareAt, LeftBy, Lacks, Seatless, Shareless
<1> HIDE DEF q, f, J, C
<1> QED
  BY <1>0, <1>1, <1>2, <1>3

LEMMA PlacesAppended ==
  ASSUME Typed, NEW a \in Apps, NEW f \in UpFrames, NEW s \in Sessions, s = sess[a], s = sess'[a], StaysOut(s),
         up'[a] = up[a] \o <<f>> \/ up'[a] = up[a] \o <<f, f>>
  PROVE  /\ \A i \in 1 .. Last(a) : /\ NoSeatAt(a, i) => NoSeatAt(a, i)'
                                    /\ NoShareAt(a, i) => NoShareAt(a, i)'
         /\ f.type = "leave-room" => NoSeatAt(a, Last(a))' /\ NoShareAt(a, Last(a))'
         /\ f.type # "join-room" /\ NoSeatAt(a, Last(a)) => NoSeatAt(a, Last(a))'
         /\ f.type # "create-room" /\ NoShareAt(a, Last(a)) => NoShareAt(a, Last(a))'
<1> DEFINE q == up[a]
           SeatAt(p, i) == LeftBy(p, i, "join-room") \/ (Lacks(p, i, "join-room") /\ Seatless(s)')
           ShareAt(p, i) == LeftBy(p, i, "create-room") \/ (Lacks(p, i, "create-room") /\ Shareless(s)')
<1>0. q \in Seq(UpFrames) /\ Len(q) \in Nat
  BY TypedIs DEF FrameTypes
<1>1. \A i : /\ NoSeatAt(a, i) => SeatAt(q, i)
             /\ NoShareAt(a, i) => ShareAt(q, i)
  BY DEF NoSeatAt, NoShareAt, StaysOut
<1>2. /\ \A i : NoSeatAt(a, i)' <=> SeatAt(up'[a], i)
      /\ \A i : NoShareAt(a, i)' <=> ShareAt(up'[a], i)
      /\ NoSeatAt(a, Last(a))' <=> SeatAt(up'[a], Len(up'[a]) + 1)
      /\ NoShareAt(a, Last(a))' <=> ShareAt(up'[a], Len(up'[a]) + 1)
  BY DEF NoSeatAt, NoShareAt, Last, LeftBy, Lacks, Seatless, Shareless
<1>3. ASSUME NEW p \in Seq(UpFrames)
      PROVE  /\ \A i \in 1 .. Len(p) + 1 : /\ SeatAt(p, i) => SeatAt(p \o <<f>>, i)
                                           /\ ShareAt(p, i) => ShareAt(p \o <<f>>, i)
             /\ LET e == Len(p \o <<f>>) + 1 IN
                /\ f.type = "leave-room" => SeatAt(p \o <<f>>, e) /\ ShareAt(p \o <<f>>, e)
                /\ f.type # "join-room" /\ SeatAt(p, Len(p) + 1) => SeatAt(p \o <<f>>, e)
                /\ f.type # "create-room" /\ ShareAt(p, Len(p) + 1) => ShareAt(p \o <<f>>, e)
  <2>1. "join-room" # "leave-room" /\ "create-room" # "leave-room"
    OBVIOUS
  <2> QED
    BY <2>1, QueueGetsLonger
<1>4. /\ q \o <<f>> \in Seq(UpFrames) /\ q \o <<f, f>> = (q \o <<f>>) \o <<f>>
      /\ Len(q \o <<f>>) = Len(q) + 1
  BY <1>0
<1> HIDE DEF SeatAt, ShareAt, q
<1>5. CASE up'[a] = q \o <<f>>
  BY <1>0, <1>1, <1>2, <1>3, <1>5 DEF Last, q
<1>6. CASE up'[a] = q \o <<f, f>>
  <2> DEFINE p == q \o <<f>>
  <2>1. p \in Seq(UpFrames) /\ Len(p) = Len(q) + 1 /\ up'[a] = p \o <<f>>
    BY <1>4, <1>6
  <2> HIDE DEF p
  <2>2. \A i \in 1 .. Len(q) + 1 : i \in 1 .. Len(p) + 1
    BY <1>0, <2>1
  <2>3. /\ \A i \in 1 .. Len(q) + 1 : /\ SeatAt(q, i) => SeatAt(up'[a], i)
                                      /\ ShareAt(q, i) => ShareAt(up'[a], i)
    BY <1>0, <1>3, <2>1, <2>2 DEF p
  <2>4. LET e == Len(up'[a]) + 1 IN
        /\ f.type = "leave-room" => SeatAt(up'[a], e) /\ ShareAt(up'[a], e)
        /\ f.type # "join-room" /\ SeatAt(p, Len(p) + 1) => SeatAt(up'[a], e)
        /\ f.type # "create-room" /\ ShareAt(p, Len(p) + 1) => ShareAt(up'[a], e)
    BY <1>3, <2>1
  <2>5. /\ f.type # "join-room" /\ SeatAt(q, Len(q) + 1) => SeatAt(p, Len(p) + 1)
        /\ f.type # "create-room" /\ ShareAt(q, Len(q) + 1) => ShareAt(p, Len(p) + 1)
    BY <1>0, <1>3 DEF p
  <2> QED
    BY <1>1, <1>2, <2>3, <2>4, <2>5 DEF Last, q
<1> QED
  BY <1>5, <1>6 DEF q

\* How an application's connection, and the frames queued on it, change in a step.
Broken(a) == ~online'[a] /\ sess'[a] = sess[a] /\ up'[a] = <<>>
Renewed(a) ==
  /\ ~online[a] /\ online'[a] /\ sess'[a] \in Sessions \ used /\ up[a] = <<>> /\ up'[a] = <<>>
  /\ UNCHANGED <<rmVars, down, shVars, vwVars>>
Untouched(a) == online'[a] = online[a] /\ sess'[a] = sess[a]

LEMMA ConnectionMoves ==
  ASSUME Typed, SessionsInv, Next, NEW a \in Apps
  PROVE  Untouched(a) \/ Broken(a) \/ Renewed(a)
<1>0. /\ TableTypes /\ FrameTypes /\ SharersTyped /\ online \in [Apps -> BOOLEAN] /\ sess \in [Apps -> Sessions]
      /\ up \in [Apps -> Seq(UpFrames)] /\ CanShare \subseteq Apps /\ CanWatch \subseteq Apps
  BY TypedIs, SharersAssumption, WatchersAssumption DEF TableTypes, FrameTypes
<1>1. ASSUME NEW x \in Apps, Receive(x) PROVE Untouched(a)
  BY <1>1 DEF Receive, Untouched
<1>2. ASSUME NEW x \in Apps, Serve(x) PROVE Untouched(a)
  BY <1>0, <1>2, ServePushes DEF Untouched
<1>3. ASSUME NEW x \in CanShare, SharingStep(x) PROVE Untouched(a)
  BY <1>3, SharersStepIs, SharersSend DEF Untouched
<1>4. ASSUME NEW x \in CanWatch, ViewingStep(x) PROVE Untouched(a)
  BY <1>4, ViewersStepIs, ViewersSend DEF Untouched
<1>5. ASSUME SocketStep, UNCHANGED <<shVars, vwVars>> PROVE Untouched(a) \/ Broken(a) \/ Renewed(a)
  <2>1. ASSUME NEW x \in Apps, up' = [up EXCEPT ![x] = <<>>], online' = [online EXCEPT ![x] = FALSE], UNCHANGED sess
        PROVE  Untouched(a) \/ Broken(a)
    BY <1>0, <2>1 DEF Untouched, Broken
  <2>2. ASSUME NEW x \in Apps, NEW s \in Sessions, ~online[x], s \notin used,
               online' = [online EXCEPT ![x] = TRUE], sess' = [sess EXCEPT ![x] = s],
               UNCHANGED <<rmVars, gone, up, down, happened>>
        PROVE  Untouched(a) \/ Renewed(a)
    BY <1>0, <1>5, <2>2 DEF Untouched, Renewed, SessionsInv
  <2>3. ASSUME UNCHANGED <<sess, online>> PROVE Untouched(a)
    BY <2>3 DEF Untouched
  <2> QED
    BY <1>0, <1>5, <2>1, <2>2, <2>3, SocketsDo
<1> QED
  BY <1>1, <1>2, <1>3, <1>4, <1>5 DEF Next

LEMMA EmptiedBroken ==
  ASSUME Typed, Next, NEW a \in Apps, up'[a] = <<>>, up[a] # <<>>
  PROVE  Serve(a) \/ Broken(a)
<1>0. /\ TableTypes /\ FrameTypes /\ SharersTyped /\ online \in [Apps -> BOOLEAN] /\ sess \in [Apps -> Sessions]
      /\ up \in [Apps -> Seq(UpFrames)] /\ CanShare \subseteq Apps /\ CanWatch \subseteq Apps
  BY TypedIs, SharersAssumption, WatchersAssumption DEF TableTypes, FrameTypes
<1>s. ASSUME NEW x \in Apps, NEW f, NEW g, up' = Sent(x, <<f>>) \/ up' = Sent(x, <<f, g>>) PROVE FALSE
  <2>1. up'[a] = up[a] \/ up'[a] = up[a] \o <<f>> \/ up'[a] = up[a] \o <<f, g>>
    BY <1>0, <1>s DEF Sent
  <2>2. up[a] \in Seq(UpFrames)
    BY <1>0
  <2>3. up[a] \o <<f>> # <<>> /\ up[a] \o <<f, g>> # <<>>
    BY <2>2
  <2> QED
    BY <2>1, <2>3
<1>1. ASSUME NEW x \in Apps, Receive(x) PROVE FALSE
  BY <1>1 DEF Receive
<1>2. ASSUME NEW x \in Apps, Serve(x) PROVE Serve(a)
  BY <1>0, <1>2, ServePushes
<1>3. ASSUME NEW x \in CanShare, SharingStep(x) PROVE FALSE
  <2>1. x \in Apps /\ SharersStep(x)
    BY <1>0, <1>3, SharersStepIs
  <2> QED
    BY <1>s, <2>1, SharersSend
<1>4. ASSUME NEW x \in CanWatch, ViewingStep(x) PROVE FALSE
  <2>1. x \in Apps /\ ViewersStep(x)
    BY <1>0, <1>4, ViewersStepIs
  <2> QED
    BY <1>s, <2>1, ViewersSend
<1>5. ASSUME SocketStep PROVE Broken(a)
  <2>1. ASSUME NEW x \in Apps, up' = [up EXCEPT ![x] = <<>>], online' = [online EXCEPT ![x] = FALSE], UNCHANGED sess
        PROVE  Broken(a)
    BY <1>0, <2>1 DEF Broken
  <2> QED
    BY <1>0, <1>5, <2>1, SocketsDo
<1> QED
  BY <1>1, <1>2, <1>3, <1>4, <1>5 DEF Next

Waits(a) == up'[a] = up[a] /\ ~Serve(a)
IsServed(a) == Serve(a) /\ up[a] # <<>> /\ up'[a] = Tail(up[a])
Sends(a, f) ==
  /\ up'[a] = up[a] \o <<f>> \/ up'[a] = up[a] \o <<f, f>>
  /\ Goes(a, f) /\ online[a] /\ ~Serve(a)

LEMMA LinkMoves ==
  ASSUME Typed, SessionsInv, Next, NEW a \in Apps
  PROVE  \/ Broken(a) /\ ~Serve(a)
         \/ Renewed(a) /\ ~Serve(a)
         \/ Untouched(a) /\ (Waits(a) \/ IsServed(a) \/ \E f \in UpFrames : Sends(a, f))
<1>0. /\ TableTypes /\ FrameTypes /\ up[a] \in Seq(UpFrames) /\ SessionsInv' /\ online \in [Apps -> BOOLEAN]
      /\ Typed' /\ online'[a] \in BOOLEAN
  BY TypedIs, TypedStep, SessionsInvStep DEF FrameTypes, Typed, TableTypes
<1>1. Serve(a) => /\ up[a] # <<>> /\ up'[a] = Tail(up[a]) /\ online'[a] = online[a] /\ sess'[a] = sess[a]
                  /\ up'[a] # up[a] /\ online[a]
  <2> SUFFICES ASSUME Serve(a) PROVE /\ up[a] # <<>> /\ up'[a] = Tail(up[a]) /\ online'[a] = online[a]
                                     /\ sess'[a] = sess[a] /\ up'[a] # up[a] /\ online[a]
    OBVIOUS
  <2>1. up[a] # <<>> /\ up'[a] = Tail(up[a]) /\ UNCHANGED <<online, sess>>
    BY <1>0, ServePushes DEF FrameTypes
  <2>2. Len(Tail(up[a])) # Len(up[a])
    BY <1>0, <2>1
  <2>3. online[a]
    BY <2>1 DEF SessionsInv
  <2> QED
    BY <2>1, <2>2, <2>3
<1>2. CASE Serve(a)
  BY <1>1, <1>2 DEF Untouched, IsServed
<1>3. CASE ~Serve(a) /\ ~Untouched(a)
  BY <1>3, ConnectionMoves
<1>4. CASE ~Serve(a) /\ Untouched(a)
  <2>1. CASE up'[a] = up[a]
    BY <1>4, <2>1 DEF Waits
  <2>2. CASE up'[a] = <<>> /\ up'[a] # up[a]
    <3>1. Broken(a)
      BY <1>4, <2>2, EmptiedBroken
    <3> QED
      BY <1>4, <3>1
  <2>3. ASSUME NEW f \in UpFrames, up'[a] = up[a] \o <<f>> \/ up'[a] = up[a] \o <<f, f>>, Goes(a, f)
        PROVE  Sends(a, f)
    <3>1. up'[a] # <<>>
      BY <1>0, <2>3
    <3>2. online'[a]
      BY <1>0, <3>1 DEF SessionsInv
    <3> QED
      BY <1>4, <2>3, <3>2 DEF Sends, Untouched
  <2> QED
    BY <1>4, <2>1, <2>2, <2>3, UpMoves
<1> QED
  BY <1>2, <1>3, <1>4
(***************************************************************************)
(* A join-room is the first of a's queue, and a's session is in no room    *)
(* when the server comes to a join-room or a create-room.                  *)
(***************************************************************************)
Orderly(a) ==
  \A i \in 1 .. Len(up[a]) :
    /\ up[a][i].type = "join-room" => i = 1
    /\ up[a][i].type \in {"create-room", "join-room"} => NoSeatAt(a, i) /\ NoShareAt(a, i)

LEMMA PlacesMove ==
  ASSUME Typed, SessionsInv, Next, NEW a \in Apps, NEW s \in Sessions, s = sess[a], Untouched(a),
         Indexed(s), Orderly(a)
  PROVE  /\ Waits(a) \/ (\E f \in UpFrames : Sends(a, f)) => StaysOut(s) /\ Indexed(s)'
         /\ IsServed(a) =>
              /\ Indexed(s)'
              /\ \A i \in 1 .. Len(up'[a]) + 1 : /\ NoSeatAt(a, i + 1) => NoSeatAt(a, i)'
                                                 /\ NoShareAt(a, i + 1) => NoShareAt(a, i)'
         /\ Waits(a) =>
              \A i : /\ NoSeatAt(a, i) => NoSeatAt(a, i)'
                     /\ NoShareAt(a, i) => NoShareAt(a, i)'
         /\ \A f \in UpFrames : Sends(a, f) =>
              /\ \A i \in 1 .. Last(a) : /\ NoSeatAt(a, i) => NoSeatAt(a, i)'
                                         /\ NoShareAt(a, i) => NoShareAt(a, i)'
              /\ f.type = "leave-room" => NoSeatAt(a, Last(a))' /\ NoShareAt(a, Last(a))'
              /\ f.type # "join-room" /\ NoSeatAt(a, Last(a)) => NoSeatAt(a, Last(a))'
              /\ f.type # "create-room" /\ NoShareAt(a, Last(a)) => NoShareAt(a, Last(a))'
<1>0. s = sess'[a] /\ FrameTypes /\ up[a] \in Seq(UpFrames)
  BY TypedIs DEF Untouched, FrameTypes
<1>1. CASE ~Serve(a)
  <2>1. StaysOut(s) /\ Indexed(s)'
    BY <1>1, PlacesOfOthers
  <2>2. ASSUME Waits(a), NEW i
        PROVE  /\ NoSeatAt(a, i) => NoSeatAt(a, i)'
               /\ NoShareAt(a, i) => NoShareAt(a, i)'
    <3>1. /\ NoSeatAt(a, i)' <=> LeftBy(up'[a], i, "join-room") \/ (Lacks(up'[a], i, "join-room") /\ Seatless(s)')
          /\ NoShareAt(a, i)' <=> LeftBy(up'[a], i, "create-room") \/ (Lacks(up'[a], i, "create-room") /\ Shareless(s)')
      BY <1>0 DEF NoSeatAt, NoShareAt, LeftBy, Lacks, Seatless, Shareless
    <3> QED
      BY <2>1, <2>2, <3>1 DEF Waits, NoSeatAt, NoShareAt, StaysOut
  <2>3. ASSUME NEW f \in UpFrames, Sends(a, f)
        PROVE  /\ \A i \in 1 .. Last(a) : /\ NoSeatAt(a, i) => NoSeatAt(a, i)'
                                          /\ NoShareAt(a, i) => NoShareAt(a, i)'
               /\ f.type = "leave-room" => NoSeatAt(a, Last(a))' /\ NoShareAt(a, Last(a))'
               /\ f.type # "join-room" /\ NoSeatAt(a, Last(a)) => NoSeatAt(a, Last(a))'
               /\ f.type # "create-room" /\ NoShareAt(a, Last(a)) => NoShareAt(a, Last(a))'
    <3>1. up'[a] = up[a] \o <<f>> \/ up'[a] = up[a] \o <<f, f>>
      BY <2>3 DEF Sends
    <3> QED
      BY <1>0, <2>1, <3>1, PlacesAppended
  <2> QED
    BY <1>1, <2>1, <2>2, <2>3 DEF IsServed
<1>2. CASE Serve(a)
  <2>1. up[a] # <<>>
    BY <1>2, TypedIs, ServePushes
  <2>2. 1 \in 1 .. Len(up[a]) /\ Head(up[a]) = up[a][1]
    BY <1>0, <2>1
  <2>3. Head(up[a]).type \in {"create-room", "join-room"} => Seatless(s) /\ Shareless(s)
    BY <2>2, NothingBefore DEF Orderly, NoSeatAt, NoShareAt
  <2> QED
    BY <1>2, <2>3, PlacesHandled DEF Waits, Sends
<1> QED
  BY <1>1, <1>2

LEMMA LastPlaces ==
  ASSUME Typed, SessionsInv, Next, NEW a \in Apps, Untouched(a), Indexed(sess[a]), Orderly(a)
  PROVE  /\ NoSeatAt(a, Last(a)) =>
              NoSeatAt(a, Last(a))' \/ \E f \in UpFrames : Sends(a, f) /\ f.type = "join-room"
         /\ NoShareAt(a, Last(a)) =>
              NoShareAt(a, Last(a))' \/ \E f \in UpFrames : Sends(a, f) /\ f.type = "create-room"
         /\ \A f \in UpFrames : Sends(a, f) /\ f.type = "leave-room" =>
              NoSeatAt(a, Last(a))' /\ NoShareAt(a, Last(a))'
<1>0. up[a] \in Seq(UpFrames) /\ sess[a] \in Sessions
  BY TypedIs DEF FrameTypes, TableTypes
<1>a. up'[a] \in Seq(UpFrames)
  BY TypedStep, TypedIs DEF FrameTypes, Typed
<1>1. PICK l \in Nat : l = Len(up'[a]) + 1
  BY <1>a
<1>2. /\ NoSeatAt(a, Last(a))' <=> NoSeatAt(a, l)'
      /\ NoShareAt(a, Last(a))' <=> NoShareAt(a, l)'
  BY <1>1 DEF Last, NoSeatAt, NoShareAt, LeftBy, Lacks, Seatless, Shareless
<1>3. CASE Waits(a)
  <2>1. l = Last(a)
    BY <1>1, <1>3 DEF Waits, Last
  <2>2. \A i : /\ NoSeatAt(a, i) => NoSeatAt(a, i)'
               /\ NoShareAt(a, i) => NoShareAt(a, i)'
    BY <1>0, <1>3, PlacesMove
  <2>3. /\ NoSeatAt(a, Last(a)) => NoSeatAt(a, Last(a))'
        /\ NoShareAt(a, Last(a)) => NoShareAt(a, Last(a))'
    BY <1>2, <2>1, <2>2
  <2>4. \A f \in UpFrames : ~Sends(a, f)
    <3> SUFFICES ASSUME NEW f \in UpFrames, Sends(a, f) PROVE FALSE
      OBVIOUS
    <3>1. Len(up[a] \o <<f>>) # Len(up[a]) /\ Len(up[a] \o <<f, f>>) # Len(up[a])
      BY <1>0
    <3> QED
      BY <1>3, <3>1 DEF Waits, Sends
  <2> QED
    BY <2>3, <2>4
<1>4. CASE IsServed(a)
  <2>1. l + 1 = Last(a) + 1 - 1 /\ l \in 1 .. Len(up'[a]) + 1 /\ l + 1 = Last(a)
    BY <1>0, <1>1, <1>4 DEF IsServed, Last
  <2>2. \A i \in 1 .. Len(up'[a]) + 1 : /\ NoSeatAt(a, i + 1) => NoSeatAt(a, i)'
                                        /\ NoShareAt(a, i + 1) => NoShareAt(a, i)'
    BY <1>0, <1>4, PlacesMove
  <2>3. /\ NoSeatAt(a, l + 1) => NoSeatAt(a, l)'
        /\ NoShareAt(a, l + 1) => NoShareAt(a, l)'
    BY <2>1, <2>2
  <2>4. \A f \in UpFrames : ~Sends(a, f)
    BY <1>4 DEF Sends, IsServed
  <2> QED
    BY <1>2, <2>1, <2>3, <2>4
<1>5. ASSUME NEW f \in UpFrames, Sends(a, f)
      PROVE  /\ f.type = "leave-room" => NoSeatAt(a, Last(a))' /\ NoShareAt(a, Last(a))'
             /\ f.type # "join-room" /\ NoSeatAt(a, Last(a)) => NoSeatAt(a, Last(a))'
             /\ f.type # "create-room" /\ NoShareAt(a, Last(a)) => NoShareAt(a, Last(a))'
  BY <1>0, <1>5, PlacesMove
<1>6. Waits(a) \/ IsServed(a) \/ \E f \in UpFrames : Sends(a, f)
  <2>1. ~(Untouched(a) /\ Broken(a)) \/ up[a] = <<>>
    BY DEF Untouched, Broken, SessionsInv
  <2>2. Broken(a) /\ ~Serve(a) /\ up[a] = <<>> => Waits(a)
    BY DEF Broken, Waits
  <2>3. ~(Untouched(a) /\ Renewed(a))
    BY DEF Untouched, Renewed
  <2> QED
    BY <2>1, <2>2, <2>3, LinkMoves
<1> QED
  BY <1>3, <1>4, <1>5, <1>6

LEMMA OrderlyStays ==
  ASSUME Typed, SessionsInv, Next, NEW a \in Apps, Untouched(a), Indexed(sess[a]), Orderly(a),
         \A f \in UpFrames : Sends(a, f) =>
           /\ f.type = "join-room" => up[a] = <<>>
           /\ f.type \in {"create-room", "join-room"} =>
                up'[a] = up[a] \o <<f>> /\ NoSeatAt(a, Last(a)) /\ NoShareAt(a, Last(a))
  PROVE  Orderly(a)'
<1> DEFINE q == up[a]
<1>0. q \in Seq(UpFrames) /\ sess[a] \in Sessions /\ Len(q) \in Nat
  BY TypedIs DEF FrameTypes, TableTypes
<1> SUFFICES ASSUME NEW i \in 1 .. Len(up'[a])
             PROVE  /\ up'[a][i].type = "join-room" => i = 1
                    /\ up'[a][i].type \in {"create-room", "join-room"} => NoSeatAt(a, i)' /\ NoShareAt(a, i)'
  BY DEF Orderly, NoSeatAt, NoShareAt
<1>1. ASSUME NEW k \in 1 .. Len(q)
      PROVE  /\ q[k].type = "join-room" => k = 1
             /\ q[k].type \in {"create-room", "join-room"} => NoSeatAt(a, k) /\ NoShareAt(a, k)
  BY DEF Orderly
<1>2. CASE Waits(a)
  <2>1. NoSeatAt(a, i) => NoSeatAt(a, i)'
    BY <1>0, <1>2, PlacesMove
  <2>2. NoShareAt(a, i) => NoShareAt(a, i)'
    BY <1>0, <1>2, PlacesMove
  <2>3. i \in 1 .. Len(q) /\ up'[a] = q
    BY <1>2 DEF Waits
  <2> HIDE DEF q
  <2> QED
    BY <1>1, <2>1, <2>2, <2>3
<1>3. CASE IsServed(a)
  <2>1. up'[a] = Tail(q) /\ q # <<>>
    BY <1>3 DEF IsServed
  <2>2. i \in 1 .. Len(up'[a]) + 1 /\ i + 1 \in 1 .. Len(q) /\ up'[a][i] = q[i + 1] /\ i + 1 # 1
    BY <1>0, <2>1
  <2>3. \A k \in 1 .. Len(up'[a]) + 1 : /\ NoSeatAt(a, k + 1) => NoSeatAt(a, k)'
                                        /\ NoShareAt(a, k + 1) => NoShareAt(a, k)'
    BY <1>0, <1>3, PlacesMove
  <2>4. /\ NoSeatAt(a, i + 1) => NoSeatAt(a, i)'
        /\ NoShareAt(a, i + 1) => NoShareAt(a, i)'
    BY <2>2, <2>3
  <2> HIDE DEF q
  <2> QED
    BY <1>1, <2>2, <2>4
<1>4. ASSUME NEW f \in UpFrames, Sends(a, f)
      PROVE  /\ up'[a][i].type = "join-room" => i = 1
             /\ up'[a][i].type \in {"create-room", "join-room"} => NoSeatAt(a, i)' /\ NoShareAt(a, i)'
  <2>1. \A k \in 1 .. Last(a) : /\ NoSeatAt(a, k) => NoSeatAt(a, k)'
                                /\ NoShareAt(a, k) => NoShareAt(a, k)'
    BY <1>0, <1>4, PlacesMove
  <2>2. CASE i \in 1 .. Len(q)
    <3>1. up'[a][i] = q[i]
      <4>1. (q \o <<f>>)[i] = q[i] /\ (q \o <<f, f>>)[i] = q[i]
        BY <1>0, <2>2
      <4> QED
        BY <1>4, <4>1 DEF Sends
    <3>2. i \in 1 .. Last(a)
      BY <1>0, <2>2 DEF Last
    <3>3. /\ NoSeatAt(a, i) => NoSeatAt(a, i)'
          /\ NoShareAt(a, i) => NoShareAt(a, i)'
      BY <2>1, <3>2
    <3> HIDE DEF q
    <3> QED
      BY <1>1, <2>2, <3>1, <3>3
  <2>3. CASE i \notin 1 .. Len(q)
    <3>1. up'[a][i] = f
      <4>1. CASE up'[a] = q \o <<f>>
        BY <1>0, <2>3, <4>1
      <4>2. CASE up'[a] = q \o <<f, f>>
        BY <1>0, <2>3, <4>2
      <4> QED
        BY <1>4, <4>1, <4>2 DEF Sends
    <3>2. up'[a] = q \o <<f>> => i = Last(a) /\ Last(a) \in 1 .. Last(a)
      BY <1>0, <2>3 DEF Last
    <3>3. up[a] = <<>> => Last(a) = 1
      BY DEF Last
    <3>4. f.type \in {"create-room", "join-room"} =>
            /\ up'[a] = q \o <<f>> /\ NoSeatAt(a, Last(a)) /\ NoShareAt(a, Last(a))
            /\ f.type = "join-room" => up[a] = <<>>
      BY <1>4
    <3> HIDE DEF q
    <3>5. ASSUME i = Last(a), Last(a) \in 1 .. Last(a), NoSeatAt(a, Last(a)), NoShareAt(a, Last(a))
          PROVE  NoSeatAt(a, i)' /\ NoShareAt(a, i)'
      <4>1. i \in 1 .. Last(a) /\ NoSeatAt(a, i) /\ NoShareAt(a, i)
        BY <3>5
      <4> QED
        BY <2>1, <4>1
    <3> QED
      BY <3>1, <3>2, <3>3, <3>4, <3>5
  <2> QED
    BY <2>2, <2>3
<1>5. Waits(a) \/ IsServed(a) \/ \E f \in UpFrames : Sends(a, f)
  <2>1. ~(Untouched(a) /\ Broken(a)) \/ up[a] = <<>>
    BY DEF Untouched, Broken, SessionsInv
  <2>2. Broken(a) /\ ~Serve(a) /\ up[a] = <<>> => Waits(a)
    BY DEF Broken, Waits
  <2>3. ~(Untouched(a) /\ Renewed(a))
    BY DEF Untouched, Renewed
  <2> QED
    BY <2>1, <2>2, <2>3, LinkMoves
<1> QED
  BY <1>2, <1>3, <1>4, <1>5

LEMMA LeaveSends ==
  ASSUME Typed, NEW a \in Apps, online[a],
         up' = Sent(a, <<Plain("leave-room")>>) \/ up' = Sent(a, <<Plain("leave-room"), Plain("leave-room")>>)
  PROVE  \E f \in UpFrames : Sends(a, f) /\ f.type = "leave-room"
<1> DEFINE f == Plain("leave-room")
<1>1. f \in UpFrames /\ f.type = "leave-room" /\ Goes(a, f)
  BY UpFramesAre, KindsAre DEF Goes
<1>2. up \in [Apps -> Seq(UpFrames)] /\ TableTypes /\ FrameTypes
  BY TypedIs DEF FrameTypes
<1>3. up'[a] = up[a] \o <<f>> \/ up'[a] = up[a] \o <<f, f>>
  BY <1>2 DEF Sent
<1> HIDE DEF f
<1>4. ~Serve(a)
  <2> SUFFICES ASSUME Serve(a) PROVE FALSE
    OBVIOUS
  <2>1. up'[a] = Tail(up[a]) /\ up[a] # <<>> /\ up[a] \in Seq(UpFrames)
    BY <1>2, ServePushes
  <2>2. Len(Tail(up[a])) < Len(up[a]) /\ Len(up[a] \o <<f>>) > Len(up[a]) /\ Len(up[a] \o <<f, f>>) > Len(up[a])
    BY <2>1
  <2>3. Len(up[a]) \in Nat /\ Len(Tail(up[a])) \in Nat
    BY <2>1
  <2> QED
    BY <1>3, <2>1, <2>2, <2>3
<1> QED
  BY <1>1, <1>3, <1>4 DEF Sends
-----------------------------------------------------------------------------
(***************************************************************************)
(* An application that is never in two places at the server.               *)
(***************************************************************************)
OneRole(a) == Spared({a}, {"both roles"})
Tame(a) == Steady(a) /\ InOnePlace(a)

LEMMA SparedSome ==
  ASSUME NEW who, NEW ms, NEW ns, ms \subseteq ns, Spared(who, ns)
  PROVE  Spared(who, ms)
BY DEF Spared

LEMMA TameIs ==
  ASSUME NEW a \in CanWatch, Tame(a)
  PROVE  Steady(a) /\ Kept(a) /\ Calm(a) /\ OneRole(a)
<1> DEFINE ns == {"drop", "offer refused", "quick rejoin", "both roles"}
<1>1. Spared({a}, ns)
  BY Zenon DEF Tame, InOnePlace
<1>2. {"quick rejoin"} \subseteq ns /\ {"both roles"} \subseteq ns
  BY Zenon
<1>3. Quits \subseteq ns
  BY Zenon DEF Quits
<1> HIDE DEF ns
<1>4. Kept(a)
  BY <1>1, <1>3, SparedSome, Zenon DEF Kept
<1>5. Calm(a) /\ OneRole(a)
  BY <1>1, <1>2, SparedSome, Zenon DEF Calm, OneRole
<1> QED
  BY <1>4, <1>5, Zenon DEF Tame

LEMMA TameLater ==
  ASSUME NEW a \in CanWatch, Tame(a)'
  PROVE  Steady(a)' /\ Kept(a)' /\ Calm(a)' /\ OneRole(a)'
<1> DEFINE ns == {"drop", "offer refused", "quick rejoin", "both roles"}
<1>1. Spared({a}, ns)'
  BY Zenon DEF Tame, InOnePlace
<1>2. {"quick rejoin"} \subseteq ns /\ {"both roles"} \subseteq ns
  BY Zenon
<1>3. Quits \subseteq ns
  BY Zenon DEF Quits
<1> HIDE DEF ns
<1>4. Kept(a)'
  BY <1>1, <1>3 DEF Kept, Spared
<1>5. Calm(a)' /\ OneRole(a)'
  <2> DEFINE cs == {"quick rejoin"} os == {"both roles"}
  <2>1. cs \subseteq ns /\ os \subseteq ns /\ (Calm(a)' <=> Spared({a}, cs)') /\ (OneRole(a)' <=> Spared({a}, os)')
    BY <1>2, Zenon DEF Calm, OneRole
  <2> HIDE DEF cs, os
  <2> QED
    BY <1>1, <2>1 DEF Spared
<1> QED
  BY <1>4, <1>5, Zenon DEF Tame

LEMMA TameBefore ==
  ASSUME happened \subseteq happened', NEW a, Tame(a)'
  PROVE  Tame(a)
BY SparedBefore, Zenon DEF Tame, Steady, InOnePlace

LEMMA JoinsAlone ==
  ASSUME NEW b \in CanWatch, Joins(b), OneRole(b)'
  PROVE  ~Sharing(b)
<1> SUFFICES ASSUME Sharing(b) PROVE FALSE
  OBVIOUS
<1> DEFINE ms == OnlyIf(Unsettled(b), "quick rejoin") \union OnlyIf(Sharing(b), "both roles")
<1>1. MishapsAllowed({b}, ms)
  BY Zenon DEF Joins
<1>2. "both roles" \in ms
  BY Zenon DEF OnlyIf
<1>3. "both roles" \in {"both roles"}
  BY Zenon
<1> HIDE DEF ms
<1> QED
  BY <1>1, <1>2, <1>3, SparedIsNotRecorded, Zenon DEF OneRole

LEMMA BeginsAlone ==
  ASSUME NEW a \in CanShare, NEW n \in Starts, Begins(a, n), OneRole(a)'
  PROVE  ~Watching(a)
<1> SUFFICES ASSUME Watching(a) PROVE FALSE
  OBVIOUS
<1> DEFINE ms == OnlyIf(Watching(a), "both roles") \union OnlyIf(sh[a].stream # 0, "start over error")
<1>1. MishapsAllowed({a}, ms)
  BY Zenon DEF Begins, Start
<1>2. "both roles" \in ms
  BY Zenon DEF OnlyIf
<1>3. "both roles" \in {"both roles"}
  BY Zenon
<1> HIDE DEF ms
<1> QED
  BY <1>1, <1>2, <1>3, SparedIsNotRecorded, Zenon DEF OneRole

(***************************************************************************)
(* How a viewer comes to watch and ceases to.                              *)
(***************************************************************************)
LEMMA WatchMoves ==
  ASSUME Typed, SessionsInv, Next, NEW b \in CanWatch, Kept(b)', Tidy(b), Placed(b)
  PROVE  \/ vw'[b].state = vw[b].state
         \/ Joins(b) /\ UNCHANGED shVars /\ vw[b].state \in Away /\ vw'[b].state = "connecting"
         \/ vw'[b].state = "idle" /\ \E f \in UpFrames : Sends(b, f) /\ f.type = "leave-room"
         \/ vw[b].state \notin Away /\ vw'[b].state \notin Away
         \/ /\ Receive(b) /\ vw[b].state \notin Away /\ vw'[b].state \in Away /\ vw'[b].state # "idle"
            /\ down[b] # <<>> /\ Head(down[b]).type \in {"error", "room-ended"}
<1>0. /\ TableTypes /\ FrameTypes /\ ViewersTyped /\ SharersTyped /\ b \in Apps
      /\ vw \in [CanWatch -> Watchers] /\ vw[b] \in Watchers
      /\ online[b] /\ CanWatch \subseteq Apps
  BY TypedIs, WatchersAssumption DEF ViewersTyped, WatchTypes, Tidy
<1> DEFINE Leaving == vw'[b].state = "idle" /\ \E f \in UpFrames : Sends(b, f) /\ f.type = "leave-room"
<1>1. ASSUME NEW x \in Apps, Receive(x)
      PROVE  \/ vw'[b].state = vw[b].state
             \/ /\ Receive(b) /\ vw[b].state \notin Away /\ vw'[b].state \in Away /\ vw'[b].state # "idle"
                /\ down[b] # <<>> /\ Head(down[b]).type \in {"error", "room-ended"}
  <2>1. CASE x = b
    <3> DEFINE m == Head(down[b])
    <3>1. ViewingHears(b, m) /\ down[b] # <<>>
      BY <1>1, <2>1 DEF Receive
    <3>2. CASE UNCHANGED vw
      BY <3>2
    <3>3. ASSUME vw[b].listening # 0, NEW state \in {"disconnected", "error"}, CleanUpWatch(b, state, vw[b].room, Unsubscribed(b))
          PROVE  vw'[b].state = state /\ vw[b].state \notin Away /\ state \in Away
      <4>1. vw[b].room \in RoomIds \union {None} /\ state \in WatchStates /\ Unsubscribed(b) \in Nat
        BY <1>0, UnsubscribedNat DEF Watchers, WatchStates
      <4>2. \E w \in Watchers : vw' = [vw EXCEPT ![b] = w] /\ w.state = state
        <5> DEFINE left == Unsubscribed(b)
                   room == vw[b].room
        <5>1. left \in Nat /\ room \in RoomIds \union {None} /\ CleanUpWatch(b, state, room, left)
          BY <3>3, <4>1
        <5> HIDE DEF left, room
        <5> QED
          BY <1>0, <4>1, <5>1, CleanUpWatchIs
      <4> QED
        BY <1>0, <3>3, <4>2 DEF Tidy, Away
    <3>4. CASE vw[b].listening # 0 /\ m.type = "offer" /\ TakeOffer(b, m)
      <4> DEFINE k == vw[b].made + 1
      <4>1. vw'[b] = vw[b] \/ vw'[b] = [vw[b] EXCEPT !.conn = k, !.made = k]
        BY <1>0, <3>4 DEF TakeOffer
      <4> HIDE DEF k
      <4> QED
        BY <1>0, <4>1 DEF Watchers
    <3>5. CASE vw[b].listening # 0 /\ m.type = "room-ended" /\ RoomOver(b)
      BY <1>1, <2>1, <3>1, <3>3, <3>5 DEF RoomOver
    <3>6. CASE vw[b].listening # 0 /\ m.type = "error" /\ Refused(b)
      BY <1>1, <2>1, <3>1, <3>3, <3>6 DEF Refused
    <3> QED
      BY <3>1, <3>2, <3>4, <3>5, <3>6 DEF ViewingHears
  <2>2. CASE x # b
    <3>1. CASE x \in CanWatch
      BY <1>0, <1>1, <2>2, <3>1 DEF Receive, ViewingHears, TakeOffer, RoomOver, Refused, CleanUpWatch
    <3>2. CASE x \notin CanWatch
      BY <1>1, <3>2 DEF Receive
    <3> QED
      BY <3>1, <3>2
  <2> QED
    BY <2>1, <2>2
<1>2. ASSUME NEW x \in Apps, Serve(x) PROVE vw'[b].state = vw[b].state
  BY <1>0, <1>2, ServePushes DEF vwVars
<1>3. ASSUME NEW x \in CanShare, SharingStep(x) PROVE vw'[b].state = vw[b].state
  BY <1>0, <1>3, SharersStepIs, SharersStepFrames DEF vwVars
<1>4. ASSUME NEW x \in CanWatch, ViewingStep(x)
      PROVE  \/ vw'[b].state = vw[b].state
             \/ Joins(b) /\ UNCHANGED shVars /\ vw[b].state \in Away /\ vw'[b].state = "connecting"
             \/ Leaving
             \/ vw[b].state \notin Away /\ vw'[b].state \notin Away
  <2>0. ViewersStep(x)
    BY <1>4, ViewersStepIs
  <2>1. CASE x # b
    BY <1>0, <2>0, <2>1, ViewersStepOf
  <2>2. CASE x = b
    <3>1. ASSUME Joins(b) PROVE vw[b].state \in Away /\ vw'[b].state = "connecting"
      <4>1. PICK r \in RoomIds : Join(b, r)
        BY <3>1, JoinsIs
      <4> DEFINE l == vw[b].listening + 1
      <4>2. vw'[b] = [vw[b] EXCEPT !.state = "connecting", !.room = r, !.listening = l, !.subscribed = TRUE]
        BY <1>0, <4>1 DEF Join
      <4> HIDE DEF l
      <4>3. vw'[b].state = "connecting"
        BY <1>0, <4>2 DEF Watchers
      <4> QED
        BY <4>1, <4>3 DEF Join, Away
    <3>2. ASSUME Leave(b) PROVE Leaving
      <4>1. /\ CleanUpWatch(b, "idle", None, 0)
            /\ \/ up' = Sent(b, <<Plain("leave-room")>>)
               \/ up' = Sent(b, <<Plain("leave-room"), Plain("leave-room")>>)
        BY <3>2 DEF Leave, LeaveFrames
      <4>2. \E w \in Watchers : vw' = [vw EXCEPT ![b] = w] /\ w.state = "idle"
        <5> DEFINE left == 0
                   room == None
                   state == "idle"
        <5>1. left \in Nat /\ room \in RoomIds \union {None} /\ state \in WatchStates
          BY DEF WatchStates
        <5>2. CleanUpWatch(b, state, room, left)
          BY <4>1
        <5>3. state = "idle"
          OBVIOUS
        <5> HIDE DEF left, room, state
        <5>4. \E w \in Watchers : vw' = [vw EXCEPT ![b] = w] /\ w.state = state
          BY <1>0, <5>1, <5>2, CleanUpWatchIs
        <5> QED
          BY <5>3, <5>4
      <4>3. vw'[b].state = "idle"
        BY <1>0, <4>2
      <4>4. \E f \in UpFrames : Sends(b, f) /\ f.type = "leave-room"
        BY <1>0, <4>1, LeaveSends
      <4> QED
        BY <4>3, <4>4
    <3>3. ASSUME AnswerReady(b) PROVE vw'[b].state = vw[b].state
      <4> DEFINE p == Head(offers[b])
      <4>2. vw'[b] = [vw[b] EXCEPT !.remote = p, !.state = vw[b].state]
        BY <1>0, <3>3 DEF AnswerReady
      <4> HIDE DEF p
      <4> QED
        BY <1>0, <4>2 DEF Watchers
    <3>4. ASSUME AnswerFails(b) PROVE FALSE
      <4> DEFINE o == Head(offers[b])
      <4>1. vw[b].remote = o /\ offers[b] # <<>>
        BY <3>4, RefusedWhy, AnswerFailsIs
      <4>2. o \in TakenOffers /\ Has(offers[b], o)
        BY <1>0, <4>1, WatcherIs, QueueShrinks
      <4> QED
        BY <4>1, <4>2 DEF Placed, OnePlace, Applied, Pending
    <3>5. ASSUME PictureLost(b) \/ PictureArrives(b) PROVE vw[b].state \notin Away /\ vw'[b].state \notin Away
      <4>1. \/ vw[b].remote # NoOffer /\ vw'[b] = [vw[b] EXCEPT !.state = "reconnecting"]
            \/ vw[b].conn # 0 /\ vw'[b] = [vw[b] EXCEPT !.state = "connected"]
        BY <1>0, <3>5 DEF PictureLost, PictureArrives
      <4>2. vw'[b].state \in {"connected", "reconnecting"}
        BY <1>0, <4>1 DEF Watchers
      <4> QED
        BY <4>1, <4>2 DEF Tidy, Away
    <3> HIDE DEF Leaving
    <3> QED
      BY <2>0, <2>2, <3>1, <3>2, <3>3, <3>4, <3>5, LeavesIs DEF ViewersStep
  <2> QED
    BY <2>1, <2>2
<1>5. ASSUME UNCHANGED <<shVars, vwVars>> PROVE vw'[b].state = vw[b].state
  BY <1>5 DEF vwVars
<1> HIDE DEF Leaving
<1>6. \/ vw'[b].state = vw[b].state
      \/ Joins(b) /\ UNCHANGED shVars /\ vw[b].state \in Away /\ vw'[b].state = "connecting"
      \/ Leaving
      \/ vw[b].state \notin Away /\ vw'[b].state \notin Away
      \/ /\ Receive(b) /\ vw[b].state \notin Away /\ vw'[b].state \in Away /\ vw'[b].state # "idle"
         /\ down[b] # <<>> /\ Head(down[b]).type \in {"error", "room-ended"}
  BY <1>1, <1>2, <1>3, <1>4, <1>5 DEF Next
<1> QED
  BY <1>6 DEF Leaving

\* A stream is let go by stop(), which tells the server.
LEMMA StreamMoves ==
  ASSUME Typed, SessionsInv, Next, NEW a \in CanShare, InOrder(a), Untouched(a), online[a]
  PROVE  sh'[a].stream = 0 => \/ sh[a].stream = 0
                              \/ \E f \in UpFrames : Sends(a, f) /\ f.type = "leave-room"
<1>0. /\ TableTypes /\ FrameTypes /\ SharersTyped /\ SharingTypeOK /\ ViewersTyped /\ a \in Apps
      /\ sh[a] \in Managers /\ sh \in [CanShare -> Managers] /\ online'[a]
      /\ sh[a].stream \in 0 .. MaxStarts
  BY TypedIs, SharersAssumption, SharerIs DEF SharersTyped, SharingTypeOK, Untouched
<1> SUFFICES ASSUME sh[a].stream # 0
             PROVE  sh'[a].stream # 0 \/ \E f \in UpFrames : Sends(a, f) /\ f.type = "leave-room"
  OBVIOUS
<1>n. ~AwaitsCapture(a)
  BY DEF InOrder, OneStart
<1>1. ASSUME NEW x \in Apps, Receive(x) PROVE sh'[a].stream # 0
  <2>1. CASE x = a
    <3> DEFINE m == Head(down[a])
               k == sh[a].made + 1
    <3>1. SharingHears(a, m)
      BY <1>1, <2>1 DEF Receive
    <3>2. \/ sh'[a] = sh[a]
          \/ sh'[a] = [sh[a] EXCEPT !.room = m.room, !.managing = TRUE, !.state = "sharing"]
          \/ sh'[a] = [sh[a] EXCEPT !.made = k]
          \/ sh'[a] = [sh[a] EXCEPT !.state = "error"]
      BY <1>0, <3>1 DEF SharingHears, AddViewer, RemoveViewer
    <3> HIDE DEF m, k
    <3>3. sh'[a].stream = sh[a].stream
      BY <1>0, <3>2 DEF Managers
    <3> QED
      BY <3>3
  <2>2. CASE x # a
    <3>1. CASE x \in CanShare
      BY <1>0, <1>1, <2>2, <3>1, SharingHearsOf DEF Receive
    <3>2. CASE x \notin CanShare
      BY <1>1, <3>2 DEF Receive
    <3> QED
      BY <3>1, <3>2
  <2> QED
    BY <2>1, <2>2
<1>2. ASSUME NEW x \in Apps, Serve(x) PROVE sh'[a].stream # 0
  BY <1>0, <1>2, ServePushes DEF shVars
<1>3. ASSUME NEW x \in CanShare, SharingStep(x)
      PROVE  sh'[a].stream # 0 \/ \E f \in UpFrames : Sends(a, f) /\ f.type = "leave-room"
  <2>0. SharersStep(x)
    BY <1>3, SharersStepIs
  <2>1. CASE x # a
    BY <1>0, <2>0, <2>1, SharersStepOf
  <2>2. CASE x = a
    <3>1. ASSUME Stopped(a) PROVE \E f \in UpFrames : Sends(a, f) /\ f.type = "leave-room"
      BY <1>0, <3>1, LeaveSends DEF Stopped
    <3>2. CASE Stop(a)
      BY <3>1, <3>2, StopIs
    <3>3. ASSUME NEW n \in Starts, Begins(a, n) PROVE sh'[a].stream # 0
      <4>1. sh'[a] = [sh[a] EXCEPT !.state = "starting"]
        BY <1>0, <3>3, BeginsIs
      <4> QED
        BY <1>0, <4>1 DEF Managers
    <3>4. ASSUME NEW n \in Starts, PickerAnswers(a, n) \/ PickerFails(a, n) \/ CaptureStarts(a, n) PROVE FALSE
      BY <1>n, <3>4 DEF PickerAnswers, PickerFails, CaptureStarts, AwaitsCapture
    <3>5. ASSUME NEW n \in Starts, CaptureEnds(a, n) PROVE sh'[a] = sh[a] \/ Stopped(a)
      BY <3>5, CaptureEndsIs
    <3>6. ASSUME NEW v \in Sessions, ConnectionFails(a, v) \/ OfferReady(a, v) PROVE sh'[a] = sh[a]
      BY <3>6, ConnectionFailsIs DEF OfferReady
    <3> QED
      BY <2>0, <2>2, <3>1, <3>2, <3>3, <3>4, <3>5, <3>6 DEF SharersStep
  <2> QED
    BY <2>1, <2>2
<1>4. ASSUME NEW x \in CanWatch, ViewingStep(x) PROVE sh'[a].stream # 0
  BY <1>4, ViewersStepIs, ViewersSend DEF shVars
<1>5. ASSUME UNCHANGED <<shVars, vwVars>> PROVE sh'[a].stream # 0
  BY <1>5 DEF shVars
<1> QED
  BY <1>1, <1>2, <1>3, <1>4, <1>5 DEF Next

\* Who watches does not begin to share, and the other way round.
Apart(a) == Watching(a) => ~Sharing(a)

LEMMA StaysUnshared ==
  ASSUME Typed, SessionsInv, Next, NEW a \in CanShare, InOrder(a), OneRole(a)', Watching(a), ~Sharing(a)
  PROVE  ~Sharing(a)'
<1>0. /\ TableTypes /\ FrameTypes /\ SharersTyped /\ SharingTypeOK /\ ViewersTyped /\ a \in Apps
      /\ sh[a].state = "idle" /\ sh[a].stream = 0 /\ ~AwaitsCapture(a)
  BY TypedIs, SharersAssumption DEF SharersTyped, Sharing
<1> DEFINE Same == sh'[a] = sh[a] /\ starting'[a] = starting[a]
<1>1. ASSUME NEW x \in Apps, Receive(x) PROVE Same
  <2>1. CASE x = a
    <3>1. sh[a].listening = 0
      BY <1>0 DEF InOrder, HoldsNothing
    <3> QED
      BY <1>1, <2>1, <3>1 DEF Receive, SharingHears
  <2>2. CASE x # a
    <3>1. CASE x \in CanShare
      BY <1>0, <1>1, <2>2, <3>1, SharingHearsOf DEF Receive
    <3>2. CASE x \notin CanShare
      BY <1>1, <3>2 DEF Receive
    <3> QED
      BY <1>1, <3>1, <3>2 DEF Receive
  <2> QED
    BY <2>1, <2>2
<1>2. ASSUME NEW x \in Apps, Serve(x) PROVE Same
  BY <1>0, <1>2, ServePushes DEF shVars
<1>3. ASSUME NEW x \in CanShare, SharingStep(x) PROVE Same
  <2>0. SharersStep(x)
    BY <1>3, SharersStepIs
  <2>1. CASE x # a
    BY <1>0, <2>0, <2>1, SharersStepOf
  <2>2. CASE x = a
    <3>1. ASSUME Stop(a) PROVE FALSE
      BY <1>0, <3>1, StopIs
    <3>2. ASSUME NEW n \in Starts, Begins(a, n) PROVE FALSE
      BY <3>2, BeginsAlone
    <3>3. ASSUME NEW n \in Starts, PickerAnswers(a, n) \/ PickerFails(a, n) \/ CaptureStarts(a, n) PROVE FALSE
      BY <1>0, <3>3 DEF PickerAnswers, PickerFails, CaptureStarts, AwaitsCapture
    <3>4. ASSUME NEW n \in Starts, CaptureEnds(a, n) PROVE Same
      BY <1>0, <3>4, CaptureEndsIs
    <3>5. ASSUME NEW v \in Sessions, ConnectionFails(a, v) \/ OfferReady(a, v) PROVE Same
      BY <3>5, ConnectionFailsIs DEF OfferReady
    <3> QED
      BY <2>0, <2>2, <3>1, <3>2, <3>3, <3>4, <3>5 DEF SharersStep
  <2> QED
    BY <2>1, <2>2
<1>4. ASSUME NEW x \in CanWatch, ViewingStep(x) PROVE Same
  BY <1>4, ViewersStepIs, ViewersSend DEF shVars
<1>5. ASSUME UNCHANGED <<shVars, vwVars>> PROVE Same
  BY <1>5 DEF shVars
<1>6. Same
  BY <1>1, <1>2, <1>3, <1>4, <1>5 DEF Next
<1> QED
  BY <1>0, <1>6 DEF Sharing, AwaitsCapture

LEMMA ApartStays ==
  ASSUME Typed, SessionsInv, SharerInv, ViewerInv, Next, NEW a \in Apps, Tame(a)', Apart(a)
  PROVE  Apart(a)'
<1> SUFFICES ASSUME a \in CanWatch, a \in CanShare, vw'[a].state # "idle" PROVE ~Sharing(a)'
  BY DEF Apart, Watching, Sharing
<1>1. Tame(a)
  BY MishapsStay, TameBefore
<1>2. Steady(a) /\ Kept(a) /\ Kept(a)' /\ OneRole(a)'
  BY <1>1, TameIs, TameLater
<1>3. InOrder(a) /\ Tidy(a) /\ Placed(a)
  BY <1>2 DEF SharerInv, ViewerInv
<1>4. CASE Joins(a) /\ UNCHANGED shVars
  <2>1. ~Sharing(a)
    BY <1>2, <1>4, JoinsAlone
  <2> QED
    BY <1>4, <2>1 DEF Sharing, AwaitsCapture, shVars
<1>5. CASE vw[a].state # "idle"
  BY <1>2, <1>3, <1>5, StaysUnshared DEF Apart, Watching
<1> QED
  BY <1>2, <1>3, <1>4, <1>5, WatchMoves DEF Away

(***************************************************************************)
(* Who holds no stream, or watches nothing, is out of the rooms once what  *)
(* it sent has been handled; so is a viewer that is being told that it was *)
(* refused or that the room is over.                                       *)
(***************************************************************************)
Silent(a) == online[a] /\ (a \in CanShare => sh[a].stream = 0)
NotWatching(a) == online[a] /\ (a \in CanWatch => vw[a].state \in Away)
OutWhenSilent(a) == Silent(a) => NoShareAt(a, Last(a))
OutWhenAway(a) == NotWatching(a) => NoSeatAt(a, Last(a))

Warning == {"error", "room-ended"}
IsWarned(b) == \E i \in 1 .. Len(down[b]) : down[b][i].type \in Warning
OutWhenWarned(b) == vw[b].state # "idle" /\ IsWarned(b) => NoSeatAt(b, Last(b))

\* Who watches asks for no room and makes no offers.
OnlyAnswers(b) ==
  vw[b].state # "idle" =>
    \A f \in UpFrames : Has(up[b], f) =>
      f.type # "create-room" /\ (f.type = "signal" => f.signal.type = "answer")

\* What is under way between a viewer and a sharer is of the room the viewer is in.
Linked(b, t) ==
  \E c \in Nat :
    \/ Has(offers[b], [from |-> t, conn |-> c])
    \/ Has(down[b], Offer(t, c))
    \/ \E k \in Nat : Has(up[b], To(t, Answer(sess[b], c, k)))
OneSharer(b) ==
  \A t \in Sessions : Linked(b, t) =>
    ~Asks(b) /\ \A r \in RoomIds : sess[b] \in viewers[r] => sharerId[r] = t

InPlace(a) ==
  /\ Indexed(sess[a]) /\ Orderly(a) /\ Apart(a) /\ OutWhenSilent(a) /\ OutWhenAway(a)
  /\ a \in CanWatch => OutWhenWarned(a) /\ OnlyAnswers(a) /\ OneSharer(a)
PlaceInv == TablesInUse /\ \A a \in Apps : Tame(a) => InPlace(a)

LEMMA GoesKinds ==
  ASSUME Typed, NEW a \in Apps, NEW f \in UpFrames, Goes(a, f)
  PROVE  /\ f.type = "create-room" =>
              a \in CanShare /\ AwaitsCapture(a) /\ sh'[a].stream # 0 /\ up'[a] = up[a] \o <<f>>
         /\ f.type = "join-room" => a \in CanWatch /\ Joins(a) /\ up'[a] = up[a] \o <<f>>
         /\ f.type = "signal" => \/ a \in CanShare /\ \E v \in Sessions : entry[a][v].phase = "offering"
                                 \/ f.signal.type = "answer"
<1>1. CASE f = Plain("leave-room")
  BY <1>1, KindsAre
<1>2. CASE a \in CanShare /\ AwaitsCapture(a) /\ sh'[a].stream # 0 /\ f = Plain("create-room") /\ up'[a] = up[a] \o <<f>>
  BY <1>2, KindsAre
<1>3. CASE a \in CanWatch /\ Joins(a) /\ (\E r \in RoomIds : f = JoinMsg(r)) /\ up'[a] = up[a] \o <<f>>
  BY <1>3, KindsAre
<1>4. CASE a \in CanShare /\ \E v \in Sessions : /\ entry[a][v].phase = "offering"
                                                 /\ entry'[a][v].phase \in {"offered", "answered"}
                                                 /\ f = To(v, Offer(sess[a], entry[a][v].conn))
  BY <1>4, KindsAre
<1>5. CASE /\ a \in CanWatch /\ offers[a] # <<>>
           /\ LET o == Head(offers[a]) IN f = To(o.from, Answer(sess[a], o.conn, vw[a].conn))
  <2> DEFINE g == Answer(sess[a], Head(offers[a]).conn, vw[a].conn)
  <2>1. f = To(Head(offers[a]).from, g) /\ g.type = "answer"
    BY <1>5, KindsAre
  <2> HIDE DEF g
  <2>2. f.type = "signal" /\ f.signal = g
    BY <2>1 DEF To
  <2> QED
    BY <2>1, <2>2
<1> QED
  BY <1>1, <1>2, <1>3, <1>4, <1>5 DEF Goes

LEMMA JoinsConnect ==
  ASSUME Typed, NamesInv, NEW b \in CanWatch, Joins(b), Calm(b)'
  PROVE  /\ vw[b].state \in Away /\ vw'[b].state = "connecting" /\ UNCHANGED <<down, offers>>
         /\ up[b] = <<>> /\ down[b] = <<>> /\ offers[b] = <<>>
         /\ \A f : Has(up'[b], f) => \E r \in RoomIds : f = JoinMsg(r)
<1>0. vw \in [CanWatch -> Watchers] /\ vw[b] \in Watchers /\ up \in [Apps -> Seq(UpFrames)] /\ b \in Apps
  BY TypedIs, WatchersAssumption DEF ViewersTyped, WatchTypes, FrameTypes
<1>1. PICK r \in RoomIds : Join(b, r)
  BY JoinsIs
<1> DEFINE l == vw[b].listening + 1
<1>2. vw'[b] = [vw[b] EXCEPT !.state = "connecting", !.room = r, !.listening = l, !.subscribed = TRUE]
  BY <1>0, <1>1 DEF Join
<1> HIDE DEF l
<1>3. vw'[b].state = "connecting"
  BY <1>0, <1>2 DEF Watchers
<1>4. vw[b].state \in Away /\ UNCHANGED <<down, offers>> /\ up' = Sent(b, <<JoinMsg(r)>>)
  BY <1>1 DEF Join, Away
<1>5. up[b] = <<>> /\ down[b] = <<>> /\ (vw[b].listening # 0 => offers[b] = <<>>)
  BY JoinsSettled DEF Unsettled
<1>6. offers[b] = <<>>
  BY <1>5 DEF NamesInv, DeafTakeNothing
<1>7. up'[b] = <<>> \/ up'[b] = <<JoinMsg(r)>>
  BY <1>0, <1>4, <1>5 DEF Sent
<1>8. \A f : Has(up'[b], f) => f = JoinMsg(r)
  BY <1>7 DEF Has
<1> QED
  BY <1>3, <1>4, <1>5, <1>6, <1>8

\* The lemmas below are about a step of a connection that lasts.
LEMMA OrderlyStep ==
  ASSUME Typed, SessionsInv, SharerInv, NamesInv, Next, NEW a \in Apps, Tame(a), Tame(a)', InPlace(a), Untouched(a)
  PROVE  Orderly(a)'
<1>1. ASSUME NEW f \in UpFrames, Sends(a, f), f.type = "join-room"
      PROVE  up[a] = <<>> /\ up'[a] = up[a] \o <<f>> /\ NoSeatAt(a, Last(a)) /\ NoShareAt(a, Last(a))
  <2>1. a \in CanWatch /\ Joins(a) /\ up'[a] = up[a] \o <<f>> /\ online[a]
    BY <1>1, GoesKinds DEF Sends
  <2>2. Calm(a)' /\ OneRole(a)'
    BY <2>1, TameLater
  <2>3. vw[a].state \in Away /\ up[a] = <<>>
    BY <2>1, <2>2, JoinsConnect
  <2>4. ~Sharing(a)
    BY <2>1, <2>2, JoinsAlone
  <2> QED
    BY <2>1, <2>3, <2>4 DEF InPlace, OutWhenAway, NotWatching, OutWhenSilent, Silent, Sharing
<1>2. ASSUME NEW f \in UpFrames, Sends(a, f), f.type = "create-room"
      PROVE  up'[a] = up[a] \o <<f>> /\ NoSeatAt(a, Last(a)) /\ NoShareAt(a, Last(a))
  <2>1. a \in CanShare /\ AwaitsCapture(a) /\ up'[a] = up[a] \o <<f>> /\ online[a]
    BY <1>2, GoesKinds DEF Sends
  <2>2. sh[a].stream = 0
    BY <2>1 DEF SharerInv, InOrder, OneStart, Tame
  <2>3. a \in CanWatch => vw[a].state \in Away
    BY <2>1 DEF InPlace, Apart, Watching, Sharing, Away
  <2> QED
    BY <2>1, <2>2, <2>3 DEF InPlace, OutWhenAway, NotWatching, OutWhenSilent, Silent
<1> QED
  BY <1>1, <1>2, OrderlyStays DEF InPlace

LEMMA SilentStep ==
  ASSUME Typed, SessionsInv, SharerInv, Next, NEW a \in Apps, Tame(a), InPlace(a), Untouched(a)
  PROVE  OutWhenSilent(a)'
<1> SUFFICES ASSUME online'[a], a \in CanShare => sh'[a].stream = 0 PROVE NoShareAt(a, Last(a))'
  BY DEF OutWhenSilent, Silent
<1>1. online[a] /\ Indexed(sess[a]) /\ Orderly(a)
  BY DEF Untouched, InPlace
<1>2. CASE \E f \in UpFrames : Sends(a, f) /\ f.type = "leave-room"
  BY <1>1, <1>2, LastPlaces
<1>3. CASE a \in CanShare => sh[a].stream = 0
  <2>1. NoShareAt(a, Last(a))
    BY <1>1, <1>3 DEF InPlace, OutWhenSilent, Silent
  <2>2. ~\E f \in UpFrames : Sends(a, f) /\ f.type = "create-room"
    BY GoesKinds DEF Sends
  <2> QED
    BY <1>1, <2>1, <2>2, LastPlaces
<1>4. a \in CanShare => InOrder(a)
  BY DEF SharerInv, Tame
<1> QED
  BY <1>1, <1>2, <1>3, <1>4, StreamMoves

LEMMA AwayStep ==
  ASSUME Typed, SessionsInv, ViewerInv, NamesInv, Next, NEW a \in Apps, Tame(a), Tame(a)', InPlace(a), Untouched(a)
  PROVE  OutWhenAway(a)'
<1> SUFFICES ASSUME online'[a], a \in CanWatch => vw'[a].state \in Away PROVE NoSeatAt(a, Last(a))'
  BY DEF OutWhenAway, NotWatching
<1>1. online[a] /\ Indexed(sess[a]) /\ Orderly(a)
  BY DEF Untouched, InPlace
<1>2. ~\E f \in UpFrames : Sends(a, f) /\ f.type = "join-room"
  <2> SUFFICES ASSUME NEW f \in UpFrames, Sends(a, f), f.type = "join-room" PROVE FALSE
    OBVIOUS
  <2>1. a \in CanWatch /\ Joins(a)
    BY GoesKinds DEF Sends
  <2>2. vw'[a].state = "connecting"
    BY <2>1, TameLater, JoinsConnect
  <2> QED
    BY <2>1, <2>2 DEF Away
<1>3. CASE \E f \in UpFrames : Sends(a, f) /\ f.type = "leave-room"
  BY <1>1, <1>3, LastPlaces
<1>4. CASE NoSeatAt(a, Last(a))
  BY <1>1, <1>2, <1>4, LastPlaces
<1>5. CASE NotWatching(a)
  BY <1>4, <1>5 DEF InPlace, OutWhenAway
<1>6. CASE ~NotWatching(a)
  <2>1. a \in CanWatch /\ vw[a].state \notin Away
    BY <1>1, <1>6 DEF NotWatching
  <2>2. Kept(a)' /\ Tidy(a) /\ Placed(a)
    BY <2>1, TameIs, TameLater DEF ViewerInv
  <2>3. CASE down[a] # <<>> /\ Head(down[a]).type \in {"error", "room-ended"}
    <3>1. down[a] \in Seq(DownFrames)
      BY TypedIs DEF FrameTypes
    <3>2. 1 \in 1 .. Len(down[a]) /\ Head(down[a]) = down[a][1]
      BY <2>3, <3>1
    <3>3. IsWarned(a)
      BY <2>3, <3>2 DEF IsWarned, Warning
    <3>4. vw[a].state # "idle"
      BY <2>1 DEF Away
    <3> QED
      BY <1>4, <2>1, <3>3, <3>4 DEF InPlace, OutWhenWarned
  <2> QED
    BY <1>3, <2>1, <2>2, <2>3, WatchMoves
<1> QED
  BY <1>5, <1>6

LEMMA AnswersStep ==
  ASSUME Typed, SessionsInv, SharerInv, ViewerInv, NamesInv, Next, NEW b \in CanWatch, Tame(b), Tame(b)', InPlace(b)
  PROVE  OnlyAnswers(b)'
<1> SUFFICES ASSUME vw'[b].state # "idle", NEW f \in UpFrames, Has(up'[b], f)
             PROVE  f.type # "create-room" /\ (f.type = "signal" => f.signal.type = "answer")
  BY DEF OnlyAnswers, Has
<1>0. b \in Apps /\ Kept(b)' /\ Calm(b)' /\ OneRole(b)' /\ Tidy(b) /\ Placed(b) /\ OnlyAnswers(b) /\ Apart(b)
  BY WatchersAssumption, TameIs, TameLater DEF ViewerInv, InPlace
<1>1. CASE Joins(b)
  <2>1. \E r \in RoomIds : f = JoinMsg(r)
    BY <1>0, <1>1, JoinsConnect
  <2> QED
    BY <2>1, KindsAre
<1>2. CASE vw[b].state # "idle"
  <2>1. ~Sharing(b)
    BY <1>0, <1>2 DEF Apart, Watching
  <2>2. CASE Has(up[b], f)
    BY <1>0, <1>2, <2>2 DEF OnlyAnswers
  <2>3. CASE Goes(b, f)
    <3>1. ~(b \in CanShare /\ AwaitsCapture(b))
      BY <2>1 DEF Sharing
    <3>2. ~(b \in CanShare /\ \E v \in Sessions : entry[b][v].phase = "offering")
      <4> SUFFICES ASSUME b \in CanShare, NEW v \in Sessions, entry[b][v].phase = "offering" PROVE FALSE
        OBVIOUS
      <4>1. entry[b] = NoEntries
        BY <2>1 DEF Sharing, SharerInv, InOrder, HoldsNothing, Tame
      <4> QED
        BY <4>1 DEF NoEntries, NoEntry
    <3> QED
      BY <1>0, <2>3, <3>1, <3>2, GoesKinds
  <2> QED
    BY <1>0, <2>2, <2>3, UpHas
<1> QED
  BY <1>0, <1>1, <1>2, WatchMoves DEF Away

\* A room that keeps a viewer keeps its sharer, and only a join takes a seat.
LEMMA SeatsKept ==
  ASSUME Typed, SessionsInv, Next, NEW b \in Apps, NEW s \in Sessions, s = sess[b],
         ~(Serve(b) /\ Head(up[b]).type = "join-room"), NEW r \in RoomIds, s \in viewers'[r]
  PROVE  s \in viewers[r] /\ sharerId'[r] = sharerId[r]
<1>0. TableTypes /\ FrameTypes /\ RMTypeOK
  BY TypedIs DEF TableTypes
<1> DEFINE Fine == s \in viewers[r] /\ sharerId'[r] = sharerId[r]
<1>1. ASSUME UNCHANGED rmVars PROVE Fine
  BY <1>1 DEF rmVars
<1>2. ASSUME NEW t \in Sessions, RemoveSession(t) PROVE Fine
  BY <1>2 DEF RemoveSession, SharersWithout, ViewersWithout, RemovalKind
<1>3. ASSUME NEW t \in Sessions, NEW c \in RoomIds, CreateRoom(t, c) PROVE Fine
  <2>1. /\ sharerId'[r] = IF r = c THEN t ELSE SharersWithout(t)[r]
        /\ viewers'[r] = IF r = c THEN {} ELSE ViewersWithout(t)[r]
    BY <1>3 DEF CreateRoom, SharersWithout, ViewersWithout
  <2> QED
    BY <2>1 DEF SharersWithout, ViewersWithout, RemovalKind
<1>4. ASSUME NEW t \in Sessions, t # s, NEW c \in RoomIds, JoinRoom(c, t) PROVE Fine
  <2>1. CASE JoinResult(c, t) = "ok"
    BY <1>0, <1>4, <2>1 DEF JoinRoom, RMTypeOK
  <2>2. CASE JoinResult(c, t) # "ok"
    BY <1>1, <1>4, <2>2 DEF JoinRoom
  <2> QED
    BY <2>1, <2>2
<1>5. ASSUME NEW x \in Apps, Serve(x) PROVE Fine
  <2> DEFINE t == sess[x]
  <2>1. t \in Sessions /\ (t = s => x = b)
    BY <1>0 DEF SessionsInv, TableTypes
  <2>2. \/ \E c \in RoomIds : CreateRoom(t, c)
        \/ Head(up[x]).type = "join-room" /\ \E c \in RoomIds : JoinRoom(c, t)
        \/ RemoveSession(t) \/ UNCHANGED rmVars
    BY <1>0, <1>5, ServeIs
  <2> HIDE DEF t, Fine
  <2> QED
    BY <1>1, <1>2, <1>3, <1>4, <1>5, <2>1, <2>2
<1> QED
  BY <1>1, <1>2, <1>5, TableMoves

\* What comes to be linked with a viewer.
LEMMA LinkedMoves ==
  ASSUME Typed, SessionsInv, NamesInv, Next, NEW b \in CanWatch, NEW s \in Sessions, s = sess[b], s = sess'[b],
         NEW t \in Sessions, Linked(b, t)'
  PROVE  \/ Linked(b, t)
         \/ \E x \in Apps : t = sess[x] /\ ResolveTarget(t, s) = "ok" /\ UNCHANGED rmVars
<1>0. /\ TableTypes /\ FrameTypes /\ b \in Apps /\ offers[b] \in Seq(TakenOffers)
  BY TypedIs, WatchersAssumption, WatcherIs
<1>1. PICK c \in Nat : \/ Has(offers'[b], [from |-> t, conn |-> c])
                       \/ Has(down'[b], Offer(t, c))
                       \/ \E k \in Nat : Has(up'[b], To(t, Answer(s, c, k)))
  BY DEF Linked, Has
<1>2. CASE Has(offers'[b], [from |-> t, conn |-> c])
  <2> DEFINE o == [from |-> t, conn |-> c]
  <2>1. o \in TakenOffers /\ OfferOf(o) = Offer(t, c)
    BY DEF TakenOffers, OfferOf
  <2>2. Has(offers[b], o) \/ Has(down[b], OfferOf(o))
    BY <1>2, <2>1, OffersMove
  <2> QED
    BY <2>1, <2>2 DEF Linked
<1>3. CASE Has(down'[b], Offer(t, c))
  <2> DEFINE g == Offer(t, c)
  <2> SUFFICES ASSUME ~Has(down[b], g)
               PROVE  \E x \in Apps : t = sess[x] /\ ResolveTarget(t, s) = "ok" /\ UNCHANGED rmVars
    BY DEF Linked
  <2>1. Comes(b, g) /\ g.type = "offer"
    BY <1>0, <1>3, DownHas, KindsAre
  <2>2. PICK x \in Apps : Serve(x) /\ up[x] # <<>> /\ Head(up[x]) = To(s, g)
    BY <2>1, FramesDiffer DEF Comes, Given
  <2>3. up[x] \in Seq(UpFrames) /\ Has(up[x], To(s, g))
    BY <1>0, <2>2, HeadOfUp, QueueShrinks
  <2>4. t = sess[x]
    BY <2>3 DEF NamesInv, SentInOwnName
  <2>5. PICK msgs \in [Sessions -> DownFrames \union {Silence}] :
              /\ Pushed(msgs)
              /\ \/ Plainly(msgs)
                 \/ LET m == Head(up[x]) IN
                    /\ m.type = "signal" /\ ResolveTarget(sess[x], m.to) = "ok"
                    /\ msgs = OnlyTo(m.to, m.signal) /\ UNCHANGED rmVars
    BY <1>0, <2>2, ServePushes
  <2>6. ~Plainly(msgs)
    <3> DEFINE o == [from |-> t, conn |-> c]
    <3>1. g = OfferOf(o)
      BY DEF OfferOf
    <3> HIDE DEF g, o
    <3> QED
      BY <1>0, <1>3, <2>5, <3>1, PlainPushStays DEF g
  <2>7. Head(up[x]).to = s
    BY <2>2 DEF To
  <2> QED
    BY <2>4, <2>5, <2>6, <2>7
<1>4. ASSUME NEW k \in Nat, Has(up'[b], To(t, Answer(s, c, k))) PROVE Linked(b, t)
  <2> DEFINE g == To(t, Answer(s, c, k))
  <2>1. CASE Has(up[b], g)
    BY <2>1 DEF Linked
  <2>2. CASE Goes(b, g)
    <3>1. offers[b] # <<>> /\ t = Head(offers[b]).from /\ c = Head(offers[b]).conn
      BY <2>2, AnswerGoes
    <3>2. Head(offers[b]) \in TakenOffers /\ Has(offers[b], Head(offers[b]))
      BY <1>0, <3>1, QueueShrinks
    <3>3. Head(offers[b]) = [from |-> t, conn |-> c]
      BY <3>1, <3>2 DEF TakenOffers
    <3> QED
      BY <3>2, <3>3 DEF Linked
  <2> HIDE DEF g
  <2> QED
    BY <1>0, <1>4, <2>1, <2>2, UpHas DEF g
<1> QED
  BY <1>1, <1>2, <1>3, <1>4

\* Whom the server lets a session in one place reach.
LEMMA ReachedIs ==
  ASSUME RMTypeOK, NEW s \in Sessions, Indexed(s), NEW t \in Sessions
  PROVE  /\ ResolveTarget(t, s) = "ok" =>
              /\ ~(Seatless(s) /\ Shareless(s))
              /\ \A r \in RoomIds : s \in viewers[r] => sharerId[r] = t
         /\ \A r \in RoomIds : s \in viewers[r] /\ sharerId[r] = t => ResolveTarget(s, t) = "ok"
<1>1. ASSUME ResolveTarget(t, s) = "ok"
      PROVE  /\ ~(Seatless(s) /\ Shareless(s))
             /\ \A r \in RoomIds : s \in viewers[r] => sharerId[r] = t
  <2> DEFINE c == sessionRooms[t]
  <2>1. c # None /\ RoomExists(c) /\ IF sharerId[c] = t THEN s \in viewers[c] ELSE s = sharerId[c]
    BY <1>1 DEF ResolveTarget
  <2>2. c \in RoomIds
    BY <2>1 DEF RMTypeOK
  <2> HIDE DEF c
  <2>3. ~(Seatless(s) /\ Shareless(s))
    BY <2>1, <2>2 DEF Seatless, Shareless
  <2>4. ASSUME NEW r \in RoomIds, s \in viewers[r] PROVE sharerId[r] = t
    BY <2>1, <2>2, <2>4 DEF Indexed
  <2> QED
    BY <2>3, <2>4
<1>2. ASSUME NEW r \in RoomIds, s \in viewers[r], sharerId[r] = t PROVE ResolveTarget(s, t) = "ok"
  <2>1. sessionRooms[s] = r /\ sharerId[r] # s
    BY <1>2 DEF Indexed
  <2>2. r # None /\ RoomExists(r)
    BY <1>2, NoneAssumption DEF RoomExists
  <2> QED
    BY <1>2, <2>1, <2>2 DEF ResolveTarget
<1> QED
  BY <1>1, <1>2

\* A join-room that waits in the queue finds its session in no room.
LEMMA AskingIs ==
  ASSUME Typed, NEW b \in Apps, Orderly(b)
  PROVE  /\ Asks(b) => Seatless(sess[b]) /\ Shareless(sess[b])
         /\ up[b] # <<>> => \A r : ~Has(Tail(up[b]), JoinMsg(r))
<1>0. up[b] \in Seq(UpFrames)
  BY TypedIs DEF FrameTypes
<1>1. ASSUME NEW r \in RoomIds, Has(up[b], JoinMsg(r)) PROVE Seatless(sess[b]) /\ Shareless(sess[b])
  <2>1. PICK i \in 1 .. Len(up[b]) : up[b][i] = JoinMsg(r)
    BY <1>1 DEF Has
  <2>2. i = 1 /\ NoSeatAt(b, i) /\ NoShareAt(b, i)
    BY <2>1, KindsAre DEF Orderly
  <2> QED
    BY <2>2, NothingBefore DEF NoSeatAt, NoShareAt
<1>2. ASSUME up[b] # <<>>, NEW r, Has(Tail(up[b]), JoinMsg(r)) PROVE FALSE
  <2>1. PICK i \in 1 .. Len(Tail(up[b])) : Tail(up[b])[i] = JoinMsg(r)
    BY <1>2 DEF Has
  <2>2. i + 1 \in 1 .. Len(up[b]) /\ up[b][i + 1] = JoinMsg(r) /\ i + 1 # 1
    BY <1>0, <1>2, <2>1
  <2> QED
    BY <2>2, KindsAre DEF Orderly
<1> QED
  BY <1>1, <1>2 DEF Asks

LEMMA AsksMoves ==
  ASSUME Typed, SessionsInv, Next, NEW b \in Apps, Orderly(b), Asks(b)'
  PROVE  /\ ~Serve(b)
         /\ Asks(b) \/ (b \in CanWatch /\ Joins(b))
<1>0. PICK r \in RoomIds : Has(up'[b], JoinMsg(r))
  BY DEF Asks, Has
<1>1. ~Serve(b)
  <2> SUFFICES ASSUME Serve(b) PROVE FALSE
    OBVIOUS
  <2>1. up'[b] = Tail(up[b]) /\ up[b] # <<>>
    BY TypedIs, ServePushes DEF FrameTypes
  <2> QED
    BY <1>0, <2>1, AskingIs
<1>2. JoinMsg(r) \in UpFrames /\ JoinMsg(r).type = "join-room"
  BY UpFramesAre, KindsAre
<1>3. Has(up[b], JoinMsg(r)) \/ Goes(b, JoinMsg(r))
  BY <1>0, UpHas
<1> QED
  BY <1>1, <1>2, <1>3, GoesKinds DEF Asks

LEMMA OneSharerStep ==
  ASSUME Typed, SessionsInv, NamesInv, Next, NEW b \in CanWatch, Tame(b)', InPlace(b), Untouched(b)
  PROVE  OneSharer(b)'
<1> DEFINE s == sess[b]
<1>0. /\ RMTypeOK /\ s \in Sessions /\ s = sess'[b] /\ b \in Apps /\ Indexed(s) /\ Orderly(b) /\ OneSharer(b) /\ Calm(b)'
  BY TypedIs, WatchersAssumption, TameLater DEF Untouched, InPlace, TableTypes
<1> HIDE DEF s
<1>1. ASSUME NEW t \in Sessions, Linked(b, t)'
      PROVE  ~Asks(b)' /\ \A r \in RoomIds : s \in viewers'[r] => sharerId'[r] = t
  <2>1. ~Joins(b)
    <3> SUFFICES ASSUME Joins(b) PROVE FALSE
      OBVIOUS
    <3>1. /\ offers'[b] = <<>> /\ down'[b] = <<>>
          /\ \A f : Has(up'[b], f) => \E r \in RoomIds : f = JoinMsg(r)
      BY <1>0, JoinsConnect
    <3>2. \A c, k : ~Has(up'[b], To(t, Answer(s, c, k)))
      BY <3>1, FramesDiffer
    <3> QED
      BY <1>0, <1>1, <3>1, <3>2, EmptyQueue DEF Linked, Has
  <2>2. CASE Linked(b, t)
    <3>1. ~Asks(b) /\ \A r \in RoomIds : s \in viewers[r] => sharerId[r] = t
      BY <1>0, <2>2 DEF OneSharer, s
    <3>2. ~Asks(b)'
      BY <1>0, <2>1, <3>1, AsksMoves
    <3>3. ~(Serve(b) /\ Head(up[b]).type = "join-room")
      <4> SUFFICES ASSUME Serve(b), Head(up[b]).type = "join-room" PROVE FALSE
        OBVIOUS
      <4>1. up[b] # <<>> /\ up[b] \in Seq(UpFrames)
        BY <1>0, TypedIs, ServePushes DEF FrameTypes
      <4>2. Head(up[b]) \in UpFrames /\ Has(up[b], Head(up[b]))
        BY <4>1, QueueShrinks
      <4>3. \E r \in RoomIds : Head(up[b]) = JoinMsg(r)
        BY <4>2 DEF UpFrames, JoinMsg
      <4> QED
        BY <3>1, <4>2, <4>3 DEF Asks
    <3> QED
      BY <1>0, <3>1, <3>2, <3>3, SeatsKept DEF s
  <2>3. CASE \E x \in Apps : t = sess[x] /\ ResolveTarget(t, s) = "ok" /\ UNCHANGED rmVars
    <3>1. /\ ~(Seatless(s) /\ Shareless(s))
          /\ \A r \in RoomIds : s \in viewers[r] => sharerId[r] = t
      BY <1>0, <2>3, ReachedIs
    <3>2. ~Asks(b)
      BY <1>0, <3>1, AskingIs DEF s
    <3>3. ~Asks(b)'
      BY <1>0, <2>1, <3>2, AsksMoves
    <3> QED
      BY <2>3, <3>1, <3>3 DEF rmVars
  <2>4. \/ Linked(b, t)
        \/ \E x \in Apps : t = sess[x] /\ ResolveTarget(t, s) = "ok" /\ UNCHANGED rmVars
    BY <1>0, <1>1, LinkedMoves DEF s
  <2> QED
    BY <2>2, <2>3, <2>4
<1> QED
  BY <1>0, <1>1 DEF OneSharer

\* Who warns y: the server refuses what y sent, or y's room ends.
RefusedJoin(y) == Serve(y) /\ Head(up[y]).type = "join-room" /\ UNCHANGED rmVars
LeftForGood(y) == Serve(y) /\ RemoveSession(sess[y])
RefusedSignal(y) ==
  /\ Serve(y) /\ Head(up[y]).type = "signal" /\ Head(up[y]) \in UpFrames /\ UNCHANGED rmVars
  /\ ResolveTarget(sess[y], Head(up[y]).to) # "ok"
RoomEnds(y) ==
  \E t \in Sessions : /\ RemoveSession(t) /\ RemovalKind(t) = "room-ended"
                      /\ sess[y] \in viewers[sessionRooms[t]]

\* A frame of the push reaches y.
LEMMA WarningPushed ==
  ASSUME Typed, NEW y \in Apps, NEW msgs \in [Sessions -> DownFrames \union {Silence}], Pushed(msgs),
         IsWarned(y)', ~IsWarned(y)
  PROVE  msgs[sess[y]].type \in Warning
<1>0. TableTypes /\ FrameTypes /\ down[y] \in Seq(DownFrames)
  BY TypedIs DEF FrameTypes
<1>1. PICK i \in 1 .. Len(down'[y]) : down'[y][i].type \in Warning
  BY DEF IsWarned
<1>2. CASE down'[y] = down[y]
  BY <1>1, <1>2 DEF IsWarned
<1>3. CASE down'[y] = down[y] \o <<msgs[sess[y]]>>
  <2> DEFINE g == msgs[sess[y]] q == down[y]
  <2>1. q \in Seq(DownFrames)
    BY <1>0
  <2> HIDE DEF g, q
  <2>2. (i \in 1 .. Len(q) /\ (q \o <<g>>)[i] = q[i]) \/ (q \o <<g>>)[i] = g
    BY <1>1, <1>3, <2>1 DEF g, q
  <2> QED
    BY <1>1, <1>3, <2>2 DEF IsWarned, g, q
<1> QED
  BY <1>0, <1>2, <1>3, PushedIs

LEMMA WarningFrames ==
  /\ Silence.type \notin Warning
  /\ \A r : RoomCreated(r).type \notin Warning
  /\ \A r, s : RoomJoined(r, s).type \notin Warning
  /\ \A s : ViewerJoined(s).type \notin Warning /\ ViewerLeft(s).type \notin Warning
  /\ \A f \in Signals : f.type \notin Warning
BY DEF Silence, RoomCreated, RoomJoined, ViewerJoined, ViewerLeft, Signals, Warning

LEMMA ServeWarns ==
  ASSUME Typed, SessionsInv, NEW x \in Apps, Serve(x), NEW y \in Apps, IsWarned(y)', ~IsWarned(y)
  PROVE  RefusedJoin(y) \/ LeftForGood(y) \/ RefusedSignal(y) \/ RoomEnds(y)
<1> DEFINE s == sess[x] f == Head(up[x]) u == sess[y]
<1>0. /\ TableTypes /\ FrameTypes /\ s \in Sessions /\ u \in Sessions /\ (u = s => x = y)
      /\ f \in UpFrames
  BY TypedIs, ServePushes, HeadOfUp DEF TableTypes, SessionsInv
<1>p. ASSUME NEW msgs \in [Sessions -> DownFrames \union {Silence}], Pushed(msgs) PROVE msgs[u].type \in Warning
  BY <1>p, WarningPushed
<1>o. ASSUME NEW t \in Sessions, NEW m \in DownFrames, Pushed(OnlyTo(t, m)) PROVE m.type \in Warning /\ u = t
  <2>1. OnlyTo(t, m) \in [Sessions -> DownFrames \union {Silence}]
    BY <1>o, PushesAre
  <2>2. OnlyTo(t, m)[u].type \in Warning
    BY <1>o, <1>p, <2>1
  <2>3. OnlyTo(t, m)[u] = IF u = t THEN m ELSE Silence
    BY <1>0 DEF OnlyTo, Quiet
  <2> QED
    BY <2>2, <2>3, WarningFrames
<1>f. /\ \A r \in RoomIds : RoomCreated(r) \in DownFrames
      /\ \A c \in ErrorCodes : ErrorMsg(c) \in DownFrames
      /\ Signals \subseteq DownFrames
  BY DownFramesAre
<1>1. ASSUME NEW r \in RoomIds, Pushed(OnlyTo(s, RoomCreated(r))) PROVE FALSE
  <2>1. RoomCreated(r).type \in Warning
    BY <1>0, <1>1, <1>f, <1>o
  <2> QED
    BY <2>1, WarningFrames
<1>2. ASSUME NEW c \in ErrorCodes, Pushed(OnlyTo(s, ErrorMsg(c))) PROVE x = y
  <2>1. u = s
    BY <1>0, <1>2, <1>f, <1>o
  <2> QED
    BY <1>0, <2>1
<1>3. ASSUME NEW r \in RoomIds, sharerId[r] \in Sessions,
             Pushed([Quiet EXCEPT ![s] = RoomJoined(r, sharerId[r]), ![sharerId[r]] = ViewerJoined(s)])
      PROVE  FALSE
  <2> DEFINE k == sharerId[r] msgs == [Quiet EXCEPT ![s] = RoomJoined(r, k), ![k] = ViewerJoined(s)]
  <2>1. RoomJoined(r, k) \in DownFrames /\ ViewerJoined(s) \in DownFrames
    BY <1>0, <1>3, DownFramesAre
  <2>2. msgs \in [Sessions -> DownFrames \union {Silence}]
    BY <1>0, <1>3, <2>1, PushesAre
  <2>3. msgs[u] \in {Silence, RoomJoined(r, k), ViewerJoined(s)}
    BY <1>0, <1>3 DEF Quiet
  <2>4. msgs[u].type \in Warning
    BY <1>3, <1>p, <2>2
  <2> HIDE DEF msgs
  <2> QED
    BY <2>3, <2>4, WarningFrames
<1>4. ASSUME RemoveSession(s), Pushed(DepartureMessages(s)) PROVE RoomEnds(y)
  <2>1. DepartureMessages(s)[u].type \in Warning
    BY <1>0, <1>4, <1>p, DeparturesAre
  <2>2. RemovalKind(s) = "room-ended" /\ u \in viewers[sessionRooms[s]]
    BY <1>0, <2>1, WarningFrames DEF DepartureMessages
  <2> QED
    BY <1>0, <1>4, <2>2 DEF RoomEnds
<1>5. CASE f.type = "create-room" /\ \E r \in RoomIds : Pushed(OnlyTo(s, RoomCreated(r)))
  BY <1>1, <1>5
<1>6. CASE /\ f.type = "join-room" /\ f.room \in RoomIds /\ JoinRoom(f.room, s)
           /\ JoinResult(f.room, s) # "ok" /\ JoinResult(f.room, s) \in ErrorCodes
           /\ Pushed(OnlyTo(s, ErrorMsg(JoinResult(f.room, s))))
  <2>1. x = y
    BY <1>2, <1>6
  <2> QED
    BY <1>6, <2>1 DEF RefusedJoin, JoinRoom
<1>7. CASE /\ f.type = "join-room" /\ f.room \in RoomIds /\ sharerId[f.room] \in Sessions
           /\ Pushed([Quiet EXCEPT ![s] = RoomJoined(f.room, sharerId[f.room]),
                                   ![sharerId[f.room]] = ViewerJoined(s)])
  BY <1>3, <1>7
<1>8. CASE RemoveSession(s) /\ Pushed(OnlyTo(s, ErrorMsg("NOT_IN_ROOM")))
  <2>1. "NOT_IN_ROOM" \in ErrorCodes
    BY DEF ErrorCodes
  <2>2. x = y
    BY <1>2, <1>8, <2>1
  <2> QED
    BY <1>8, <2>2 DEF LeftForGood
<1>9. CASE RemoveSession(s) /\ Pushed(DepartureMessages(s))
  BY <1>4, <1>9
<1>10. CASE /\ f.type = "signal" /\ f \in UpFrames /\ UNCHANGED rmVars
            /\ \/ ResolveTarget(s, f.to) = "ok" /\ Pushed(OnlyTo(f.to, f.signal))
               \/ /\ ResolveTarget(s, f.to) \in ErrorCodes
                  /\ Pushed(OnlyTo(s, ErrorMsg(ResolveTarget(s, f.to))))
  <2>1. f.to \in Sessions /\ f.signal \in Signals
    BY <1>0, <1>10, UpFrameHas
  <2>2. ~Pushed(OnlyTo(f.to, f.signal))
    BY <1>f, <1>o, <2>1, WarningFrames
  <2>3. ResolveTarget(s, f.to) \in ErrorCodes /\ x = y
    BY <1>2, <1>10, <2>2
  <2>4. "ok" \notin ErrorCodes
    BY DEF ErrorCodes
  <2> QED
    BY <1>10, <2>3, <2>4 DEF RefusedSignal
<1> HIDE DEF s, f, u
<1>11. \/ f.type = "create-room" /\ \E r \in RoomIds : Pushed(OnlyTo(s, RoomCreated(r)))
       \/ /\ f.type = "join-room" /\ f.room \in RoomIds /\ JoinRoom(f.room, s)
          /\ JoinResult(f.room, s) # "ok" /\ JoinResult(f.room, s) \in ErrorCodes
          /\ Pushed(OnlyTo(s, ErrorMsg(JoinResult(f.room, s))))
       \/ /\ f.type = "join-room" /\ f.room \in RoomIds /\ sharerId[f.room] \in Sessions
          /\ Pushed([Quiet EXCEPT ![s] = RoomJoined(f.room, sharerId[f.room]),
                                  ![sharerId[f.room]] = ViewerJoined(s)])
       \/ RemoveSession(s) /\ Pushed(OnlyTo(s, ErrorMsg("NOT_IN_ROOM")))
       \/ RemoveSession(s) /\ Pushed(DepartureMessages(s))
       \/ /\ f.type = "signal" /\ f \in UpFrames /\ UNCHANGED rmVars
          /\ \/ ResolveTarget(s, f.to) = "ok" /\ Pushed(OnlyTo(f.to, f.signal))
             \/ /\ ResolveTarget(s, f.to) \in ErrorCodes
                /\ Pushed(OnlyTo(s, ErrorMsg(ResolveTarget(s, f.to))))
  BY <1>0, ServeIs DEF s, f
<1> QED
  BY <1>5, <1>6, <1>7, <1>8, <1>9, <1>10, <1>11

LEMMA Warns ==
  ASSUME Typed, SessionsInv, Next, NEW y \in Apps, IsWarned(y)', ~IsWarned(y)
  PROVE  RefusedJoin(y) \/ LeftForGood(y) \/ RefusedSignal(y) \/ RoomEnds(y)
<1>0. /\ TableTypes /\ FrameTypes /\ SharersTyped /\ down \in [Apps -> Seq(DownFrames)]
      /\ sess[y] \in Sessions
  BY TypedIs DEF FrameTypes, TableTypes
<1>1. ASSUME NEW x \in Apps, Receive(x) PROVE FALSE
  <2>1. down'[y] = down[y] \/ (down[y] # <<>> /\ down'[y] = Tail(down[y]))
    BY <1>0, <1>1 DEF Receive
  <2>2. CASE down'[y] = down[y]
    BY <2>2 DEF IsWarned
  <2>3. CASE down[y] # <<>> /\ down'[y] = Tail(down[y])
    <3>1. PICK i \in 1 .. Len(Tail(down[y])) : Tail(down[y])[i].type \in Warning
      BY <2>3 DEF IsWarned
    <3>2. i + 1 \in 1 .. Len(down[y]) /\ down[y][i + 1] = Tail(down[y])[i]
      <4>1. down[y] \in Seq(DownFrames)
        BY <1>0
      <4> QED
        BY <2>3, <4>1
    <3> QED
      BY <3>1, <3>2 DEF IsWarned
  <2> QED
    BY <2>1, <2>2, <2>3
<1>n. ASSUME UNCHANGED down PROVE FALSE
  BY <1>n DEF IsWarned
<1>2. ASSUME NEW x \in CanShare, SharingStep(x) PROVE FALSE
  BY <1>n, <1>2, SharersStepIs, SharersSend
<1>3. ASSUME NEW x \in CanWatch, ViewingStep(x) PROVE FALSE
  BY <1>n, <1>3, ViewersStepIs, ViewersSend
<1>4. ASSUME SocketStep PROVE RoomEnds(y)
  <2>1. ASSUME NEW x \in Apps, down' = [down EXCEPT ![x] = <<>>] PROVE FALSE
    <3>1. down'[y] = down[y] \/ down'[y] = <<>>
      BY <1>0, <2>1
    <3> QED
      BY <3>1 DEF IsWarned
  <2>2. ASSUME NEW s \in Sessions, RemoveSession(s), Pushed(DepartureMessages(s)) PROVE RoomEnds(y)
    <3>1. DepartureMessages(s)[sess[y]].type \in Warning
      BY <1>0, <2>2, WarningPushed, DeparturesAre
    <3>2. RemovalKind(s) = "room-ended" /\ sess[y] \in viewers[sessionRooms[s]]
      BY <1>0, <3>1, WarningFrames DEF DepartureMessages
    <3> QED
      BY <2>2, <3>2 DEF RoomEnds
  <2> QED
    BY <1>0, <1>4, <1>n, <2>1, <2>2, SocketsDo
<1> QED
  BY <1>1, <1>2, <1>3, <1>4, ServeWarns DEF Next

\* A queue without a join-room asks for nothing.
LEMMA NothingAsked ==
  ASSUME NEW q \in Seq(UpFrames), \A r \in RoomIds : ~Has(q, JoinMsg(r))
  PROVE  Lacks(q, Len(q) + 1, "join-room")
<1> SUFFICES ASSUME NEW k \in 1 .. (Len(q) + 1) - 1, q[k].type = "join-room" PROVE FALSE
  BY DEF Lacks
<1>1. k \in 1 .. Len(q)
  OBVIOUS
<1>2. q[k] \in UpFrames
  BY <1>1
<1>3. \E r \in RoomIds : q[k] = JoinMsg(r)
  BY <1>2 DEF UpFrames, JoinMsg
<1> QED
  BY <1>1, <1>3 DEF Has

LEMMA WarnedStep ==
  ASSUME Typed, SessionsInv, ViewerInv, NamesInv, Next, NEW b \in CanWatch, Tame(b), Tame(b)', InPlace(b), Untouched(b)
  PROVE  OutWhenWarned(b)'
<1> DEFINE s == sess[b]
<1> SUFFICES ASSUME vw'[b].state # "idle", IsWarned(b)' PROVE NoSeatAt(b, Last(b))'
  BY DEF OutWhenWarned
<1>0. /\ RMTypeOK /\ s \in Sessions /\ s = sess'[b] /\ b \in Apps /\ Indexed(s) /\ Orderly(b) /\ OneSharer(b) /\ OnlyAnswers(b)
      /\ Calm(b)' /\ Kept(b)' /\ Tidy(b) /\ Placed(b)
  BY TypedIs, WatchersAssumption, TameIs, TameLater DEF Untouched, InPlace, TableTypes, ViewerInv
<1>t. /\ up \in [Apps -> Seq(UpFrames)] /\ up' \in [Apps -> Seq(UpFrames)]
  BY TypedIs, TypedAfter, TypedStep DEF FrameTypes
<1>1. ~Joins(b)
  <2> SUFFICES ASSUME Joins(b) PROVE FALSE
    OBVIOUS
  <2>1. down'[b] = <<>>
    BY <1>0, JoinsConnect
  <2> QED
    BY <2>1 DEF IsWarned
<1>2. vw[b].state # "idle"
  BY <1>0, <1>1, WatchMoves DEF Away
<1>3. ASSUME Asks(b)' PROVE ~Serve(b) /\ Seatless(s)
  BY <1>0, <1>1, <1>3, AsksMoves, AskingIs
<1>4. CASE IsWarned(b)
  <2>1. NoSeatAt(b, Last(b))
    BY <1>2, <1>4 DEF InPlace, OutWhenWarned
  <2>2. ~\E f \in UpFrames : Sends(b, f) /\ f.type = "join-room"
    BY <1>0, <1>1, GoesKinds DEF Sends
  <2> QED
    BY <1>0, <2>1, <2>2, LastPlaces
<1>5. ASSUME Seatless(s)', ~Asks(b)' PROVE NoSeatAt(b, Last(b))'
  <2>1. Lacks(up'[b], Len(up'[b]) + 1, "join-room")
    BY <1>0, <1>t, <1>5, NothingAsked DEF Asks
  <2> QED
    BY <1>0, <1>5, <2>1 DEF NoSeatAt, Last, Lacks, Seatless
<1>6. ASSUME Serve(b) PROVE up[b] # <<>> /\ up[b][1] = Head(up[b]) /\ 1 \in 1 .. Len(up[b]) /\ Has(up[b], up[b][1])
  <2>1. up[b] # <<>>
    BY <1>6, TypedIs, ServePushes, <1>0
  <2> QED
    BY <1>0, <1>t, <2>1 DEF Has
<1>7. CASE RefusedJoin(b)
  <2>1. Serve(b) /\ NoSeatAt(b, 1)
    BY <1>0, <1>6, <1>7 DEF RefusedJoin, Orderly
  <2>2. Seatless(s)
    BY <2>1, NothingBefore DEF NoSeatAt
  <2>3. Seatless(s)' /\ ~Asks(b)'
    BY <1>0, <1>3, <1>7, <2>1, <2>2 DEF RefusedJoin, Seatless, rmVars
  <2> QED
    BY <1>5, <2>3
<1>8. CASE LeftForGood(b)
  <2>1. Seatless(s)'
    BY <1>0, <1>8, RemovalPlaces DEF LeftForGood
  <2> QED
    BY <1>3, <1>5, <1>8, <2>1 DEF LeftForGood
<1>9. CASE RefusedSignal(b)
  <2> DEFINE f == Head(up[b])
  <2>1. f \in UpFrames /\ f.type = "signal" /\ Has(up[b], f) /\ ResolveTarget(s, f.to) # "ok"
    BY <1>6, <1>9 DEF RefusedSignal
  <2> HIDE DEF f
  <2>2. f.signal.type = "answer" /\ f.to \in Sessions /\ f.signal \in Signals
    BY <1>0, <1>2, <2>1, UpFrameHas DEF OnlyAnswers
  <2>3. PICK u \in Sessions, c \in Nat, k \in Nat : f.signal = Answer(u, c, k)
    BY <2>2 DEF Signals, Answer
  <2>4. f = To(f.to, f.signal)
    BY <2>1 DEF UpFrames, To
  <2>5. Has(up[b], To(f.to, Answer(u, c, k)))
    BY <2>1, <2>3, <2>4
  <2>6. u = s
    BY <1>0, <2>2, <2>5 DEF NamesInv, SentInOwnName
  <2>7. Linked(b, f.to)
    BY <2>5, <2>6 DEF Linked
  <2>8. \A r \in RoomIds : s \in viewers[r] => sharerId[r] = f.to
    BY <2>2, <2>7 , <1>0 DEF OneSharer
  <2>9. Seatless(s)
    BY <1>0, <2>1, <2>2, <2>8, ReachedIs DEF Seatless
  <2>10. Seatless(s)' /\ ~Asks(b)'
    BY <1>0, <1>3, <1>9, <2>9 DEF RefusedSignal, Seatless, rmVars
  <2> QED
    BY <1>5, <2>10
<1>10. CASE RoomEnds(b)
  <2>1. PICK t \in Sessions : /\ RemoveSession(t) /\ RemovalKind(t) = "room-ended"
                              /\ s \in viewers[sessionRooms[t]]
    BY <1>10 DEF RoomEnds
  <2> DEFINE c == sessionRooms[t]
  <2>2. c \in RoomIds
    BY <1>0, <2>1 DEF RemovalKind, RMTypeOK
  <2>3. \A r \in RoomIds : viewers'[r] = IF r # c THEN viewers[r] ELSE {}
    BY <2>1 DEF RemoveSession, ViewersWithout
  <2> HIDE DEF c
  <2>4. \A r \in RoomIds : s \in viewers[r] => r = c
    BY <1>0, <2>1, <2>2 DEF Indexed, c
  <2>5. Seatless(s)'
    BY <1>0, <2>3, <2>4 DEF Seatless
  <2>6. ~Seatless(s)
    BY <2>1, <2>2 DEF Seatless, c
  <2> QED
    BY <1>3, <1>5, <2>5, <2>6
<1>11. CASE ~IsWarned(b)
  BY <1>0, <1>7, <1>8, <1>9, <1>10, <1>11, Warns
<1> QED
  BY <1>4, <1>11

\* The lemmas below are about a connection that breaks or is replaced.
LEMMA NobodyWatches ==
  ASSUME ViewerInv, NEW a \in Apps, Tame(a), ~online[a]
  PROVE  a \notin CanWatch
BY TameIs DEF ViewerInv, Tidy

LEMMA BrokenPlaces ==
  ASSUME Typed, SessionsInv, SharerInv, ViewerInv, ViewerInv', Next,
         NEW a \in Apps, Tame(a), Tame(a)', InPlace(a), Broken(a), ~Serve(a)
  PROVE  InPlace(a)'
<1> DEFINE s == sess[a]
<1>0. s \in Sessions /\ s = sess'[a] /\ Indexed(s)
  BY TypedIs DEF Broken, InPlace, TableTypes
<1>1. a \notin CanWatch
  BY TameLater DEF Broken, ViewerInv, Tidy
<1>2. Indexed(sess[a])'
  <2>1. Indexed(s)'
    BY <1>0, PlacesOfOthers
  <2> QED
    BY <1>0, <2>1 DEF Indexed
<1>3. Orderly(a)'
  BY DEF Broken, Orderly
<1>4. Apart(a)'
  BY ApartStays DEF InPlace
<1>5. OutWhenSilent(a)' /\ OutWhenAway(a)'
  BY DEF Broken, OutWhenSilent, OutWhenAway, Silent, NotWatching
<1> QED
  BY <1>1, <1>2, <1>3, <1>4, <1>5 DEF InPlace

LEMMA RenewedPlaces ==
  ASSUME Typed, SessionsInv, SharerInv, ViewerInv, TablesInUse, Next,
         NEW a \in Apps, Tame(a), Tame(a)', InPlace(a), Renewed(a)
  PROVE  InPlace(a)'
<1>1. a \notin CanWatch
  BY NobodyWatches DEF Renewed
<1>2. PICK s \in Sessions : s = sess'[a] /\ s \notin used
  BY DEF Renewed
<1>3. \A r \in RoomIds : s \notin viewers'[r] /\ sharerId'[r] # s
  BY <1>2, NoneAssumption DEF Renewed, rmVars, TablesInUse
<1>4. Indexed(sess[a])' /\ Seatless(sess[a])' /\ Shareless(sess[a])'
  BY <1>2, <1>3 DEF Indexed, Seatless, Shareless
<1>5. Orderly(a)'
  BY DEF Renewed, Orderly
<1>6. Apart(a)'
  BY ApartStays DEF InPlace
<1>7. NoSeatAt(a, Last(a))' /\ NoShareAt(a, Last(a))'
  <2>1. up'[a] = <<>>
    BY DEF Renewed
  <2>2. \A kind : Lacks(up'[a], Len(up'[a]) + 1, kind)
    BY <2>1, NothingBefore
  <2> QED
    BY <1>4, <2>2 DEF NoSeatAt, NoShareAt, Last, Lacks
<1> QED
  BY <1>1, <1>4, <1>5, <1>6, <1>7 DEF InPlace, OutWhenSilent, OutWhenAway

LEMMA PlaceStep ==
  ASSUME Typed, SessionsInv, SharerInv, ViewerInv, ViewerInv', NamesInv, PlaceInv, Next
  PROVE  PlaceInv'
<1>1. TablesInUse'
  BY TablesInUseStep DEF PlaceInv
<1>2. ASSUME NEW a \in Apps, Tame(a)' PROVE InPlace(a)'
  <2>1. Tame(a)
    BY <1>2, TameBefore, MishapsStay
  <2>2. InPlace(a)
    BY <2>1 DEF PlaceInv
  <2>3. CASE Broken(a) /\ ~Serve(a)
    BY <1>2, <2>1, <2>2, <2>3, BrokenPlaces
  <2>4. CASE Renewed(a)
    BY <1>2, <2>1, <2>2, <2>4, RenewedPlaces DEF PlaceInv
  <2>5. CASE Untouched(a)
    <3> DEFINE s == sess[a]
    <3>0. s \in Sessions /\ s = sess'[a] /\ Indexed(s) /\ Orderly(a)
      BY <2>2, <2>5, TypedIs DEF Untouched, InPlace, TableTypes
    <3>1. Indexed(s)'
      <4>1. CASE Waits(a) \/ \E f \in UpFrames : Sends(a, f)
        BY <2>5, <3>0, <4>1, PlacesMove
      <4>2. CASE IsServed(a)
        BY <2>5, <3>0, <4>2, PlacesMove
      <4>3. CASE ~Serve(a)
        BY <3>0, <4>3, PlacesOfOthers
      <4> QED
        BY <4>1, <4>2, <4>3, LinkMoves
    <3>2. Indexed(sess[a])'
      BY <3>0, <3>1 DEF Indexed
    <3>3. Orderly(a)'
      BY <1>2, <2>1, <2>2, <2>5, OrderlyStep
    <3>4. Apart(a)'
      BY <1>2, <2>2, ApartStays DEF InPlace
    <3>5. OutWhenSilent(a)' /\ OutWhenAway(a)'
      BY <1>2, <2>1, <2>2, <2>5, SilentStep, AwayStep
    <3>6. a \in CanWatch => OutWhenWarned(a)' /\ OnlyAnswers(a)' /\ OneSharer(a)'
      BY <1>2, <2>1, <2>2, <2>5, WarnedStep, AnswersStep, OneSharerStep
    <3> HIDE DEF s
    <3> QED
      BY <3>2, <3>3, <3>4, <3>5, <3>6 DEF InPlace
  <2> QED
    BY <2>3, <2>4, <2>5, LinkMoves
<1> QED
  BY <1>1, <1>2 DEF PlaceInv

LEMMA PlaceInit == Init => PlaceInv
<1> SUFFICES ASSUME Init PROVE PlaceInv
  OBVIOUS
<1>0. CanShare \subseteq Apps /\ CanWatch \subseteq Apps
  BY SharersAssumption, WatchersAssumption
<1>1. /\ \A a \in Apps : up[a] = <<>> /\ down[a] = <<>>
      /\ \A b \in CanWatch : vw[b].state = "idle" /\ offers[b] = <<>>
      /\ \A r \in RoomIds : sharerId[r] = None /\ viewers[r] = {}
      /\ RMTypeOK
  BY <1>0, TypedInit, TypedIs DEF Init, LinkInit, SharingInit, ViewingInit, RMInit, TableTypes
<1>2. TablesInUse
  BY <1>1 DEF TablesInUse
<1>3. \A s \in Sessions : Seatless(s) /\ Shareless(s) /\ Indexed(s)
  BY <1>1, NoneAssumption DEF Seatless, Shareless, Indexed
<1>4. ASSUME NEW a \in Apps PROVE InPlace(a)
  <2>1. sess[a] \in Sessions
    BY TypedInit, TypedIs DEF TableTypes
  <2>2. Orderly(a)
    BY <1>1 DEF Orderly
  <2>3. NoSeatAt(a, Last(a)) /\ NoShareAt(a, Last(a))
    BY <1>1, <1>3, <2>1, NothingBefore DEF NoSeatAt, NoShareAt, Last
  <2>4. Apart(a)
    BY <1>1 DEF Apart, Watching
  <2>5. a \in CanWatch => OutWhenWarned(a) /\ OnlyAnswers(a) /\ OneSharer(a)
    <3> SUFFICES ASSUME a \in CanWatch PROVE OutWhenWarned(a) /\ OnlyAnswers(a) /\ OneSharer(a)
      OBVIOUS
    <3>1. vw[a].state = "idle" /\ offers[a] = <<>> /\ up[a] = <<>> /\ down[a] = <<>>
      BY <1>1
    <3>2. \A t : ~Linked(a, t)
      BY <3>1 DEF Linked, Has
    <3> QED
      BY <3>1, <3>2 DEF OutWhenWarned, OnlyAnswers, OneSharer
  <2> QED
    BY <1>3, <2>1, <2>2, <2>3, <2>4, <2>5 DEF InPlace, OutWhenSilent, OutWhenAway
<1> QED
  BY <1>2, <1>4 DEF PlaceInv

LEMMA PlaceKept == PlaceInv /\ UNCHANGED shareVars => PlaceInv'
<1> SUFFICES ASSUME PlaceInv, UNCHANGED shareVars PROVE PlaceInv'
  OBVIOUS
<1>1. UNCHANGED <<rmVars, happened, up, down, sess, online, used, offers, shVars, vw>>
  BY DEF shareVars, linkVars, vwVars
<1>2. TablesInUse'
  BY <1>1 DEF PlaceInv, TablesInUse, rmVars
<1>3. ASSUME NEW a \in Apps, Tame(a)' PROVE InPlace(a)'
  <2>1. Tame(a)
    BY <1>1, <1>3, TameBefore
  <2>2. InPlace(a)
    BY <2>1 DEF PlaceInv
  <2>3. \A i : (NoSeatAt(a, i)' <=> NoSeatAt(a, i)) /\ (NoShareAt(a, i)' <=> NoShareAt(a, i))
    BY <1>1 DEF NoSeatAt, NoShareAt, LeftBy, Lacks, Seatless, Shareless, rmVars
  <2>4. Last(a)' = Last(a)
    BY <1>1 DEF Last
  <2>5. (NoSeatAt(a, Last(a))' <=> NoSeatAt(a, Last(a))) /\ (NoShareAt(a, Last(a))' <=> NoShareAt(a, Last(a)))
    BY <1>1 DEF NoSeatAt, NoShareAt, LeftBy, Lacks, Seatless, Shareless, Last, rmVars
  <2>6. Indexed(sess[a])' /\ Apart(a)'
    BY <1>1, <2>2 DEF InPlace, Indexed, Apart, Watching, Sharing, AwaitsCapture, rmVars, shVars
  <2>7. Orderly(a)'
    BY <1>1, <2>2, <2>3 DEF InPlace, Orderly
  <2>8. OutWhenSilent(a)' /\ OutWhenAway(a)'
    BY <1>1, <2>2, <2>5 DEF InPlace, OutWhenSilent, OutWhenAway, Silent, NotWatching, shVars
  <2>9. a \in CanWatch => OutWhenWarned(a)' /\ OnlyAnswers(a)'
    BY <1>1, <2>2, <2>5 DEF InPlace, OutWhenWarned, IsWarned, OnlyAnswers, Has
  <2>10. a \in CanWatch => OneSharer(a)'
    BY <1>1, <2>2 DEF InPlace, OneSharer, Linked, Asks, Has, rmVars
  <2> QED
    BY <2>6, <2>7, <2>8, <2>9, <2>10 DEF InPlace
<1> QED
  BY <1>2, <1>3 DEF PlaceInv

LEMMA PlacesHold ==
  Spec => [](Typed /\ SharerInv /\ SessionsInv /\ ViewerInv /\ NamesInv /\ PlaceInv)
<1>1. Init => PlaceInv
  BY PlaceInit
<1>2. Typed /\ SharerInv /\ SessionsInv /\ ViewerInv /\ ViewerInv' /\ NamesInv /\ PlaceInv /\ [Next]_shareVars
        => PlaceInv'
  BY PlaceStep, PlaceKept
<1> QED
  BY <1>1, <1>2, ViewersHold, MeetsHold, PTL DEF Spec
-----------------------------------------------------------------------------
(***************************************************************************)
(* Stopping and leaving, at rest.                                          *)
(***************************************************************************)
LEMMA RestsIs ==
  AtRest => \A a \in Apps : online[a] /\ up[a] = <<>>
BY Zenon DEF AtRest

\* A sharer that stopped listens to nobody, holds no connection, and once all that was
\* under way has arrived the server has no room of its (stop and #cleanup).
THEOREM StoppedIsStopped == Spec => []StoppedMeansStopped
<1>1. Typed /\ SharerInv /\ PlaceInv => StoppedMeansStopped
  <2> SUFFICES ASSUME Typed, SharerInv, PlaceInv, NEW a \in CanShare, sh[a].state = "idle", Steady(a)
               PROVE  /\ sh[a].listening = 0 /\ entry[a] = NoEntries
                      /\ AtRest /\ InOnePlace(a) => \A r \in RoomIds : sharerId[r] # sess[a]
    BY Zenon DEF StoppedMeansStopped, Steady
  <2>1. sh[a].stream = 0 /\ HoldsNothing(a)
    BY DEF SharerInv, InOrder, Holds
  <2>2. ASSUME AtRest, InOnePlace(a) PROVE Shareless(sess[a])
    <3>1. a \in Apps /\ online[a] /\ up[a] = <<>>
      BY <2>2, RestsIs, SharersAssumption
    <3>2. NoShareAt(a, Last(a))
      BY <2>1, <2>2, <3>1 DEF PlaceInv, Tame, InPlace, OutWhenSilent, Silent
    <3> QED
      BY <3>1, <3>2, NothingBefore DEF NoShareAt, Last
  <2> QED
    BY <2>1, <2>2 DEF HoldsNothing, Shareless
<1> QED
  BY <1>1, PlacesHold, PTL

\* A viewer that left, was refused or was told that its room ended has no seat at the
\* server once all that was under way has arrived (leave, #handleSignalingMessage).
THEOREM AwayIsOut == Spec => []AwayMeansOut
<1>1. Typed /\ PlaceInv => AwayMeansOut
  <2> SUFFICES ASSUME PlaceInv, AtRest, NEW b \in CanWatch, vw[b].state \in {"idle", "disconnected", "error"},
                      InOnePlace(b), Steady(b)
               PROVE  \A r \in RoomIds : sess[b] \notin viewers[r]
    BY Zenon DEF AwayMeansOut, Steady
  <2>1. b \in Apps /\ online[b] /\ up[b] = <<>>
    BY RestsIs, WatchersAssumption
  <2>2. NoSeatAt(b, Last(b))
    BY <2>1 DEF PlaceInv, Tame, InPlace, OutWhenAway, NotWatching, Away
  <2> QED
    BY <2>1, <2>2, NothingBefore DEF NoSeatAt, Last, Seatless
<1> QED
  BY <1>1, PlacesHold, PTL
=============================================================================
