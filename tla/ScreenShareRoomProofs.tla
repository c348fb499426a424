----------------------- MODULE ScreenShareRoomProofs -----------------------
(***************************************************************************)
(* Theorems about applications that share and watch, continued: what a     *)
(* sharer and its viewers have of each other once all has arrived.         *)
(***************************************************************************)
EXTENDS ScreenShareProofs

\* What cleaning up makes of a viewer.
CleanedUp(b, state, room) ==
  /\ vw'[b].state = state /\ vw'[b].room = room /\ vw'[b].conn = 0 /\ vw'[b].remote = NoOffer
  /\ vw'[b].made = vw[b].made /\ offers'[b] = <<>>
LEMMA CleanUpMakes ==
  ASSUME ViewersTyped, NEW b \in CanWatch, NEW state \in WatchStates,
         NEW room \in RoomIds \union {None}, NEW left \in Nat, CleanUpWatch(b, state, room, left)
  PROVE  CleanedUp(b, state, room)
<1>1. \E w \in Watchers :
         /\ vw' = [vw EXCEPT ![b] = w]
         /\ w.state = state /\ w.room = room /\ w.conn = 0 /\ w.remote = NoOffer
         /\ w.made = vw[b].made
  BY CleanUpWatchIs
<1>2. offers' = [offers EXCEPT ![b] = <<>>]
  BY DEF CleanUpWatch
<1> QED
  BY <1>1, <1>2 DEF CleanedUp, ViewersTyped, WatchTypes

LEMMA TurnedAway ==
  ASSUME ViewersTyped, NEW b \in CanWatch, NEW state \in {"disconnected", "error"},
         CleanUpWatch(b, state, vw[b].room, Unsubscribed(b))
  PROVE  CleanedUp(b, state, vw[b].room)
<1> DEFINE left == Unsubscribed(b) room == vw[b].room
<1>1. room \in RoomIds \union {None} /\ state \in WatchStates /\ left \in Nat
  BY UnsubscribedNat, WatcherIs DEF Watchers, WatchStates
<1>2. CleanUpWatch(b, state, room, left)
  OBVIOUS
<1> HIDE DEF left, room
<1>3. CleanedUp(b, state, room)
  BY <1>1, <1>2, CleanUpMakes
<1> QED
  BY <1>3 DEF room

LEMMA WentAway ==
  ASSUME ViewersTyped, NEW b \in CanWatch, CleanUpWatch(b, "idle", None, 0)
  PROVE  CleanedUp(b, "idle", None)
<1> DEFINE left == 0 room == None state == "idle"
<1>1. room \in RoomIds \union {None} /\ state \in WatchStates /\ left \in Nat
  BY DEF WatchStates
<1>2. CleanUpWatch(b, state, room, left)
  OBVIOUS
<1> HIDE DEF left, room, state
<1>3. CleanedUp(b, state, room)
  BY <1>1, <1>2, CleanUpMakes
<1> QED
  BY <1>3 DEF room, state

\* What a step does to the offers b works on, and to the one in its remote description.
TakesOne(b) ==
  /\ down[b] # <<>> /\ down'[b] = Tail(down[b]) /\ vw'[b].remote = vw[b].remote
  /\ \E p \in TakenOffers, n \in Nat : /\ Head(down[b]) = OfferOf(p)
                                       /\ offers'[b] = offers[b] \o [i \in 1 .. n |-> p]
RefusesOne(b) ==
  /\ offers[b] # <<>> /\ offers'[b] = Tail(offers[b]) /\ up' = up
  /\ vw'[b].remote = vw[b].remote
AppliesOne(b) ==
  /\ offers[b] # <<>> /\ offers'[b] = Tail(offers[b])
  /\ vw[b].remote # Head(offers[b]) /\ vw'[b].remote = Head(offers[b])
OffersGo(b) ==
  \/ offers'[b] = offers[b] /\ vw'[b].remote = vw[b].remote
  \/ offers'[b] = <<>> /\ vw'[b].remote = NoOffer
  \/ TakesOne(b) \/ RefusesOne(b) \/ AppliesOne(b)
LEMMA OffersDo ==
  ASSUME Typed, Next, NEW b \in CanWatch
  PROVE  OffersGo(b)
<1>0. /\ TableTypes /\ FrameTypes /\ ViewersTyped /\ SharersTyped /\ b \in Apps /\ WatchTypes
      /\ vw \in [CanWatch -> Watchers] /\ vw[b] \in Watchers /\ vw[b].listening \in Nat
      /\ offers \in [CanWatch -> Seq(TakenOffers)] /\ offers[b] \in Seq(TakenOffers)
  BY TypedIs, WatchersAssumption, WatcherIs DEF ViewersTyped, WatchTypes
<1>1. CASE vw'[b].remote = vw[b].remote /\ offers'[b] = offers[b]
  BY <1>1 DEF OffersGo
<1>2. ASSUME NEW state, NEW room, CleanedUp(b, state, room) PROVE OffersGo(b)
  BY <1>2 DEF OffersGo, CleanedUp
<1>3. \A state : vw' = [vw EXCEPT ![b].state = state] => vw'[b].remote = vw[b].remote
  <2> TAKE state
  <2>1. ASSUME vw' = [vw EXCEPT ![b].state = state] PROVE vw'[b] = [vw[b] EXCEPT !.state = state]
    BY <1>0, <2>1
  <2> QED
    BY <1>0, <2>1 DEF Watchers
<1>4. ASSUME NEW x \in Apps, Receive(x) PROVE OffersGo(b)
  <2> DEFINE f == Head(down[x])
  <2>1. CASE x \notin CanWatch
    BY <1>1, <1>4, <2>1 DEF Receive
  <2>2. CASE x \in CanWatch
    <3>1. ViewingHears(x, f) /\ f \in DownFrames /\ down[x] # <<>>
      BY <1>0, <1>4, <2>2, HeadOfDown DEF Receive
    <3>2. CASE x # b
      <4>1. vw'[b] = vw[b] /\ offers'[b] = offers[b]
        BY <1>0, <2>2, <3>1, <3>2 DEF ViewingHears, TakeOffer, RoomOver, Refused, CleanUpWatch
      <4> QED
        BY <1>1, <4>1
    <3>3. CASE x = b /\ UNCHANGED <<vw, offers>>
      BY <1>1, <3>3
    <3>4. CASE x = b /\ (RoomOver(b) \/ Refused(b))
      <4>1. CleanedUp(b, "disconnected", vw[b].room) \/ CleanedUp(b, "error", vw[b].room)
        BY <1>0, <3>4, TurnedAway DEF RoomOver, Refused
      <4> QED
        BY <1>2, <4>1
    <3>5. CASE x = b /\ f.type = "offer" /\ vw[b].listening # 0 /\ TakeOffer(b, f)
      <4> DEFINE p == [from |-> f.from, conn |-> f.conn] m == vw[b].made + 1
      <4>0. f \in DownFrames /\ f.type = "offer"
        BY <3>1, <3>5
      <4>10. down[b] # <<>> /\ down' = [down EXCEPT ![b] = Tail(down[b])] /\ f = Head(down[b])
        BY <1>4, <3>5 DEF Receive
      <4>11. down'[b] = Tail(down[b])
        BY <1>0, <4>10 DEF FrameTypes
      <4> HIDE DEF f
      <4>1. p \in TakenOffers /\ f = OfferOf(p)
        <5>1. f.from \in Sessions /\ f.conn \in Nat
          BY <4>0, DownFrameHas
        <5>2. p \in TakenOffers
          BY <5>1 DEF TakenOffers
        <5>3. \A o \in TakenOffers : p = o <=> f = OfferOf(o)
          BY <4>0, OffersAre
        <5> QED
          BY <5>2, <5>3
      <4>2. offers'[b] = offers[b] \o [i \in 1 .. vw[b].listening |-> p]
        BY <1>0, <3>5 DEF TakeOffer
      <4>3. vw'[b] = vw[b] \/ vw'[b] = [vw[b] EXCEPT !.conn = m, !.made = m]
        BY <1>0, <3>5 DEF TakeOffer
      <4> HIDE DEF p, m
      <4>4. vw'[b].remote = vw[b].remote
        BY <1>0, <4>3 DEF Watchers
      <4>5. TakesOne(b)
        BY <1>0, <4>1, <4>2, <4>4, <4>10, <4>11 DEF TakesOne
      <4> QED
        BY <4>5 DEF OffersGo
    <3> QED
      BY <3>1, <3>2, <3>3, <3>4, <3>5 DEF ViewingHears
  <2> QED
    BY <2>1, <2>2
<1>5. ASSUME NEW x \in CanWatch, ViewingStep(x) PROVE OffersGo(b)
  <2>1. CASE x # b
    BY <1>0, <1>1, <1>5, <2>1, ViewersStepIs, ViewersStepOf
  <2>2. CASE x = b
    <3>1. ASSUME NEW r \in RoomIds, Join(b, r) PROVE OffersGo(b)
      <4> DEFINE l == vw[b].listening + 1
      <4>1. /\ vw'[b] = [vw[b] EXCEPT !.state = "connecting", !.room = r, !.listening = l, !.subscribed = TRUE]
            /\ offers'[b] = offers[b]
        BY <1>0, <3>1 DEF Join
      <4> HIDE DEF l
      <4>3. vw'[b].remote = vw[b].remote
        BY <1>0, <4>1 DEF Watchers
      <4> QED
        BY <1>1, <4>1, <4>3
    <3>2. ASSUME Leave(b) PROVE OffersGo(b)
      <4>1. CleanedUp(b, "idle", None)
        BY <1>0, <3>2, WentAway DEF Leave
      <4> QED
        BY <1>2, <4>1
    <3>3. ASSUME AnswerReady(b) PROVE OffersGo(b)
      <4> DEFINE p == Head(offers[b]) st == IF online[b] THEN vw[b].state ELSE "error"
      <4>1. offers[b] # <<>> /\ offers'[b] = Tail(offers[b]) /\ vw[b].remote # p
            /\ vw'[b] = [vw[b] EXCEPT !.remote = p, !.state = st]
        BY <1>0, <3>3 DEF AnswerReady
      <4> HIDE DEF p, st
      <4>2. vw'[b].remote = p
        BY <1>0, <4>1 DEF Watchers
      <4>3. AppliesOne(b)
        BY <4>1, <4>2 DEF AppliesOne, p
      <4> QED
        BY <4>3 DEF OffersGo
    <3>4. ASSUME AnswerFails(b) PROVE OffersGo(b)
      <4>1. offers[b] # <<>> /\ offers'[b] = Tail(offers[b]) /\ vw' = [vw EXCEPT ![b].state = "error"]
            /\ up' = up
        BY <1>0, <3>4, AnswerFailsIs DEF linkVars
      <4>2. RefusesOne(b)
        BY <1>3, <4>1 DEF RefusesOne
      <4> QED
        BY <4>2 DEF OffersGo
    <3>5. ASSUME PictureLost(b) \/ PictureArrives(b) PROVE OffersGo(b)
      <4>1. /\ offers'[b] = offers[b]
            /\ \E st : vw' = [vw EXCEPT ![b].state = st]
        BY <1>0, <3>5 DEF PictureLost, PictureArrives
      <4> QED
        BY <1>1, <1>3, <4>1
    <3> QED
      BY <1>5, <2>2, <3>1, <3>2, <3>3, <3>4, <3>5, ViewersStepIs, JoinsIs, LeavesIs DEF ViewersStep
  <2> QED
    BY <2>1, <2>2
<1>6. ASSUME UNCHANGED vwVars PROVE OffersGo(b)
  BY <1>1, <1>6 DEF vwVars
<1>7. ASSUME NEW x \in Apps, Serve(x) PROVE UNCHANGED vwVars
  BY <1>0, <1>7, ServePushes
<1>8. ASSUME NEW x \in CanShare, SharingStep(x) PROVE UNCHANGED vwVars
  BY <1>0, <1>8, SharersStepIs, SharersStepFrames
<1> QED
  BY <1>4, <1>5, <1>6, <1>7, <1>8 DEF Next
-----------------------------------------------------------------------------
(***************************************************************************)
(* Offers bear the numbers of connections that were made: those applied    *)
(* and those under way anywhere.                                           *)
(***************************************************************************)
NumbersInv ==
  /\ \A a \in CanShare, v \in Sessions : entry[a][v].conn <= sh[a].made
  /\ \A b \in CanWatch : vw[b].remote = NoOffer \/ \E p \in TakenOffers : vw[b].remote = p /\ Known(p)
  /\ \A b \in CanWatch, o \in TakenOffers : Pending(b, o) \/ Coming(b, o) => Known(o)
  /\ \A y \in Apps, t \in Sessions, o \in TakenOffers : Has(up[y], To(t, OfferOf(o))) => Known(o)

\* Connections are numbered on.
LEMMA MadeGoes ==
  ASSUME Typed, Next, NEW a \in CanShare, NEW v \in Sessions
  PROVE  /\ sh[a].made \in Nat /\ sh'[a].made \in Nat /\ sh'[a].made >= sh[a].made
         /\ entry'[a][v].phase = "offering" =>
              \/ entry[a][v].phase = "offering" /\ entry'[a][v].conn = entry[a][v].conn
              \/ entry'[a][v].conn = sh[a].made + 1 /\ sh'[a].made = sh[a].made + 1
<1> DEFINE Fine ==
      /\ sh[a].made \in Nat /\ sh'[a].made \in Nat /\ sh'[a].made >= sh[a].made
      /\ entry'[a][v].phase = "offering" =>
           \/ entry[a][v].phase = "offering" /\ entry'[a][v].conn = entry[a][v].conn
           \/ entry'[a][v].conn = sh[a].made + 1 /\ sh'[a].made = sh[a].made + 1
<1>0. /\ TableTypes /\ FrameTypes /\ SharersTyped /\ ViewersTyped /\ sh[a].made \in Nat
      /\ CanShare \subseteq Apps
  BY TypedIs, SharerIs, SharersAssumption DEF Managers, SharersTyped
<1>1. CASE sh'[a] = sh[a] /\ entry'[a] = entry[a]
  BY <1>0, <1>1
<1>2. ASSUME NEW x \in Apps, Receive(x) PROVE Fine
  <2>1. CASE x \notin CanShare
    BY <1>1, <1>2, <2>1 DEF Receive
  <2>2. CASE x \in CanShare
    <3>1. SharingHears(x, Head(down[x])) /\ Head(down[x]) \in DownFrames
      BY <1>0, <1>2, <2>2, HeadOfDown DEF Receive
    <3> QED
      BY <1>0, <2>2, <3>1, HearsMake
  <2> QED
    BY <2>1, <2>2
<1>3. ASSUME NEW x \in Apps, Serve(x) PROVE UNCHANGED shVars
  BY <1>0, <1>3, ServePushes
<1>4. ASSUME NEW x \in CanShare, SharingStep(x) PROVE Fine
  BY <1>0, <1>4, SharersStepIs, SharersMake
<1>5. ASSUME NEW x \in CanWatch, ViewingStep(x) PROVE UNCHANGED shVars
  BY <1>0, <1>5, ViewersStepIs, ViewersStepFrames
<1>6. ASSUME UNCHANGED shVars PROVE Fine
  BY <1>1, <1>6 DEF shVars
<1> HIDE DEF Fine
<1>7. Fine
  BY <1>2, <1>3, <1>4, <1>5, <1>6 DEF Next
<1> QED
  BY <1>7 DEF Fine

LEMMA KnownLater ==
  ASSUME Typed, SessionsInv, Next, NEW o \in TakenOffers, Known(o)
  PROVE  Known(o)'
<1>0. TableTypes /\ SharersTyped /\ CanShare \subseteq Apps /\ sess \in [Apps -> Sessions] /\ o.conn \in Nat
  BY TypedIs, SharersAssumption DEF TableTypes, TakenOffers
<1>1. \A a \in CanShare : sh[a].made \in Nat /\ sh'[a].made \in Nat /\ sh'[a].made >= sh[a].made
  <2> TAKE a \in CanShare
  <2>1. sess[a] \in Sessions
    BY <1>0
  <2> QED
    BY <2>1, MadeGoes
<1>2. CASE UNCHANGED <<sess, used>>
  <2>1. ASSUME NEW a \in CanShare, o.from = sess'[a] PROVE o.conn <= sh'[a].made
    BY <1>0, <1>1, <1>2, <2>1 DEF Known
  <2> QED
    BY <1>2, <2>1 DEF Known
<1>3. CASE ~UNCHANGED <<sess, used>>
  <2>1. PICK x \in Apps, s \in Sessions :
          /\ s \notin used /\ used' = used \union {s} /\ sess' = [sess EXCEPT ![x] = s]
    BY <1>3, SessionsMove
  <2>2. ASSUME NEW a \in CanShare, o.from = sess'[a] PROVE o.conn <= sh'[a].made
    <3>1. sess'[a] = sess[a]
      BY <1>0, <2>1, <2>2 DEF Known
    <3> QED
      BY <1>0, <1>1, <2>2, <3>1 DEF Known
  <2> QED
    BY <2>1, <2>2 DEF Known
<1> QED
  BY <1>2, <1>3

LEMMA NumbersStep ==
  ASSUME Typed, SessionsInv, NumbersInv, Next
  PROVE  NumbersInv'
<1>0. /\ TableTypes /\ FrameTypes /\ CanShare \subseteq Apps /\ CanWatch \subseteq Apps /\ SharersTyped
      /\ sess \in [Apps -> Sessions] /\ up \in [Apps -> Seq(UpFrames)] /\ ViewersTyped
  BY TypedIs, SharersAssumption, WatchersAssumption DEF TableTypes, FrameTypes
<1>1. \A o \in TakenOffers : Known(o) => Known(o)'
  BY KnownLater
<1>2. ASSUME NEW a \in CanShare, NEW v \in Sessions PROVE entry'[a][v].conn <= sh'[a].made
  <2>1. /\ sh[a].made \in Nat /\ sh'[a].made \in Nat /\ sh'[a].made >= sh[a].made
        /\ entry'[a][v].phase = "offering" =>
             \/ entry[a][v].phase = "offering" /\ entry'[a][v].conn = entry[a][v].conn
             \/ entry'[a][v].conn = sh[a].made + 1 /\ sh'[a].made = sh[a].made + 1
    BY MadeGoes
  <2>2. entry[a][v].conn <= sh[a].made /\ entry[a][v].conn \in Nat
    <3>1. entry[a] \in [Sessions -> Entries]
      BY <1>0, SharerIs DEF SharersTyped
    <3> QED
      BY <3>1 DEF NumbersInv, Entries
  <2>3. NoEntry.conn = 0
    BY DEF NoEntry
  <2>4. \/ entry'[a][v] = entry[a][v] \/ entry'[a][v] = NoEntry
        \/ entry'[a][v].conn = entry[a][v].conn
        \/ entry'[a][v].phase = "offering"
    BY EntryMoves DEF EntryGoes
  <2> QED
    BY <2>1, <2>2, <2>3, <2>4
<1>3. ASSUME NEW b \in CanWatch
      PROVE  vw'[b].remote = NoOffer \/ \E p \in TakenOffers : vw'[b].remote = p /\ Known(p)'
  <2>1. OffersGo(b)
    BY OffersDo
  <2>2. CASE AppliesOne(b)
    <3>1. PICK p \in TakenOffers : Has(offers[b], p) /\ vw'[b].remote = p
      <4>1. offers[b] \in Seq(TakenOffers)
        BY <1>0, WatcherIs
      <4> QED
        BY <2>2, <4>1, QueueShrinks DEF AppliesOne
    <3>2. Known(p)
      BY <3>1 DEF NumbersInv, Pending
    <3>3. Known(p)'
      BY <1>1, <3>1, <3>2
    <3> QED
      BY <3>1, <3>3
  <2>3. CASE vw'[b].remote = vw[b].remote
    <3>1. CASE vw[b].remote = NoOffer
      BY <2>3, <3>1
    <3>2. CASE vw[b].remote # NoOffer
      <4>1. PICK p \in TakenOffers : p = vw[b].remote /\ Known(p)
        BY <3>2 DEF NumbersInv
      <4>2. Known(p)'
        BY <1>1, <4>1
      <4> QED
        BY <2>3, <4>1, <4>2
    <3> QED
      BY <3>1, <3>2
  <2> QED
    BY <2>1, <2>2, <2>3 DEF OffersGo, TakesOne, RefusesOne
<1>4. ASSUME NEW b \in CanWatch, NEW o \in TakenOffers, Pending(b, o)' PROVE Known(o)'
  <2>1. Has(offers'[b], o)
    BY <1>4 DEF Pending, Has
  <2>2. Pending(b, o) \/ Coming(b, o)
    BY <2>1, OffersMove DEF Pending, Coming
  <2> QED
    BY <1>1, <2>2 DEF NumbersInv
<1>5. ASSUME NEW b \in CanWatch, NEW o \in TakenOffers, Coming(b, o)' PROVE Known(o)'
  <2>1. Has(down'[b], OfferOf(o)) /\ b \in Apps
    BY <1>0, <1>5 DEF Coming, Has
  <2>2. Has(down[b], OfferOf(o)) \/ Comes(b, OfferOf(o))
    BY <2>1, DownHas
  <2>3. CASE Comes(b, OfferOf(o))
    <3>1. PICK x \in Apps : Has(up[x], To(sess[b], OfferOf(o)))
      BY <2>1, <2>3, SignalComes, KindsAre DEF OfferOf
    <3>2. sess[b] \in Sessions
      BY <1>0, <2>1
    <3>3. Known(o)
      BY <3>1, <3>2 DEF NumbersInv
    <3> QED
      BY <1>1, <3>3
  <2>4. CASE Coming(b, o)
    BY <1>1, <2>4 DEF NumbersInv
  <2> QED
    BY <2>2, <2>3, <2>4 DEF Coming
<1>6. ASSUME NEW y \in Apps, NEW t \in Sessions, NEW o \in TakenOffers, Has(up'[y], To(t, OfferOf(o)))
      PROVE  Known(o)'
  <2>1. Has(up[y], To(t, OfferOf(o))) \/ Goes(y, To(t, OfferOf(o)))
    BY <1>6, UpHas
  <2>2. CASE Goes(y, To(t, OfferOf(o)))
    <3>1. y \in CanShare /\ o.from = sess[y] /\ o.conn = entry[y][t].conn
      BY <2>2, OfferGoes DEF OfferOf
    <3>2. o.conn <= sh[y].made /\ sess[y] \in used
      BY <3>1 DEF NumbersInv, SessionsInv
    <3>3. Known(o)
      BY <1>0, <3>1, <3>2 DEF Known, SessionsInv
    <3> QED
      BY <1>1, <3>3
  <2>3. CASE Has(up[y], To(t, OfferOf(o)))
    BY <1>1, <2>3 DEF NumbersInv
  <2> QED
    BY <2>1, <2>2, <2>3
<1>7. \A b \in CanWatch, o \in TakenOffers : Pending(b, o)' \/ Coming(b, o)' => Known(o)'
  BY <1>4, <1>5
<1>8. /\ \A a \in CanShare, v \in Sessions : entry'[a][v].conn <= sh'[a].made
      /\ \A b \in CanWatch : vw'[b].remote = NoOffer \/ \E p \in TakenOffers : vw'[b].remote = p /\ Known(p)'
      /\ \A y \in Apps, t \in Sessions, o \in TakenOffers : Has(up'[y], To(t, OfferOf(o))) => Known(o)'
  BY <1>2, <1>3, <1>6
<1> QED
  BY <1>7, <1>8 DEF NumbersInv, Pending, Coming, Has, Known

LEMMA NumbersInit == Init => NumbersInv
<1> SUFFICES ASSUME Init PROVE NumbersInv
  OBVIOUS
<1>0. CanShare \subseteq Apps /\ CanWatch \subseteq Apps
  BY SharersAssumption, WatchersAssumption
<1>1. /\ \A y \in Apps : up[y] = <<>> /\ down[y] = <<>>
      /\ \A b \in CanWatch : offers[b] = <<>> /\ vw[b].remote = NoOffer
      /\ \A a \in CanShare, v \in Sessions : entry[a][v] = NoEntry /\ sh[a].made = 0
  BY <1>0 DEF Init, LinkInit, SharingInit, ViewingInit, NoEntries
<1>2. \A a \in CanShare, v \in Sessions : entry[a][v].conn <= sh[a].made
  BY <1>1 DEF NoEntry
<1> QED
  BY <1>0, <1>1, <1>2, EmptyQueue DEF NumbersInv, Pending, Coming
LEMMA NumbersKept == NumbersInv /\ UNCHANGED shareVars => NumbersInv'
BY DEF NumbersInv, Known, Pending, Coming, Has, shareVars, linkVars, shVars, vwVars

(***************************************************************************)
(* Queues: a frame of a set that is in one, one that is in it once, and    *)
(* copies of one that are together.                                        *)
(***************************************************************************)
Among(q, T) == \E i \in 1 .. Len(q) : q[i] \in T
OneOf(q, T) == \A i, j \in 1 .. Len(q) : q[i] \in T /\ q[j] \in T => i = j
Together(q, o) ==
  \A i, j, k \in 1 .. Len(q) : i < j /\ j < k /\ q[i] = o /\ q[k] = o => q[j] = o

LEMMA AmongNothing == \A T : ~Among(<<>>, T) /\ OneOf(<<>>, T)
BY DEF Among, OneOf
LEMMA AmongNone == \A q, T : ~Among(q, T) => OneOf(q, T)
BY DEF Among, OneOf

LEMMA AmongGrows ==
  ASSUME NEW S, NEW q \in Seq(S), NEW x \in S
  PROVE  /\ \A T : Among(q \o <<x>>, T) <=> Among(q, T) \/ x \in T
         /\ \A T : OneOf(q, T) /\ ~(Among(q, T) /\ x \in T) => OneOf(q \o <<x>>, T)
<1> DEFINE r == q \o <<x>>
<1>1. /\ Len(r) = Len(q) + 1 /\ Len(q) \in Nat /\ r[Len(q) + 1] = x
      /\ \A i \in 1 .. Len(q) : r[i] = q[i]
      /\ \A i \in 1 .. Len(r) : i \in 1 .. Len(q) \/ i = Len(q) + 1
      /\ \A i \in 1 .. Len(q) : i \in 1 .. Len(r)
      /\ Len(q) + 1 \in 1 .. Len(r)
  OBVIOUS
<1> HIDE DEF r
<1>2. ASSUME NEW T PROVE Among(r, T) <=> Among(q, T) \/ x \in T
  BY <1>1 DEF Among
<1>3. ASSUME NEW T, OneOf(q, T), ~(Among(q, T) /\ x \in T) PROVE OneOf(r, T)
  <2> SUFFICES ASSUME NEW i \in 1 .. Len(r), NEW j \in 1 .. Len(r), r[i] \in T, r[j] \in T PROVE i = j
    BY DEF OneOf
  <2> QED
    BY <1>1, <1>3 DEF OneOf, Among
<1> QED
  BY <1>2, <1>3 DEF r

LEMMA AmongGrowsTwice ==
  ASSUME NEW S, NEW q \in Seq(S), NEW x \in S
  PROVE  /\ \A T : Among(q \o <<x, x>>, T) <=> Among(q, T) \/ x \in T
         /\ \A T : OneOf(q, T) /\ x \notin T => OneOf(q \o <<x, x>>, T)
<1>1. q \o <<x, x>> = (q \o <<x>>) \o <<x>> /\ q \o <<x>> \in Seq(S)
  OBVIOUS
<1> QED
  BY <1>1, AmongGrows

LEMMA AmongShrinks ==
  ASSUME NEW S, NEW q \in Seq(S), q # <<>>
  PROVE  /\ \A T : Among(Tail(q), T) => Among(q, T)
         /\ \A T : Head(q) \in T => Among(q, T)
         /\ \A T : OneOf(q, T) => OneOf(Tail(q), T)
         /\ \A T : OneOf(q, T) /\ Head(q) \in T => ~Among(Tail(q), T)
<1> DEFINE r == Tail(q)
<1>1. /\ Len(r) + 1 = Len(q) /\ Head(q) = q[1] /\ Len(q) \in Nat /\ Len(r) \in Nat
      /\ \A i \in 1 .. Len(r) : r[i] = q[i + 1] /\ i + 1 \in 1 .. Len(q) /\ i + 1 # 1
      /\ 1 \in 1 .. Len(q)
  OBVIOUS
<1> HIDE DEF r
<1>2. ASSUME NEW T PROVE (Among(r, T) => Among(q, T)) /\ (Head(q) \in T => Among(q, T))
  BY <1>1 DEF Among
<1>3. ASSUME NEW T, OneOf(q, T) PROVE OneOf(r, T)
  <2> SUFFICES ASSUME NEW i \in 1 .. Len(r), NEW j \in 1 .. Len(r), r[i] \in T, r[j] \in T PROVE i = j
    BY DEF OneOf
  <2>1. q[i + 1] \in T /\ q[j + 1] \in T /\ i + 1 \in 1 .. Len(q) /\ j + 1 \in 1 .. Len(q)
    BY <1>1
  <2>2. i + 1 = j + 1
    BY <1>3, <2>1 DEF OneOf
  <2> QED
    BY <1>1, <2>2
<1>4. ASSUME NEW T, OneOf(q, T), Head(q) \in T PROVE ~Among(r, T)
  BY <1>1, <1>4 DEF OneOf, Among
<1> QED
  BY <1>2, <1>3, <1>4 DEF r

\* What a queue that gets longer comes to contain.
LEMMA LongerHas ==
  ASSUME NEW S, NEW q \in Seq(S), NEW x \in S, NEW r, r = q \o <<x>> \/ r = q \o <<x, x>>, NEW m
  PROVE  /\ Has(r, m) => Has(q, m) \/ x = m
         /\ Single(q, m) /\ x # m => Single(r, m)
         /\ r = q \o <<x>> /\ Single(q, m) /\ ~Has(q, m) => Single(r, m)
<1>1. CASE r = q \o <<x>>
  <2>1. /\ Has(q \o <<x>>, m) <=> Has(q, m) \/ x = m
        /\ Single(q, m) /\ ~(Has(q, m) /\ x = m) => Single(q \o <<x>>, m)
    BY QueueGrows
  <2> QED
    BY <1>1, <2>1
<1>2. CASE r = q \o <<x, x>> /\ r # q \o <<x>>
  <2>1. /\ Has(q \o <<x, x>>, m) <=> Has(q, m) \/ x = m
        /\ Single(q, m) /\ x # m => Single(q \o <<x, x>>, m)
    BY QueueGrowsTwice
  <2> QED
    BY <1>2, <2>1
<1> QED
  BY <1>1, <1>2
LEMMA LongerAmong ==
  ASSUME NEW S, NEW q \in Seq(S), NEW x \in S, NEW r, r = q \o <<x>> \/ r = q \o <<x, x>>, NEW T
  PROVE  /\ Among(r, T) => Among(q, T) \/ x \in T
         /\ OneOf(q, T) /\ x \notin T => OneOf(r, T)
         /\ r = q \o <<x>> /\ OneOf(q, T) /\ ~Among(q, T) => OneOf(r, T)
<1>1. CASE r = q \o <<x>>
  <2>1. /\ Among(q \o <<x>>, T) <=> Among(q, T) \/ x \in T
        /\ OneOf(q, T) /\ ~(Among(q, T) /\ x \in T) => OneOf(q \o <<x>>, T)
    BY AmongGrows
  <2> QED
    BY <1>1, <2>1
<1>2. CASE r = q \o <<x, x>> /\ r # q \o <<x>>
  <2>1. /\ Among(q \o <<x, x>>, T) <=> Among(q, T) \/ x \in T
        /\ OneOf(q, T) /\ x \notin T => OneOf(q \o <<x, x>>, T)
    BY AmongGrowsTwice
  <2> QED
    BY <1>2, <2>1
<1> QED
  BY <1>1, <1>2

LEMMA TogetherNone == \A q, o : ~Has(q, o) => Together(q, o)
BY DEF Has, Together

LEMMA TogetherShrinks ==
  ASSUME NEW S, NEW q \in Seq(S), q # <<>>, NEW o, Together(q, o)
  PROVE  /\ Together(Tail(q), o)
         /\ Head(q) = o /\ Has(Tail(q), o) => Head(Tail(q)) = o
<1> DEFINE r == Tail(q)
<1>1. /\ Len(r) + 1 = Len(q) /\ Head(q) = q[1] /\ Len(q) \in Nat /\ Len(r) \in Nat /\ r \in Seq(S)
      /\ \A i \in 1 .. Len(r) : r[i] = q[i + 1] /\ i + 1 \in 1 .. Len(q) /\ i + 1 # 1
      /\ 1 \in 1 .. Len(q) /\ (r # <<>> => Head(r) = r[1])
  OBVIOUS
<1> HIDE DEF r
<1>2. Together(r, o)
  <2> SUFFICES ASSUME NEW i \in 1 .. Len(r), NEW j \in 1 .. Len(r), NEW k \in 1 .. Len(r),
                      i < j, j < k, r[i] = o, r[k] = o
               PROVE  r[j] = o
    BY DEF Together
  <2>1. i + 1 < j + 1 /\ j + 1 < k + 1
    OBVIOUS
  <2> QED
    BY <1>1, <2>1 DEF Together
<1>3. ASSUME Head(q) = o, Has(r, o) PROVE Head(r) = o
  <2>1. PICK k \in 1 .. Len(r) : r[k] = o
    BY <1>3 DEF Has
  <2>2. r # <<>> /\ 1 \in 1 .. Len(r)
    BY <1>1, <2>1
  <2>3. CASE k = 1
    BY <1>1, <2>1, <2>2, <2>3
  <2>4. CASE k # 1
    <3>1. 1 < 2 /\ 2 < k + 1 /\ q[1] = o /\ q[k + 1] = o /\ 2 \in 1 .. Len(q) /\ k + 1 \in 1 .. Len(q)
      BY <1>1, <1>3, <2>1, <2>2, <2>4
    <3>2. q[2] = o
      BY <1>1, <3>1 DEF Together
    <3>3. r[1] = q[1 + 1]
      BY <1>1, <2>2
    <3> QED
      BY <1>1, <2>2, <3>2, <3>3
  <2> QED
    BY <2>3, <2>4
<1> QED
  BY <1>2, <1>3 DEF r

\* An offer is taken once for each listener.
LEMMA TogetherGrows ==
  ASSUME NEW S, NEW q \in Seq(S), NEW t \in Seq(S), NEW p \in S, NEW o,
         \A i \in 1 .. Len(t) : t[i] = p
  PROVE  LET r == q \o t IN
         /\ Has(r, o) => Has(q, o) \/ o = p
         /\ Together(q, o) /\ (o = p => ~Has(q, o)) => Together(r, o)
         /\ q # <<>> => Head(r) = Head(q)
<1> DEFINE r == q \o t l == Len(q) n == Len(t)
<1>1. t \in Seq(S) /\ n \in Nat /\ \A i \in 1 .. n : t[i] = p
  OBVIOUS
<1>2. /\ r \in Seq(S) /\ Len(r) = l + n /\ l \in Nat
      /\ \A i \in 1 .. l + n : r[i] = IF i <= l THEN q[i] ELSE t[i - l]
  BY <1>1
<1>3. q # <<>> => Head(r) = Head(q)
  BY <1>1, <1>2
<1> HIDE DEF r, l, n
<1>4. \A i \in 1 .. l + n : IF i <= l THEN r[i] = q[i] /\ i \in 1 .. l ELSE r[i] = p
  <2> TAKE i \in 1 .. l + n
  <2>1. CASE i <= l
    BY <1>2, <2>1
  <2>2. CASE ~(i <= l)
    <3>1. i - l \in 1 .. n
      BY <1>1, <1>2, <2>2
    <3> QED
      BY <1>1, <1>2, <2>2, <3>1
  <2> QED
    BY <2>1, <2>2
<1>5. ASSUME Has(r, o) PROVE Has(q, o) \/ o = p
  BY <1>2, <1>4, <1>5 DEF Has, l
<1>6. ASSUME Together(q, o), o = p => ~Has(q, o) PROVE Together(r, o)
  <2> SUFFICES ASSUME NEW i \in 1 .. l + n, NEW j \in 1 .. l + n, NEW k \in 1 .. l + n,
                      i < j, j < k, r[i] = o, r[k] = o
               PROVE  r[j] = o
    BY <1>2 DEF Together
  <2>1. CASE o = p
    <3>1. ~(i <= l)
      BY <1>4, <1>6, <2>1 DEF Has, l
    <3>2. ~(j <= l)
      BY <1>2, <3>1
    <3> QED
      BY <1>4, <2>1, <3>2
  <2>2. CASE o # p
    <3>1. k <= l /\ q[k] = o /\ k \in 1 .. l
      BY <1>4, <2>2
    <3>2. i <= l /\ j <= l
      BY <1>2, <3>1
    <3>3. q[i] = o /\ i \in 1 .. l /\ j \in 1 .. l /\ r[j] = q[j]
      BY <1>4, <3>2
    <3> QED
      BY <1>6, <3>1, <3>3 DEF Together, l
  <2> QED
    BY <2>1, <2>2
<1> QED
  BY <1>3, <1>5, <1>6 DEF r

\* A signal that comes was the next the server had to handle, and is handled.
LEMMA SignalTaken ==
  ASSUME Typed, NEW y \in Apps, NEW g, Comes(y, g), g.type \in {"offer", "answer"}
  PROVE  \E x \in Apps : up[x] # <<>> /\ Head(up[x]) = To(sess[y], g) /\ up'[x] = Tail(up[x])
<1>0. TableTypes /\ FrameTypes /\ up \in [Apps -> Seq(UpFrames)]
  BY TypedIs DEF FrameTypes
<1>1. PICK x \in Apps : Serve(x) /\ up[x] # <<>> /\ Given(x, y, g)
  BY DEF Comes
<1>2. Head(up[x]) = To(sess[y], g)
  BY <1>1, KindsAre DEF Given
<1>3. up'[x] = Tail(up[x])
  BY <1>0, <1>1, ServePushes
<1> QED
  BY <1>1, <1>2, <1>3
-----------------------------------------------------------------------------
(***************************************************************************)
(* The offer of a connection and its answer go round once.  They are in    *)
(* one place at a time: the offer sent, pushed, and worked on by b until   *)
(* it is applied; then the answer sent, and pushed.  Meanwhile a's         *)
(* connection has made its offer and has no answer, so none is refused.    *)
(***************************************************************************)
AnswersOf(v, o) == {Answer(v, o.conn, k) : k \in Nat}
RepliesOf(v, o) == {To(o.from, m) : m \in AnswersOf(v, o)}
Replying(b, o) == Among(up[b], RepliesOf(sess[b], o))
Replied(a, b, o) == Among(down[a], AnswersOf(sess[b], o))
EachOnce(a, b, o) ==
  /\ Single(up[a], To(sess[b], OfferOf(o))) /\ Single(down[b], OfferOf(o)) /\ Together(offers[b], o)
  /\ OneOf(up[b], RepliesOf(sess[b], o)) /\ OneOf(down[a], AnswersOf(sess[b], o))
OneByOne(a, b, o) ==
  /\ Sending(a, b, o) \/ Coming(b, o) => ~Pending(b, o) /\ ~Applied(b, o)
  /\ ~(Sending(a, b, o) /\ Coming(b, o))
  /\ Replying(b, o) \/ Replied(a, b, o) =>
       ~Sending(a, b, o) /\ ~Coming(b, o) /\ (Pending(b, o) => Applied(b, o))
  /\ ~(Replying(b, o) /\ Replied(a, b, o))
  /\ Applied(b, o) /\ Pending(b, o) => Head(offers[b]) = o
InPhase(a, b, o) ==
  /\ \/ Sending(a, b, o) \/ Coming(b, o) \/ Replying(b, o) \/ Replied(a, b, o)
     \/ Pending(b, o) /\ ~Applied(b, o)
     => entry[a][sess[b]].phase = "offered"
  /\ Pending(b, o) \/ Applied(b, o) => entry[a][sess[b]].phase \in {"offered", "answered"}
Round(a, b, o) == EachOnce(a, b, o) /\ OneByOne(a, b, o) /\ InPhase(a, b, o)
\* The offer of the connection there is.
IsOffered(a, b, o) ==
  /\ entry[a][sess[b]] # NoEntry
  /\ o.from = sess[a] /\ o.conn = entry[a][sess[b]].conn
RoundInv ==
  \A a \in CanShare, b \in CanWatch, o \in TakenOffers :
    Calm(b) /\ IsOffered(a, b, o) => Round(a, b, o)

\* While nobody's session is replaced, a frame is looked for under the same name.
LEMMA StationsLater ==
  ASSUME NEW a, NEW b, NEW o, sess'[b] = sess[b]
  PROVE  /\ Sending(a, b, o)' <=> Has(up'[a], To(sess[b], OfferOf(o)))
         /\ Coming(b, o)' <=> Has(down'[b], OfferOf(o))
         /\ Pending(b, o)' <=> Has(offers'[b], o)
         /\ Applied(b, o)' <=> vw'[b].remote = o
         /\ Replying(b, o)' <=> Among(up'[b], RepliesOf(sess[b], o))
         /\ Replied(a, b, o)' <=> Among(down'[a], AnswersOf(sess[b], o))
BY DEF Sending, Coming, Pending, Applied, Replying, Replied, Has, Among

LEMMA NoRoundLater ==
  ASSUME NEW a, NEW b, NEW o,
         ~Sending(a, b, o)', ~Coming(b, o)', ~Pending(b, o)', ~Applied(b, o)', ~Replying(b, o)',
         ~Replied(a, b, o)'
  PROVE  Round(a, b, o)'
<1>1. EachOnce(a, b, o)'
  BY TogetherNone, AmongNone DEF EachOnce, Sending, Coming, Pending, Replying, Replied, Single, Has
<1> QED
  BY <1>1 DEF Round, OneByOne, InPhase

LEMMA RoundFrames ==
  ASSUME NEW v, NEW o \in TakenOffers
  PROVE  /\ OfferOf(o).type = "offer"
         /\ \A m \in AnswersOf(v, o) : m.type = "answer" /\ \E k \in Nat : m = Answer(v, o.conn, k)
         /\ \A f \in RepliesOf(v, o) : \E k \in Nat : f = To(o.from, Answer(v, o.conn, k))
         /\ \A k \in Nat : /\ Answer(v, o.conn, k) \in AnswersOf(v, o)
                           /\ To(o.from, Answer(v, o.conn, k)) \in RepliesOf(v, o)
BY KindsAre DEF OfferOf, AnswersOf, RepliesOf

LEMMA SendingMoves ==
  ASSUME Typed, Next, NEW a \in CanShare, NEW v \in Sessions, NEW o \in TakenOffers
  PROVE  LET f == To(v, OfferOf(o))
             makes == /\ entry[a][v].phase = "offering" /\ entry'[a][v].phase \in {"offered", "answered"}
                      /\ o.from = sess[a] /\ o.conn = entry[a][v].conn IN
         /\ Has(up'[a], f) => Has(up[a], f) \/ makes
         /\ Single(up[a], f) /\ (makes => ~Has(up[a], f)) => Single(up'[a], f)
<1> DEFINE f == To(v, OfferOf(o))
           makes == /\ entry[a][v].phase = "offering" /\ entry'[a][v].phase \in {"offered", "answered"}
                    /\ o.from = sess[a] /\ o.conn = entry[a][v].conn
<1>0. a \in Apps /\ up[a] \in Seq(UpFrames)
  BY TypedIs, SharersAssumption DEF FrameTypes
<1>1. Goes(a, f) => makes /\ up'[a] = up[a] \o <<f>>
  <2> SUFFICES ASSUME Goes(a, f) PROVE makes /\ up'[a] = up[a] \o <<f>>
    OBVIOUS
  <2>1. o.from = sess[a] /\ entry[a][v].phase = "offering" /\ o.conn = entry[a][v].conn
    BY OfferGoes DEF OfferOf
  <2>2. up'[a] = up[a] \o <<f>> /\ entry'[a][v].phase \in {"offered", "answered"}
    BY SignalGoes DEF OfferOf
  <2> QED
    BY <2>1, <2>2
<1> HIDE DEF f, makes
<1>2. CASE up'[a] = up[a] \/ up'[a] = <<>>
  BY <1>2, EmptyQueue
<1>3. CASE up[a] # <<>> /\ up'[a] = Tail(up[a])
  BY <1>0, <1>3, QueueShrinks
<1>4. ASSUME NEW g \in UpFrames, up'[a] = up[a] \o <<g>> \/ up'[a] = up[a] \o <<g, g>>, Goes(a, g), g # f
      PROVE  (Has(up'[a], f) => Has(up[a], f)) /\ (Single(up[a], f) => Single(up'[a], f))
  <2>0. PICK r : r = up'[a]
    OBVIOUS
  <2>1. PICK q : q = up[a]
    OBVIOUS
  <2>2. q \in Seq(UpFrames) /\ (r = q \o <<g>> \/ r = q \o <<g, g>>)
    BY <1>0, <1>4, <2>0, <2>1
  <2>3. /\ Has(r, f) => Has(q, f) \/ g = f
        /\ Single(q, f) /\ g # f => Single(r, f)
    BY <2>2, LongerHas
  <2> QED
    BY <1>4, <2>0, <2>1, <2>3
<1>5. ASSUME NEW g \in UpFrames, Goes(a, g), g = f
      PROVE  makes /\ (Single(up[a], f) /\ ~Has(up[a], f) => Single(up'[a], f))
  <2>1. makes /\ up'[a] = up[a] \o <<f>> /\ f \in UpFrames
    BY <1>1, <1>5
  <2> QED
    BY <1>0, <2>1, LongerHas
<1> QED
  BY <1>0, <1>2, <1>3, <1>4, <1>5, UpMoves DEF f, makes

LEMMA ComingMoves ==
  ASSUME Typed, SessionsInv, NamesInv, Next, NEW a \in CanShare, NEW b \in CanWatch,
         NEW o \in TakenOffers, o.from = sess[a]
  PROVE  LET f == To(sess[b], OfferOf(o)) IN
         /\ Has(down'[b], OfferOf(o)) =>
              Has(down[b], OfferOf(o)) \/ (Has(up[a], f) /\ (Single(up[a], f) => ~Has(up'[a], f)))
         /\ Single(down[b], OfferOf(o)) /\ ~(Has(up[a], f) /\ Has(down[b], OfferOf(o))) =>
              Single(down'[b], OfferOf(o))
<1> DEFINE g == OfferOf(o) f == To(sess[b], OfferOf(o))
           passes == Has(up[a], f) /\ (Single(up[a], f) => ~Has(up'[a], f))
<1>0. /\ a \in Apps /\ b \in Apps /\ down[b] \in Seq(DownFrames) /\ up[a] \in Seq(UpFrames)
      /\ o.from \in Sessions /\ o.conn \in Nat /\ sess[b] \in Sessions
  BY TypedIs, SharersAssumption, WatchersAssumption DEF FrameTypes, TakenOffers, TableTypes
<1>1. Comes(b, g) => passes
  <2> SUFFICES ASSUME Comes(b, g) PROVE passes
    OBVIOUS
  <2>1. PICK x \in Apps : up[x] # <<>> /\ Head(up[x]) = f /\ up'[x] = Tail(up[x])
    BY <1>0, SignalTaken, RoundFrames
  <2>2. Has(up[x], f) /\ up[x] \in Seq(UpFrames)
    <3>1. up[x] \in Seq(UpFrames)
      BY TypedIs DEF FrameTypes
    <3> QED
      BY <2>1, <3>1, QueueShrinks
  <2>3. x = a
    BY <1>0, <2>2 DEF NamesInv, SentInOwnName, SessionsInv, OfferOf
  <2> HIDE DEF f
  <2> QED
    BY <1>0, <2>1, <2>2, <2>3, QueueShrinks
<1> HIDE DEF f, g, passes
<1>2. ASSUME down'[b] = down[b] \/ down'[b] = <<>>
      PROVE  /\ Has(down'[b], g) => Has(down[b], g) \/ passes
             /\ Single(down[b], g) /\ ~(passes /\ Has(down[b], g)) => Single(down'[b], g)
  BY <1>2, EmptyQueue
<1>3. ASSUME down[b] # <<>> /\ down'[b] = Tail(down[b])
      PROVE  /\ Has(down'[b], g) => Has(down[b], g) \/ passes
             /\ Single(down[b], g) /\ ~(passes /\ Has(down[b], g)) => Single(down'[b], g)
  BY <1>0, <1>3, QueueShrinks
<1>4. ASSUME NEW h \in DownFrames, down'[b] = down[b] \o <<h>>, Comes(b, h)
      PROVE  /\ Has(down'[b], g) => Has(down[b], g) \/ passes
             /\ Single(down[b], g) /\ ~(passes /\ Has(down[b], g)) => Single(down'[b], g)
  <2>1. /\ Has(down'[b], g) => Has(down[b], g) \/ h = g
        /\ Single(down[b], g) /\ h # g => Single(down'[b], g)
        /\ Single(down[b], g) /\ ~Has(down[b], g) => Single(down'[b], g)
    BY <1>0, <1>4, LongerHas
  <2> QED
    BY <1>1, <1>4, <2>1
<1>5. /\ Has(down'[b], g) => Has(down[b], g) \/ passes
      /\ Single(down[b], g) /\ ~(passes /\ Has(down[b], g)) => Single(down'[b], g)
  <2>1. CASE \E h \in DownFrames : down'[b] = down[b] \o <<h>> /\ Comes(b, h)
    BY <1>4, <2>1
  <2> QED
    BY <1>0, <1>2, <1>3, <2>1, DownMoves
<1>6. passes => Has(up[a], f)
  BY DEF passes
<1> QED
  BY <1>5, <1>6 DEF f, g, passes

LEMMA ReplyingMoves ==
  ASSUME Typed, Next, NEW b \in CanWatch, NEW v \in Sessions, v = sess[b], NEW o \in TakenOffers
  PROVE  LET T == RepliesOf(v, o)
             answers == AppliesOne(b) /\ Head(offers[b]) = o IN
         /\ Among(up'[b], T) => Among(up[b], T) \/ answers
         /\ OneOf(up[b], T) /\ ~(answers /\ Among(up[b], T)) => OneOf(up'[b], T)
<1> DEFINE T == RepliesOf(v, o)
           answers == AppliesOne(b) /\ Head(offers[b]) = o
<1>0. /\ b \in Apps /\ up[b] \in Seq(UpFrames) /\ o.from \in Sessions
      /\ ViewersTyped /\ offers[b] \in Seq(TakenOffers)
  BY TypedIs, WatchersAssumption, WatcherIs DEF FrameTypes, TakenOffers
<1>1. \A f \in T : Goes(b, f) => answers /\ up'[b] = up[b] \o <<f>>
  <2> SUFFICES ASSUME NEW k \in Nat, Goes(b, To(o.from, Answer(v, o.conn, k)))
               PROVE  answers /\ up'[b] = up[b] \o <<To(o.from, Answer(v, o.conn, k))>>
    BY RoundFrames
  <2>1. /\ offers[b] # <<>> /\ o.from = Head(offers[b]).from /\ o.conn = Head(offers[b]).conn
        /\ vw[b].remote # Head(offers[b]) /\ vw'[b].remote = Head(offers[b])
        /\ offers'[b] = Tail(offers[b])
    BY AnswerGoes
  <2>2. Head(offers[b]) \in TakenOffers
    BY <1>0, <2>1, QueueShrinks
  <2>3. Head(offers[b]) = o
    BY <2>1, <2>2 DEF TakenOffers
  <2>4. up'[b] = up[b] \o <<To(o.from, Answer(v, o.conn, k))>>
    BY <1>0, SignalGoes
  <2> QED
    BY <2>1, <2>3, <2>4 DEF AppliesOne
<1> HIDE DEF T, answers
<1>2. ASSUME up'[b] = up[b] \/ up'[b] = <<>>
      PROVE  /\ Among(up'[b], T) => Among(up[b], T) \/ answers
             /\ OneOf(up[b], T) /\ ~(answers /\ Among(up[b], T)) => OneOf(up'[b], T)
  BY <1>2, AmongNothing
<1>3. ASSUME up[b] # <<>> /\ up'[b] = Tail(up[b])
      PROVE  /\ Among(up'[b], T) => Among(up[b], T) \/ answers
             /\ OneOf(up[b], T) /\ ~(answers /\ Among(up[b], T)) => OneOf(up'[b], T)
  BY <1>0, <1>3, AmongShrinks
<1>4. ASSUME NEW g \in UpFrames, up'[b] = up[b] \o <<g>> \/ up'[b] = up[b] \o <<g, g>>, g \notin T
      PROVE  (Among(up'[b], T) => Among(up[b], T)) /\ (OneOf(up[b], T) => OneOf(up'[b], T))
  BY <1>0, <1>4, LongerAmong
<1>5. ASSUME NEW g \in UpFrames, Goes(b, g), g \in T
      PROVE  answers /\ (OneOf(up[b], T) /\ ~Among(up[b], T) => OneOf(up'[b], T))
  <2>1. answers /\ up'[b] = up[b] \o <<g>>
    BY <1>1, <1>5
  <2> QED
    BY <1>0, <2>1, LongerAmong
<1>6. /\ Among(up'[b], T) => Among(up[b], T) \/ answers
      /\ OneOf(up[b], T) /\ ~(answers /\ Among(up[b], T)) => OneOf(up'[b], T)
  <2>1. ASSUME NEW g \in UpFrames, up'[b] = up[b] \o <<g>> \/ up'[b] = up[b] \o <<g, g>>, Goes(b, g)
        PROVE  /\ Among(up'[b], T) => Among(up[b], T) \/ answers
               /\ OneOf(up[b], T) /\ ~(answers /\ Among(up[b], T)) => OneOf(up'[b], T)
    <3>1. CASE g \in T
      BY <1>5, <2>1, <3>1
    <3>2. CASE g \notin T
      BY <1>4, <2>1, <3>2
    <3> QED
      BY <3>1, <3>2
  <2> QED
    BY <1>0, <1>2, <1>3, <2>1, UpMoves
<1> QED
  BY <1>6 DEF T, answers

LEMMA RepliedMoves ==
  ASSUME Typed, SessionsInv, NamesInv, Next, NEW a \in CanShare, NEW b \in CanWatch,
         NEW v \in Sessions, v = sess[b], NEW o \in TakenOffers, o.from = sess[a]
  PROVE  LET T == RepliesOf(v, o)
             A == AnswersOf(v, o) IN
         /\ Among(down'[a], A) =>
              Among(down[a], A) \/ (Among(up[b], T) /\ (OneOf(up[b], T) => ~Among(up'[b], T)))
         /\ OneOf(down[a], A) /\ ~(Among(up[b], T) /\ Among(down[a], A)) => OneOf(down'[a], A)
<1> DEFINE T == RepliesOf(v, o) A == AnswersOf(v, o)
           passes == Among(up[b], T) /\ (OneOf(up[b], T) => ~Among(up'[b], T))
<1>0. /\ a \in Apps /\ b \in Apps /\ down[a] \in Seq(DownFrames) /\ up[b] \in Seq(UpFrames)
      /\ o.from \in Sessions /\ o.conn \in Nat /\ sess[b] \in Sessions
  BY TypedIs, SharersAssumption, WatchersAssumption DEF FrameTypes, TakenOffers, TableTypes
<1>1. ASSUME NEW g \in A, Comes(a, g) PROVE passes
  <2>1. PICK k \in Nat : g = Answer(v, o.conn, k)
    BY RoundFrames
  <2>2. To(sess[a], g) \in T /\ g.type = "answer"
    BY <2>1, RoundFrames
  <2>3. PICK x \in Apps : up[x] # <<>> /\ Head(up[x]) = To(sess[a], g) /\ up'[x] = Tail(up[x])
    BY <1>0, <1>1, <2>2, SignalTaken
  <2>4. up[x] \in Seq(UpFrames)
    BY TypedIs DEF FrameTypes
  <2>5. Has(up[x], To(sess[a], g))
    BY <2>3, <2>4, QueueShrinks
  <2>6. x = b
    BY <1>0, <2>1, <2>5 DEF NamesInv, SentInOwnName, SessionsInv
  <2>7. Head(up[b]) \in T /\ up[b] # <<>> /\ up'[b] = Tail(up[b])
    BY <2>2, <2>3, <2>6
  <2> HIDE DEF T
  <2> QED
    BY <1>0, <2>7, AmongShrinks
<1> HIDE DEF T, A, passes
<1>2. ASSUME down'[a] = down[a] \/ down'[a] = <<>>
      PROVE  /\ Among(down'[a], A) => Among(down[a], A) \/ passes
             /\ OneOf(down[a], A) /\ ~(passes /\ Among(down[a], A)) => OneOf(down'[a], A)
  BY <1>2, AmongNothing
<1>3. ASSUME down[a] # <<>> /\ down'[a] = Tail(down[a])
      PROVE  /\ Among(down'[a], A) => Among(down[a], A) \/ passes
             /\ OneOf(down[a], A) /\ ~(passes /\ Among(down[a], A)) => OneOf(down'[a], A)
  BY <1>0, <1>3, AmongShrinks
<1>4. ASSUME NEW h \in DownFrames, down'[a] = down[a] \o <<h>>, Comes(a, h)
      PROVE  /\ Among(down'[a], A) => Among(down[a], A) \/ passes
             /\ OneOf(down[a], A) /\ ~(passes /\ Among(down[a], A)) => OneOf(down'[a], A)
  <2>1. /\ Among(down'[a], A) => Among(down[a], A) \/ h \in A
        /\ OneOf(down[a], A) /\ h \notin A => OneOf(down'[a], A)
        /\ OneOf(down[a], A) /\ ~Among(down[a], A) => OneOf(down'[a], A)
    BY <1>0, <1>4, LongerAmong
  <2>2. h \in A => passes
    BY <1>1, <1>4
  <2> QED
    BY <2>1, <2>2
<1>5. /\ Among(down'[a], A) => Among(down[a], A) \/ passes
      /\ OneOf(down[a], A) /\ ~(passes /\ Among(down[a], A)) => OneOf(down'[a], A)
  <2>1. CASE \E h \in DownFrames : down'[a] = down[a] \o <<h>> /\ Comes(a, h)
    BY <1>4, <2>1
  <2> QED
    BY <1>0, <1>2, <1>3, <2>1, DownMoves
<1>6. passes => Among(up[b], T)
  BY DEF passes
<1> QED
  BY <1>5, <1>6 DEF T, A, passes

\* What b works on, and has applied, after a step.
LEMMA OffersAfter ==
  ASSUME Typed, Next, NEW b \in CanWatch, NEW o \in TakenOffers,
         Together(offers[b], o), Single(down[b], OfferOf(o)),
         Coming(b, o) => ~Pending(b, o) /\ ~Applied(b, o),
         Applied(b, o) /\ Pending(b, o) => Head(offers[b]) = o
  PROVE  /\ Together(offers'[b], o)
         /\ Has(offers'[b], o) => Pending(b, o) \/ (Coming(b, o) /\ ~Has(down'[b], OfferOf(o)))
         /\ vw'[b].remote = o => Applied(b, o) \/ (AppliesOne(b) /\ Head(offers[b]) = o)
         /\ AppliesOne(b) /\ Head(offers[b]) = o => Pending(b, o) /\ ~Applied(b, o) /\ vw'[b].remote = o
         /\ vw'[b].remote = o /\ Has(offers'[b], o) => Head(offers'[b]) = o
         /\ Applied(b, o) /\ Has(offers'[b], o) => vw'[b].remote = o
<1> DEFINE Fine ==
         /\ Together(offers'[b], o)
         /\ Has(offers'[b], o) => Pending(b, o) \/ (Coming(b, o) /\ ~Has(down'[b], OfferOf(o)))
         /\ vw'[b].remote = o => Applied(b, o) \/ (AppliesOne(b) /\ Head(offers[b]) = o)
         /\ vw'[b].remote = o /\ Has(offers'[b], o) => Head(offers'[b]) = o
         /\ Applied(b, o) /\ Has(offers'[b], o) => vw'[b].remote = o
<1>0. /\ offers[b] \in Seq(TakenOffers) /\ b \in Apps /\ down[b] \in Seq(DownFrames)
      /\ NoOffer # o
  <2>1. NoOffer \notin TakenOffers
    BY NoneAssumption DEF NoOffer, TakenOffers
  <2> QED
    BY <2>1, TypedIs, WatcherIs, WatchersAssumption DEF FrameTypes
<1>1. ASSUME offers'[b] = offers[b] /\ vw'[b].remote = vw[b].remote PROVE Fine
  BY <1>1 DEF Pending, Applied
<1>2. ASSUME offers'[b] = <<>> /\ vw'[b].remote = NoOffer PROVE Fine
  <2>1. ~Has(offers'[b], o) /\ Together(offers'[b], o)
    BY <1>2, EmptyQueue, TogetherNone
  <2> QED
    BY <1>0, <1>2, <2>1
<1>3. ASSUME TakesOne(b) PROVE Fine
  <2>1. PICK p \in TakenOffers, n \in Nat : /\ Head(down[b]) = OfferOf(p)
                                            /\ offers'[b] = offers[b] \o [i \in 1 .. n |-> p]
    BY <1>3 DEF TakesOne
  <2>2. down[b] # <<>> /\ down'[b] = Tail(down[b]) /\ vw'[b].remote = vw[b].remote
    BY <1>3 DEF TakesOne
  <2>3. o = p => Coming(b, o) /\ ~Has(down'[b], OfferOf(o))
    BY <1>0, <2>1, <2>2, QueueShrinks DEF Coming
  <2>4. /\ Has(offers'[b], o) => Has(offers[b], o) \/ o = p
        /\ Together(offers[b], o) /\ (o = p => ~Has(offers[b], o)) => Together(offers'[b], o)
        /\ offers[b] # <<>> => Head(offers'[b]) = Head(offers[b])
    <3>1. PICK q, t : q = offers[b] /\ t = [i \in 1 .. n |-> p]
      OBVIOUS
    <3>2. q \in Seq(TakenOffers) /\ t \in Seq(TakenOffers) /\ \A i \in 1 .. Len(t) : t[i] = p
      BY <1>0, <3>1
    <3>3. /\ Has(q \o t, o) => Has(q, o) \/ o = p
          /\ Together(q, o) /\ (o = p => ~Has(q, o)) => Together(q \o t, o)
          /\ q # <<>> => Head(q \o t) = Head(q)
      BY <3>2, TogetherGrows
    <3>4. offers'[b] = q \o t
      BY <2>1, <3>1
    <3> QED
      BY <3>1, <3>3, <3>4
  <2>5. Has(offers[b], o) => offers[b] # <<>>
    BY EmptyQueue
  <2> QED
    BY <2>2, <2>3, <2>4, <2>5 DEF Pending, Applied
<1>4. ASSUME RefusesOne(b) PROVE Fine
  <2>1. offers[b] # <<>> /\ offers'[b] = Tail(offers[b]) /\ vw'[b].remote = vw[b].remote
    BY <1>4 DEF RefusesOne
  <2>2. /\ Together(Tail(offers[b]), o)
        /\ Head(offers[b]) = o /\ Has(Tail(offers[b]), o) => Head(Tail(offers[b])) = o
    BY <1>0, <2>1, TogetherShrinks
  <2>3. Has(Tail(offers[b]), o) => Has(offers[b], o)
    BY <1>0, <2>1, QueueShrinks
  <2> QED
    BY <2>1, <2>2, <2>3 DEF Pending, Applied
<1>5. ASSUME AppliesOne(b) PROVE Fine
  <2>1. /\ offers[b] # <<>> /\ offers'[b] = Tail(offers[b])
        /\ vw[b].remote # Head(offers[b]) /\ vw'[b].remote = Head(offers[b])
    BY <1>5 DEF AppliesOne
  <2>2. /\ Together(Tail(offers[b]), o)
        /\ Head(offers[b]) = o /\ Has(Tail(offers[b]), o) => Head(Tail(offers[b])) = o
    BY <1>0, <2>1, TogetherShrinks
  <2>3. Has(Tail(offers[b]), o) => Has(offers[b], o)
    BY <1>0, <2>1, QueueShrinks
  <2> QED
    BY <1>5, <2>1, <2>2, <2>3 DEF Pending, Applied
<1>6. AppliesOne(b) /\ Head(offers[b]) = o => Pending(b, o) /\ ~Applied(b, o) /\ vw'[b].remote = o
  BY <1>0, QueueShrinks DEF AppliesOne, Pending, Applied
<1> HIDE DEF Fine
<1>7. Fine
  BY <1>1, <1>2, <1>3, <1>4, <1>5, OffersDo DEF OffersGo
<1> QED
  BY <1>6, <1>7 DEF Fine

LEMMA RoundStays ==
  ASSUME Typed, SessionsInv, NamesInv, Next, UNCHANGED sess, NEW a \in CanShare, NEW b \in CanWatch,
         NEW o \in TakenOffers, IsOffered(a, b, o)', Meets(a, b), entry[a][sess[b]] # NoEntry,
         IsOffered(a, b, o) => Round(a, b, o)
  PROVE  Round(a, b, o)'
<1>0. /\ a \in Apps /\ b \in Apps /\ sess[b] \in Sessions /\ sess'[a] = sess[a] /\ sess'[b] = sess[b]
      /\ down[a] \in Seq(DownFrames)
  BY TypedIs, SharersAssumption, WatchersAssumption DEF TableTypes, FrameTypes
<1>v. PICK v \in Sessions : v = sess[b]
  BY <1>0
<1>1. /\ entry'[a][v] # NoEntry /\ o.from = sess[a] /\ o.conn = entry'[a][v].conn
  BY <1>0, <1>v DEF IsOffered
<1>2. /\ entry'[a][v].conn = entry[a][v].conn
      /\ \/ entry'[a][v] = entry[a][v]
         \/ entry[a][v].phase = "offering" /\ entry'[a][v].phase = "offered"
         \/ entry[a][v].phase = "offered" /\ entry'[a][v].phase = "answered" /\ \E k \in Nat :
              /\ down[a] # <<>> /\ down'[a] = Tail(down[a]) /\ Head(down[a]) = Answer(v, entry'[a][v].of, k)
              /\ Has(down[a], Answer(v, entry'[a][v].of, k)) /\ entry'[a][v].of \in Nat
  BY <1>1, <1>v, MeetingGoes DEF EntryMeets
<1>3. IsOffered(a, b, o)
  BY <1>1, <1>2, <1>v DEF IsOffered
<1>4. EachOnce(a, b, o) /\ OneByOne(a, b, o) /\ InPhase(a, b, o)
  BY <1>3 DEF Round
<1> DEFINE S == Sending(a, b, o) S1 == Has(up'[a], To(v, OfferOf(o)))
           C == Coming(b, o)     C1 == Has(down'[b], OfferOf(o))
           P == Pending(b, o)    P1 == Has(offers'[b], o)
           A == Applied(b, o)    A1 == (vw'[b].remote = o)
           R == Replying(b, o)   R1 == Among(up'[b], RepliesOf(v, o))
           D == Replied(a, b, o) D1 == Among(down'[a], AnswersOf(v, o))
           ph == entry[a][v].phase ph1 == entry'[a][v].phase
           makes == ph = "offering" /\ ph1 = "offered"
           answers == AppliesOne(b) /\ Head(offers[b]) = o
           ahead == Head(offers[b]) = o
           ahead1 == Head(offers'[b]) = o
<1>5. /\ S \/ C => ~P /\ ~A
      /\ ~(S /\ C)
      /\ R \/ D => ~S /\ ~C /\ (P => A)
      /\ ~(R /\ D)
      /\ A /\ P => ahead
  BY <1>4 DEF OneByOne
<1>6. /\ S \/ C \/ R \/ D \/ (P /\ ~A) => ph = "offered"
      /\ P \/ A => ph \in {"offered", "answered"}
  BY <1>4, <1>v DEF InPhase
<1>7. /\ Single(up[a], To(v, OfferOf(o))) /\ Single(down[b], OfferOf(o)) /\ Together(offers[b], o)
      /\ OneOf(up[b], RepliesOf(v, o)) /\ OneOf(down[a], AnswersOf(v, o))
      /\ Single(up[a], To(sess[b], OfferOf(o)))
  BY <1>4, <1>v DEF EachOnce
<1>8. /\ S <=> Has(up[a], To(v, OfferOf(o)))
      /\ C <=> Has(down[b], OfferOf(o))
      /\ R <=> Among(up[b], RepliesOf(v, o))
      /\ D <=> Among(down[a], AnswersOf(v, o))
  BY <1>v DEF Sending, Coming, Replying, Replied
<1>9. /\ S1 => S \/ makes
      /\ (makes => ~S) => Single(up'[a], To(v, OfferOf(o)))
  <2>1. LET f == To(v, OfferOf(o))
            mk == /\ entry[a][v].phase = "offering" /\ entry'[a][v].phase \in {"offered", "answered"}
                  /\ o.from = sess[a] /\ o.conn = entry[a][v].conn IN
        /\ Has(up'[a], f) => Has(up[a], f) \/ mk
        /\ Single(up[a], f) /\ (mk => ~Has(up[a], f)) => Single(up'[a], f)
    BY SendingMoves
  <2>2. ph = "offering" /\ ph1 \in {"offered", "answered"} => makes
    BY <1>2
  <2>3. o.from = sess[a] /\ (makes => o.conn = entry[a][v].conn)
    BY <1>1, <1>2
  <2> QED
    BY <1>7, <1>8, <2>1, <2>2, <2>3
<1>10. /\ C1 => C \/ (S /\ ~S1)
       /\ ~(S /\ C) => Single(down'[b], OfferOf(o))
  <2>1. LET f == To(sess[b], OfferOf(o)) IN
         /\ Has(down'[b], OfferOf(o)) =>
              Has(down[b], OfferOf(o)) \/ (Has(up[a], f) /\ (Single(up[a], f) => ~Has(up'[a], f)))
         /\ Single(down[b], OfferOf(o)) /\ ~(Has(up[a], f) /\ Has(down[b], OfferOf(o))) =>
              Single(down'[b], OfferOf(o))
    BY <1>1, ComingMoves
  <2> QED
    BY <1>7, <1>8, <1>v, <2>1
<1>11. /\ R1 => R \/ answers
       /\ ~(answers /\ R) => OneOf(up'[b], RepliesOf(v, o))
  <2>1. LET T == RepliesOf(v, o)
            ans == AppliesOne(b) /\ Head(offers[b]) = o IN
         /\ Among(up'[b], T) => Among(up[b], T) \/ ans
         /\ OneOf(up[b], T) /\ ~(ans /\ Among(up[b], T)) => OneOf(up'[b], T)
    BY <1>v, ReplyingMoves
  <2> QED
    BY <1>7, <1>8, <2>1
<1>12. /\ D1 => D \/ (R /\ ~R1)
       /\ ~(R /\ D) => OneOf(down'[a], AnswersOf(v, o))
  <2>1. LET T == RepliesOf(v, o)
            B == AnswersOf(v, o) IN
         /\ Among(down'[a], B) =>
              Among(down[a], B) \/ (Among(up[b], T) /\ (OneOf(up[b], T) => ~Among(up'[b], T)))
         /\ OneOf(down[a], B) /\ ~(Among(up[b], T) /\ Among(down[a], B)) => OneOf(down'[a], B)
    BY <1>1, <1>v, RepliedMoves
  <2> QED
    BY <1>7, <1>8, <2>1
<1>13. /\ Together(offers'[b], o)
       /\ P1 => P \/ (C /\ ~C1)
       /\ A1 => A \/ answers
       /\ answers => P /\ ~A /\ A1
       /\ A1 /\ P1 => ahead1
       /\ A /\ P1 => A1
  BY <1>5, <1>7, OffersAfter
<1>14. ph1 = "answered" /\ entry'[a][v] # entry[a][v] => D /\ ~D1
  <2> SUFFICES ASSUME ph1 = "answered", entry'[a][v] # entry[a][v] PROVE D /\ ~D1
    OBVIOUS
  <2>1. PICK k \in Nat :
          /\ down[a] # <<>> /\ down'[a] = Tail(down[a]) /\ Head(down[a]) = Answer(v, entry'[a][v].of, k)
          /\ Has(down[a], Answer(v, entry'[a][v].of, k)) /\ entry'[a][v].of \in Nat
    BY <1>2
  <2>2. PICK c \in Nat : c = entry'[a][v].of
    BY <2>1
  <2>3. Returned(a, b, c, k)
    BY <1>v, <2>1, <2>2 DEF Returned
  <2>4. c = o.conn
    BY <1>1, <1>2, <1>v, <2>3 DEF Meets
  <2>5. Head(down[a]) \in AnswersOf(v, o)
    BY <2>1, <2>2, <2>4, RoundFrames
  <2> QED
    BY <1>0, <1>7, <1>8, <2>1, <2>5, AmongShrinks
<1>15. entry'[a][v] = entry[a][v] => ph1 = ph
  OBVIOUS
<1>16. \/ ph1 = ph /\ entry'[a][v] = entry[a][v]
       \/ makes
       \/ ph1 = "answered" /\ D /\ ~D1
  BY <1>2, <1>14
<1> HIDE DEF S, C, P, A, R, D, S1, C1, P1, A1, R1, D1, makes, answers, ahead, ahead1
<1>17. /\ Single(up'[a], To(v, OfferOf(o))) /\ Single(down'[b], OfferOf(o)) /\ Together(offers'[b], o)
       /\ OneOf(up'[b], RepliesOf(v, o)) /\ OneOf(down'[a], AnswersOf(v, o))
  <2>1. makes => ~S
    BY <1>6 DEF makes
  <2> QED
    BY <1>5, <1>9, <1>10, <1>11, <1>12, <1>13, <2>1
<1>18. makes => ph = "offering" /\ ph1 = "offered"
  BY DEF makes
<1> HIDE DEF ph, ph1
<1>19. /\ S1 \/ C1 => ~P1 /\ ~A1
       /\ ~(S1 /\ C1)
       /\ R1 \/ D1 => ~S1 /\ ~C1 /\ (P1 => A1)
       /\ ~(R1 /\ D1)
       /\ A1 /\ P1 => ahead1
  BY <1>5, <1>6, <1>9, <1>10, <1>11, <1>12, <1>13, <1>18
<1>20. /\ S1 \/ C1 \/ R1 \/ D1 \/ (P1 /\ ~A1) => ph1 = "offered"
       /\ P1 \/ A1 => ph1 \in {"offered", "answered"}
  BY <1>5, <1>6, <1>9, <1>10, <1>11, <1>12, <1>13, <1>16, <1>18
<1>21. /\ Sending(a, b, o)' <=> S1
       /\ Coming(b, o)' <=> C1
       /\ Pending(b, o)' <=> P1
       /\ Applied(b, o)' <=> A1
       /\ Replying(b, o)' <=> R1
       /\ Replied(a, b, o)' <=> D1
  BY <1>0, <1>v, StationsLater DEF S1, C1, P1, A1, R1, D1
<1>22. EachOnce(a, b, o)'
  BY <1>0, <1>v, <1>17 DEF EachOnce, Single, Together, OneOf
<1>23. OneByOne(a, b, o)'
  BY <1>19, <1>21 DEF OneByOne, ahead1
<1>24. InPhase(a, b, o)'
  BY <1>0, <1>v, <1>20, <1>21 DEF InPhase, ph1
<1> QED
  BY <1>22, <1>23, <1>24 DEF Round

LEMMA AmongThem ==
  ASSUME NEW v, NEW o \in TakenOffers
  PROVE  /\ \A q : Among(q, AnswersOf(v, o)) => \E k \in Nat : Has(q, Answer(v, o.conn, k))
         /\ \A q : Among(q, RepliesOf(v, o)) => \E k \in Nat : Has(q, To(o.from, Answer(v, o.conn, k)))
BY DEF AnswersOf, RepliesOf, Among, Has

\* A connection that begins makes an offer nobody has.
LEMMA RoundBegins ==
  ASSUME Typed, SessionsInv, NamesInv, NumbersInv, Next, UNCHANGED sess, NEW a \in CanShare,
         NEW b \in CanWatch, NEW o \in TakenOffers, IsOffered(a, b, o)', entry[a][sess[b]] = NoEntry,
         Awaited(a, b), Behind(down[a], sess[b])
  PROVE  Round(a, b, o)'
<1>0. /\ a \in Apps /\ b \in Apps /\ sess[b] \in Sessions /\ sess'[a] = sess[a] /\ sess'[b] = sess[b]
      /\ down[a] \in Seq(DownFrames) /\ o.conn \in Nat /\ offers[b] \in Seq(TakenOffers)
  BY TypedIs, WatcherIs, SharersAssumption, WatchersAssumption DEF TableTypes, FrameTypes, TakenOffers
<1>v. PICK v \in Sessions : v = sess[b]
  BY <1>0
<1>1. /\ entry'[a][v] # NoEntry /\ o.from = sess[a] /\ o.conn = entry'[a][v].conn /\ entry[a][v] = NoEntry
  BY <1>0, <1>v DEF IsOffered
<1>2. /\ down[a] # <<>> /\ Head(down[a]) = ViewerJoined(v) /\ down'[a] = Tail(down[a])
      /\ entry'[a][v].phase = "offering"
  <2>1. NoEntry.phase = "none"
    BY DEF NoEntry
  <2> QED
    BY <1>1, <2>1, EntryMoves DEF EntryGoes
<1>3. Told(a, b)
  BY <1>0, <1>2, <1>v, QueueShrinks DEF Told
<1>4. NoneUnderWay(a, b)'
  BY <1>1, <1>3, <1>v, NothingComes DEF Awaited
<1>5. /\ ~Has(up'[a], To(v, Offer(sess[a], o.conn)))
      /\ ~Has(down'[b], Offer(sess[a], o.conn))
      /\ ~Has(offers'[b], [from |-> sess[a], conn |-> o.conn])
      /\ \A k \in Nat : ~Has(up'[b], To(sess[a], Answer(v, o.conn, k)))
  <2>1. \A c, k \in Nat : /\ ~Has(up'[a], To(v, Offer(sess[a], c)))
                          /\ ~Has(down'[b], Offer(sess[a], c))
                          /\ ~Has(offers'[b], [from |-> sess[a], conn |-> c])
                          /\ ~Has(up'[b], To(sess[a], Answer(v, c, k)))
    BY <1>0, <1>4, <1>v DEF NoneUnderWay, UnderWay, Has
  <2> QED
    BY <1>0, <2>1
<1>6. \A k \in Nat : ~Has(down'[a], Answer(v, o.conn, k))
  BY <1>0, <1>2, <1>v, BehindQueues
<1>7. o = [from |-> sess[a], conn |-> o.conn]
  BY <1>1 DEF TakenOffers
<1>8. vw'[b].remote # o
  <2>1. sh[a].made \in Nat /\ o.conn = sh[a].made + 1
    <3>1. NoEntry.phase = "none"
      BY DEF NoEntry
    <3> QED
      BY <1>1, <1>2, <3>1, MadeGoes
  <2>2. ~Known(o)
    BY <1>0, <1>1, <2>1 DEF Known
  <2>3. vw[b].remote # o /\ NoOffer # o
    <3>1. NoOffer \notin TakenOffers
      BY NoneAssumption DEF NoOffer, TakenOffers
    <3> QED
      BY <2>2, <3>1 DEF NumbersInv
  <2>4. ~Has(offers[b], o)
    BY <2>2 DEF NumbersInv, Pending
  <2>5. offers[b] # <<>> => Head(offers[b]) # o
    BY <1>0, <2>4, QueueShrinks
  <2> QED
    BY <2>3, <2>5, OffersDo DEF OffersGo, TakesOne, RefusesOne, AppliesOne
<1>9. /\ ~Has(up'[a], To(sess[b], OfferOf(o))) /\ ~Has(down'[b], OfferOf(o)) /\ ~Has(offers'[b], o)
  BY <1>1, <1>5, <1>7, <1>v DEF OfferOf
<1>10. ~Among(up'[b], RepliesOf(sess[b], o)) /\ ~Among(down'[a], AnswersOf(sess[b], o))
  BY <1>1, <1>5, <1>6, <1>v, AmongThem
<1>11. /\ ~Sending(a, b, o)' /\ ~Coming(b, o)' /\ ~Pending(b, o)' /\ ~Applied(b, o)'
       /\ ~Replying(b, o)' /\ ~Replied(a, b, o)'
  BY <1>0, <1>8, <1>9, <1>10, StationsLater
<1> QED
  BY <1>11, NoRoundLater

LEMMA RoundStep ==
  ASSUME Typed, SessionsInv, NamesInv, MeetInv, NumbersInv, RoundInv, Next
  PROVE  RoundInv'
<1> SUFFICES ASSUME NEW a \in CanShare, NEW b \in CanWatch, NEW o \in TakenOffers, Calm(b)', IsOffered(a, b, o)'
             PROVE  Round(a, b, o)'
  BY DEF RoundInv
<1>0. /\ a \in Apps /\ b \in Apps /\ sess \in [Apps -> Sessions] /\ o.conn \in Nat /\ o.from \in Sessions
  BY TypedIs, SharersAssumption, WatchersAssumption DEF TableTypes, TakenOffers
<1>c. Calm(b)
  BY SparedBefore, MishapsStay DEF Calm
<1>1. MeetsInOrder(a, b) /\ (IsOffered(a, b, o) => Round(a, b, o))
  BY <1>c DEF MeetInv, RoundInv
<1>2. CASE UNCHANGED sess
  <2>1. CASE entry[a][sess[b]] = NoEntry
    BY <1>1, <1>2, <2>1, RoundBegins DEF MeetsInOrder
  <2>2. CASE entry[a][sess[b]] # NoEntry
    BY <1>1, <1>2, <2>2, RoundStays DEF MeetsInOrder
  <2> QED
    BY <2>1, <2>2
<1>3. ASSUME NEW x \in Apps, NEW s \in Sessions, ~online[x], s \notin used,
             sess' = [sess EXCEPT ![x] = s], UNCHANGED <<rmVars, gone, up, down, shVars, vwVars>>
      PROVE  Round(a, b, o)'
  <2>0. UNCHANGED <<up, down, entry, offers, vw>> /\ up[x] = <<>> /\ down[x] = <<>>
    BY <1>3 DEF SessionsInv, shVars, vwVars
  <2>1. x # b
    <3> SUFFICES ASSUME x = b PROVE FALSE
      OBVIOUS
    <3>1. sess'[b] = s
      BY <1>0, <1>3
    <3>2. entry[a][s] = NoEntry
      BY <1>3 DEF NamesInv, NamedInUse
    <3> QED
      BY <2>0, <3>1, <3>2 DEF IsOffered
  <2>2. sess'[b] = sess[b]
    BY <1>0, <1>3, <2>1
  <2>3. CASE x # a
    <3>1. sess'[a] = sess[a]
      BY <1>0, <1>3, <2>3
    <3>2. IsOffered(a, b, o)
      BY <2>0, <2>2, <3>1 DEF IsOffered
    <3>3. Round(a, b, o)
      BY <1>1, <3>2
    <3> QED
      BY <2>0, <2>2, <3>1, <3>3 DEF Round, EachOnce, OneByOne, InPhase, Single, Together, OneOf,
        Sending, Coming, Pending, Applied, Replying, Replied, Has, Among
  <2>4. CASE x = a
    <3>1. o.from = s /\ up[a] = <<>> /\ down[a] = <<>>
      BY <1>0, <1>3, <2>0, <2>4 DEF IsOffered
    <3>2. ~Has(up[a], To(sess[b], OfferOf(o)))
      BY <3>1, EmptyQueue
    <3>3. ~Has(down[b], OfferOf(o))
      BY <1>0, <1>3, <3>1 DEF NamesInv, NamedInUse, OfferOf
    <3>4. ~Has(offers[b], o)
      BY <1>3, <3>1 DEF NamesInv, NamedInUse
    <3>5. vw[b].remote # o
      <4>1. NoOffer \notin TakenOffers
        BY NoneAssumption DEF NoOffer, TakenOffers
      <4> QED
        BY <1>3, <3>1, <4>1 DEF NumbersInv, Known
    <3>6. ~Among(up[b], RepliesOf(sess[b], o))
      <4>1. \A k \in Nat : ~Has(up[b], To(s, Answer(sess[b], o.conn, k)))
        BY <1>0, <1>3 DEF NamesInv, SentInOwnName
      <4> QED
        BY <3>1, <4>1, AmongThem
    <3>7. ~Among(down[a], AnswersOf(sess[b], o))
      BY <3>1, AmongNothing
    <3>8. /\ ~Sending(a, b, o)' /\ ~Coming(b, o)' /\ ~Pending(b, o)' /\ ~Applied(b, o)'
          /\ ~Replying(b, o)' /\ ~Replied(a, b, o)'
      BY <2>0, <2>2, <3>2, <3>3, <3>4, <3>5, <3>6, <3>7, StationsLater
    <3> QED
      BY <3>8, NoRoundLater
  <2> QED
    BY <2>3, <2>4
<1> QED
  BY <1>2, <1>3, SessionsMove

LEMMA RoundInit == Init => RoundInv
<1> SUFFICES ASSUME Init, NEW a \in CanShare, NEW b \in CanWatch PROVE entry[a][sess[b]] = NoEntry
  BY DEF RoundInv, IsOffered
<1>1. b \in Apps /\ sess \in [Apps -> Sessions]
  BY InitSessions, WatchersAssumption
<1> QED
  BY <1>1 DEF Init, SharingInit, NoEntries
LEMMA RoundKept == RoundInv /\ UNCHANGED shareVars => RoundInv'
<1> SUFFICES ASSUME RoundInv, UNCHANGED shareVars, NEW a \in CanShare, NEW b \in CanWatch, NEW o \in TakenOffers,
                    Calm(b)', IsOffered(a, b, o)'
             PROVE  Round(a, b, o)'
  BY DEF RoundInv
<1>1. UNCHANGED <<sess, entry, vw, offers, up, down, happened>>
  BY DEF shareVars, linkVars, shVars, vwVars
<1>2. Calm(b) /\ IsOffered(a, b, o)
  BY <1>1 DEF Calm, Spared, IsOffered
<1>3. EachOnce(a, b, o) /\ OneByOne(a, b, o) /\ InPhase(a, b, o)
  BY <1>2 DEF RoundInv, Round
<1>4. EachOnce(a, b, o)'
  BY <1>1, <1>3 DEF EachOnce, Single, Together, OneOf
<1>5. OneByOne(a, b, o)' /\ InPhase(a, b, o)'
  BY <1>1, <1>3 DEF OneByOne, InPhase, Sending, Coming, Pending, Applied, Replying, Replied, Has, Among
<1> QED
  BY <1>4, <1>5 DEF Round
LEMMA RoundsHold ==
  Spec => [](Typed /\ SessionsInv /\ NamesInv /\ MeetInv /\ NumbersInv /\ RoundInv)
<1>1. NumbersInv /\ Typed /\ SessionsInv /\ NamesInv /\ MeetInv /\ RoundInv /\ [Next]_shareVars
        => NumbersInv' /\ RoundInv'
  BY NumbersStep, NumbersKept, RoundStep, RoundKept
<1> QED
  BY <1>1, NumbersInit, RoundInit, MeetsHold, PTL DEF Spec
-----------------------------------------------------------------------------
(***************************************************************************)
(* A connection that never broke is there, and the server knows whom it    *)
(* has under which name; an index entry is of a session there has been.    *)
(***************************************************************************)
Dropless(a) == Spared({a}, {"drop"})
Indoors(a) == (Dropless(a) => online[a]) /\ (online[a] => sess[a] \notin gone)
IndexInUse == \A s \in Sessions : sessionRooms[s] # None => s \in used
IndoorsInv == IndexInUse /\ gone \subseteq used /\ \A a \in Apps : Indoors(a)

LEMMA NoDropHere ==
  ASSUME NEW x \in Apps, NEW a \in Apps, Drop(x), Dropless(a)'
  PROVE  x # a
<1> SUFFICES ASSUME x = a PROVE FALSE
  OBVIOUS
<1>1. MishapsAllowed({a}, {"drop"}) /\ "drop" \in {"drop"}
  BY Zenon DEF Drop
<1> QED
  BY <1>1, SparedIsNotRecorded, Zenon DEF Dropless

LEMMA GoneMoves ==
  ASSUME Typed, Next
  PROVE  \/ UNCHANGED <<gone, sess, online>>
         \/ \E x \in Apps : /\ Drop(x) /\ online' = [online EXCEPT ![x] = FALSE]
                            /\ gone' = gone \union {sess[x]} /\ UNCHANGED sess
         \/ \E x \in Apps, s \in Sessions :
              /\ ~online[x] /\ online' = [online EXCEPT ![x] = TRUE]
              /\ s \notin used /\ sess' = [sess EXCEPT ![x] = s] /\ UNCHANGED gone
         \/ \E s \in Sessions : gone' = gone \ {s} /\ UNCHANGED <<sess, online>>
<1>0. TableTypes /\ FrameTypes /\ SharersTyped
  BY TypedIs
<1>1. ASSUME NEW x \in Apps, Receive(x) PROVE UNCHANGED <<gone, sess, online>>
  BY <1>1 DEF Receive
<1>2. ASSUME NEW x \in Apps, Serve(x) PROVE UNCHANGED <<gone, sess, online>>
  BY <1>0, <1>2, ServePushes
<1>3. ASSUME NEW x \in CanShare, SharingStep(x) PROVE UNCHANGED <<gone, sess, online>>
  BY <1>3, SharersStepIs, SharersSend
<1>4. ASSUME NEW x \in CanWatch, ViewingStep(x) PROVE UNCHANGED <<gone, sess, online>>
  BY <1>4, ViewersStepIs, ViewersSend
<1> QED
  BY <1>0, <1>1, <1>2, <1>3, <1>4, SocketsDo DEF Next

LEMMA IndoorsStays ==
  ASSUME Typed, SessionsInv, gone \subseteq used, Next, NEW a \in Apps, Indoors(a)
  PROVE  Indoors(a)'
<1> DEFINE Fine == (Dropless(a)' => online'[a]) /\ (online'[a] => sess'[a] \notin gone')
<1>0. online \in [Apps -> BOOLEAN] /\ sess \in [Apps -> Sessions]
  BY TypedIs DEF TableTypes
<1>1. Dropless(a)' => Dropless(a)
  BY MishapsStay, SparedBefore DEF Dropless
<1>2. (Dropless(a)' => online[a]) /\ (online[a] => sess[a] \notin gone)
  BY <1>1 DEF Indoors
<1>3. ASSUME UNCHANGED <<gone, sess, online>> PROVE Fine
  BY <1>2, <1>3
<1>4. ASSUME NEW x \in Apps, Drop(x), online' = [online EXCEPT ![x] = FALSE],
             gone' = gone \union {sess[x]}, UNCHANGED sess
      PROVE  Fine
  <2>1. CASE x # a
    <3>1. sess[x] # sess[a]
      BY <2>1 DEF SessionsInv
    <3> QED
      BY <1>0, <1>2, <1>4, <2>1, <3>1
  <2>2. CASE x = a
    <3>1. ~online'[a]
      BY <1>0, <1>4, <2>2
    <3>2. ~Dropless(a)'
      BY <1>4, <2>2, NoDropHere
    <3> QED
      BY <3>1, <3>2
  <2> QED
    BY <2>1, <2>2
<1>5. ASSUME NEW x \in Apps, NEW s \in Sessions, ~online[x], online' = [online EXCEPT ![x] = TRUE],
             s \notin used, sess' = [sess EXCEPT ![x] = s], UNCHANGED gone
      PROVE  Fine
  <2>1. CASE x = a
    <3>1. online'[a] /\ sess'[a] = s
      BY <1>0, <1>5, <2>1
    <3>2. gone' = gone /\ s \notin gone
      BY <1>5
    <3> QED
      BY <3>1, <3>2
  <2>2. CASE x # a
    <3>1. online'[a] = online[a] /\ sess'[a] = sess[a]
      BY <1>0, <1>5, <2>2
    <3>2. gone' = gone
      BY <1>5
    <3> QED
      BY <1>2, <3>1, <3>2
  <2> QED
    BY <2>1, <2>2
<1>6. ASSUME NEW s \in Sessions, gone' = gone \ {s}, UNCHANGED <<sess, online>>
      PROVE  Fine
  BY <1>2, <1>6
<1> HIDE DEF Fine
<1>7. Fine
  BY <1>3, <1>4, <1>5, <1>6, GoneMoves
<1> QED
  BY <1>7 DEF Fine, Indoors

LEMMA GoneStays ==
  ASSUME Typed, SessionsInv, gone \subseteq used, Next
  PROVE  gone' \subseteq used'
<1>1. used \subseteq used' /\ \A x \in Apps : sess[x] \in used
  BY SessionsMove DEF SessionsInv
<1> QED
  BY <1>1, GoneMoves

LEMMA IndexStays ==
  ASSUME Typed, SessionsInv, IndexInUse, Next
  PROVE  IndexInUse'
<1>0. TableTypes /\ FrameTypes /\ RMTypeOK /\ used \subseteq used'
  BY TypedIs, SessionsMove DEF TableTypes
<1>1. ASSUME UNCHANGED rmVars PROVE IndexInUse'
  BY <1>0, <1>1 DEF IndexInUse, rmVars
<1>2. ASSUME NEW t \in Sessions, RemoveSession(t) PROVE IndexInUse'
  BY <1>0, <1>2 DEF IndexInUse, RemoveSession, IndexWithout
<1>3. ASSUME NEW x \in Apps, Serve(x) PROVE IndexInUse'
  <2> DEFINE s == sess[x]
  <2>0. s \in Sessions /\ s \in used
    BY <1>0 DEF TableTypes, SessionsInv
  <2>1. ASSUME NEW r \in RoomIds, CreateRoom(s, r) PROVE IndexInUse'
    <3>1. ASSUME NEW t \in Sessions
          PROVE  sessionRooms'[t] = IF t = s THEN r ELSE IndexWithout(s)[t]
      BY <2>1 DEF CreateRoom, IndexWithout
    <3> QED
      BY <1>0, <2>0, <3>1 DEF IndexInUse, IndexWithout
  <2>2. ASSUME NEW r \in RoomIds, JoinRoom(r, s) PROVE IndexInUse'
    <3>1. CASE JoinResult(r, s) = "ok"
      BY <1>0, <2>0, <2>2, <3>1 DEF IndexInUse, JoinRoom, RMTypeOK
    <3>2. CASE JoinResult(r, s) # "ok"
      BY <1>1, <2>2, <3>2 DEF JoinRoom
    <3> QED
      BY <3>1, <3>2
  <2> HIDE DEF s
  <2> QED
    BY <1>0, <1>1, <1>2, <1>3, <2>0, <2>1, <2>2, ServeIs DEF s
<1> QED
  BY <1>1, <1>2, <1>3, TableMoves

LEMMA IndoorsStep ==
  ASSUME Typed, SessionsInv, IndoorsInv, Next
  PROVE  IndoorsInv'
BY IndoorsStays, IndexStays, GoneStays DEF IndoorsInv

LEMMA IndoorsInit == Init => IndoorsInv
<1> SUFFICES ASSUME Init PROVE IndoorsInv
  OBVIOUS
<1>1. /\ sessionRooms = [s \in Sessions |-> None]
      /\ online = [a \in Apps |-> TRUE] /\ gone = {}
  BY DEF Init, LinkInit, RMInit
<1> QED
  BY <1>1 DEF IndoorsInv, IndexInUse, Indoors

LEMMA IndoorsKept == IndoorsInv /\ UNCHANGED shareVars => IndoorsInv'
<1> SUFFICES ASSUME IndoorsInv, UNCHANGED <<sessionRooms, used, online, sess, gone, happened>>
             PROVE  IndoorsInv'
  BY DEF shareVars, linkVars, rmVars
<1> QED
  BY DEF IndoorsInv, IndexInUse, Indoors, Dropless, Spared

(***************************************************************************)
(* The server's index leads a session to no seat: it has none there, or it *)
(* leads to the room it shares.                                            *)
(***************************************************************************)
Unseated(s) == sessionRooms[s] # None => sharerId[sessionRooms[s]] = s

LEMMA UnseatedByOthers ==
  ASSUME Typed, SessionsInv, Next, NEW a \in Apps, ~Serve(a), NEW s \in Sessions, s = sess[a], Unseated(s)
  PROVE  Unseated(s)'
<1>0. TableTypes /\ FrameTypes /\ RMTypeOK /\ None \notin RoomIds /\ None \notin Sessions
  BY TypedIs, NoneAssumption DEF TableTypes
<1>1. ASSUME UNCHANGED rmVars PROVE Unseated(s)'
  BY <1>1 DEF Unseated, rmVars
<1>2. ASSUME NEW t \in Sessions, RemoveSession(t) PROVE Unseated(s)'
  <2> SUFFICES ASSUME sessionRooms'[s] # None PROVE sharerId'[sessionRooms'[s]] = s
    BY DEF Unseated
  <2>1. t # s /\ sessionRooms'[s] = sessionRooms[s]
    BY <1>2 DEF RemoveSession, IndexWithout
  <2>2. sessionRooms[s] \in RoomIds /\ sharerId[sessionRooms[s]] = s
    BY <1>0, <2>1 DEF Unseated, RMTypeOK
  <2>3. sharerId'[sessionRooms[s]] = s
    BY <1>2, <2>1, <2>2 DEF RemoveSession, SharersWithout, RemovalKind
  <2> QED
    BY <2>1, <2>3
<1>3. ASSUME NEW x \in Apps, Serve(x) PROVE Unseated(s)'
  <2> DEFINE t == sess[x]
  <2>1. t # s /\ t \in Sessions
    BY <1>0, <1>3 DEF SessionsInv, TableTypes
  <2>2. ASSUME NEW r \in RoomIds, CreateRoom(t, r) PROVE Unseated(s)'
    <3> SUFFICES ASSUME sessionRooms'[s] # None PROVE sharerId'[sessionRooms'[s]] = s
      BY DEF Unseated
    <3>1. sessionRooms'[s] = IndexWithout(t)[s]
      BY <2>1, <2>2 DEF CreateRoom, IndexWithout
    <3>2. sessionRooms'[s] = sessionRooms[s]
      BY <2>1, <3>1 DEF IndexWithout
    <3>3. sessionRooms[s] \in RoomIds /\ sharerId[sessionRooms[s]] = s
      BY <1>0, <3>2 DEF Unseated, RMTypeOK
    <3>4. SharersWithout(t)[sessionRooms[s]] = s
      BY <2>1, <3>3 DEF SharersWithout, RemovalKind
    <3>5. SharersWithout(t)[r] = None /\ s # None
      BY <1>0, <2>2 DEF CreateRoom
    <3>6. sharerId'[sessionRooms[s]] = SharersWithout(t)[sessionRooms[s]]
      BY <2>2, <3>3, <3>4, <3>5 DEF CreateRoom, SharersWithout
    <3> QED
      BY <3>2, <3>4, <3>6
  <2>3. ASSUME NEW r \in RoomIds, JoinRoom(r, t) PROVE Unseated(s)'
    <3>1. CASE JoinResult(r, t) = "ok"
      <4>1. sessionRooms'[s] = sessionRooms[s] /\ sharerId' = sharerId
        BY <1>0, <2>1, <2>3, <3>1 DEF JoinRoom, RMTypeOK
      <4> QED
        BY <4>1 DEF Unseated
    <3>2. CASE JoinResult(r, t) # "ok"
      BY <1>1, <2>3, <3>2 DEF JoinRoom
    <3> QED
      BY <3>1, <3>2
  <2> HIDE DEF t
  <2> QED
    BY <1>0, <1>1, <1>2, <1>3, <2>1, <2>2, <2>3, ServeIs DEF t
<1> QED
  BY <1>1, <1>2, <1>3, TableMoves

LEMMA UnseatedWhenServed ==
  ASSUME Typed, NEW a \in Apps, Serve(a), NEW s \in Sessions, s = sess[a]
  PROVE  /\ Head(up[a]).type = "leave-room" => Unseated(s)'
         /\ Head(up[a]).type # "join-room" /\ Unseated(s) => Unseated(s)'
<1>0. TableTypes /\ FrameTypes /\ RMTypeOK /\ None \notin RoomIds
  BY TypedIs, NoneAssumption DEF TableTypes
<1>1. ASSUME UNCHANGED rmVars PROVE Unseated(s) => Unseated(s)'
  BY <1>1 DEF Unseated, rmVars
<1>2. ASSUME RemoveSession(s) PROVE Unseated(s)'
  <2>1. sessionRooms'[s] = None
    BY <1>2 DEF RemoveSession, IndexWithout
  <2> QED
    BY <2>1 DEF Unseated
<1>3. ASSUME NEW r \in RoomIds, CreateRoom(s, r) PROVE Unseated(s)'
  <2>1. sessionRooms'[s] = r /\ sharerId'[r] = s
    BY <1>3 DEF CreateRoom, IndexWithout, SharersWithout
  <2> QED
    BY <2>1 DEF Unseated
<1> QED
  BY <1>0, <1>1, <1>2, <1>3, ServeIs

\* A viewer comes to watch nothing only by leaving.
LEMMA StateGoes ==
  ASSUME Typed, Next, NEW b \in CanWatch
  PROVE  vw'[b].state = vw[b].state \/ vw'[b].state # "idle" \/ Leave(b)
<1> DEFINE Fine == vw'[b].state = vw[b].state \/ vw'[b].state # "idle" \/ Leave(b)
<1>0. /\ TableTypes /\ FrameTypes /\ ViewersTyped /\ SharersTyped /\ b \in Apps
      /\ vw \in [CanWatch -> Watchers] /\ vw[b] \in Watchers
  BY TypedIs, WatchersAssumption DEF ViewersTyped, WatchTypes
<1>1. \A state : vw' = [vw EXCEPT ![b].state = state] => vw'[b].state = state
  <2> TAKE state
  <2>1. ASSUME vw' = [vw EXCEPT ![b].state = state] PROVE vw'[b] = [vw[b] EXCEPT !.state = state]
    BY <1>0, <2>1
  <2> QED
    BY <1>0, <2>1 DEF Watchers
<1>2. ASSUME NEW x \in Apps, Receive(x) PROVE Fine
  <2> DEFINE m == Head(down[x])
  <2>1. CASE x # b
    <3>1. CASE x \in CanWatch
      BY <1>0, <1>2, <2>1, <3>1 DEF Receive, ViewingHears, TakeOffer, RoomOver, Refused, CleanUpWatch
    <3>2. CASE x \notin CanWatch
      BY <1>2, <3>2 DEF Receive
    <3> QED
      BY <3>1, <3>2
  <2>2. CASE x = b
    <3>1. ViewingHears(b, m)
      BY <1>2, <2>2 DEF Receive
    <3>2. CASE UNCHANGED vw
      BY <3>2
    <3>3. ASSUME NEW state \in {"disconnected", "error"}, CleanUpWatch(b, state, vw[b].room, Unsubscribed(b)) PROVE Fine
      BY <1>0, <3>3, TurnedAway DEF CleanedUp
    <3>4. CASE TakeOffer(b, m)
      <4> DEFINE k == vw[b].made + 1
      <4>1. vw'[b] = vw[b] \/ vw'[b] = [vw[b] EXCEPT !.conn = k, !.made = k]
        BY <1>0, <3>4 DEF TakeOffer
      <4> HIDE DEF k
      <4> QED
        BY <1>0, <4>1 DEF Watchers
    <3>5. CASE RoomOver(b) \/ Refused(b)
      BY <3>3, <3>5 DEF RoomOver, Refused
    <3> HIDE DEF m, Fine
    <3> QED
      BY <3>1, <3>2, <3>4, <3>5 DEF ViewingHears, Fine
  <2> QED
    BY <2>1, <2>2
<1>3. ASSUME UNCHANGED vw PROVE Fine
  BY <1>3
<1>4. ASSUME NEW x \in Apps, Serve(x) PROVE Fine
  BY <1>0, <1>3, <1>4, ServePushes DEF vwVars
<1>5. ASSUME NEW x \in CanShare, SharingStep(x) PROVE Fine
  BY <1>0, <1>3, <1>5, SharersStepIs, SharersStepFrames DEF vwVars
<1>6. ASSUME NEW x \in CanWatch, ViewingStep(x) PROVE Fine
  <2>0. ViewersStep(x)
    BY <1>6, ViewersStepIs
  <2>1. CASE x # b
    BY <1>0, <2>0, <2>1, ViewersStepOf
  <2>2. CASE x = b
    <3>1. ASSUME NEW r \in RoomIds, Join(b, r) PROVE Fine
      <4> DEFINE l == vw[b].listening + 1
      <4>2. vw'[b] = [vw[b] EXCEPT !.state = "connecting", !.room = r, !.listening = l, !.subscribed = TRUE]
        BY <1>0, <3>1 DEF Join
      <4> HIDE DEF l
      <4>3. vw'[b].state = "connecting"
        BY <1>0, <4>2 DEF Watchers
      <4> QED
        BY <4>3
    <3>2. ASSUME AnswerReady(b) PROVE Fine
      <4> DEFINE o == Head(offers[b]) st == IF online[b] THEN vw[b].state ELSE "error"
      <4>1. vw'[b] = [vw[b] EXCEPT !.remote = o, !.state = st]
        BY <1>0, <3>2 DEF AnswerReady
      <4> HIDE DEF o, st
      <4>2. vw'[b].state = st
        BY <1>0, <4>1 DEF Watchers
      <4> QED
        BY <4>2 DEF st
    <3>3. CASE AnswerFails(b)
      BY <1>1, <3>3, AnswerFailsIs
    <3>4. CASE PictureLost(b) \/ PictureArrives(b)
      BY <1>1, <3>4 DEF PictureLost, PictureArrives
    <3>5. CASE Leaves(b)
      BY <3>5, LeavesIs
    <3> HIDE DEF Fine
    <3> QED
      BY <2>0, <2>2, <3>1, <3>2, <3>3, <3>4, <3>5, JoinsIs DEF ViewersStep
  <2> QED
    BY <2>1, <2>2
<1>7. ASSUME SocketStep, UNCHANGED <<shVars, vwVars>> PROVE Fine
  BY <1>3, <1>7 DEF vwVars
<1> HIDE DEF Fine
<1>8. Fine
  BY <1>2, <1>4, <1>5, <1>6, <1>7 DEF Next
<1> QED
  BY <1>8 DEF Fine

LEMMA WatchingMoves ==
  ASSUME Typed, Next, NEW a \in Apps, online[a], Watching(a), ~Watching(a)'
  PROVE  \E f \in UpFrames : Sends(a, f) /\ f.type = "leave-room"
<1>1. a \in CanWatch /\ vw[a].state # "idle" /\ vw'[a].state = "idle"
  BY DEF Watching
<1>2. Leave(a)
  BY <1>1, StateGoes
<1>3. \/ up' = Sent(a, <<Plain("leave-room")>>)
      \/ up' = Sent(a, <<Plain("leave-room"), Plain("leave-room")>>)
  BY <1>2 DEF Leave, LeaveFrames
<1> QED
  BY <1>3, LeaveSends

\* A capture comes to be awaited by start().
LEMMA AwaitsMoves ==
  ASSUME Typed, Next, NEW a \in CanShare, ~AwaitsCapture(a), AwaitsCapture(a)'
  PROVE  up' = up /\ \E n \in Starts : Begins(a, n)
<1> DEFINE Fine == up' = up /\ \E n \in Starts : Begins(a, n)
<1>0. /\ TableTypes /\ FrameTypes /\ ViewersTyped /\ SharersTyped /\ SharingTypeOK
      /\ starting \in [CanShare -> [Starts -> StartPhases]]
  BY TypedIs DEF SharersTyped, SharingTypeOK
<1>1. \E n \in Starts : starting'[a][n] \in {"picker", "audio"} /\ starting[a][n] \notin {"picker", "audio"}
  BY DEF AwaitsCapture
<1>2. starting' # starting
  BY <1>1
<1>3. ASSUME NEW x \in CanShare, SharersStep(x) PROVE Fine
  <2>1. x = a
    BY <1>0, <1>1, <1>3, SharersStepOf
  <2>2. ASSUME NEW n \in Starts, Begins(a, n) PROVE Fine
    BY <2>2, BeginsIs DEF linkVars
  <2>3. ASSUME NEW n \in Starts, PickerAnswers(a, n) PROVE FALSE
    BY <1>0, <1>1, <2>3 DEF PickerAnswers
  <2>4. ASSUME NEW n \in Starts, PickerFails(a, n) PROVE FALSE
    BY <1>0, <1>1, <2>4 DEF PickerFails
  <2>5. ASSUME NEW n \in Starts, CaptureStarts(a, n) PROVE FALSE
    BY <1>0, <1>1, <2>5 DEF CaptureStarts
  <2>6. ASSUME NEW n \in Starts, CaptureEnds(a, n) PROVE FALSE
    BY <1>2, <2>6, CaptureEndsIs
  <2>7. ASSUME Stop(a) PROVE FALSE
    BY <1>2, <2>7, StopIs
  <2>8. ASSUME NEW v \in Sessions, ConnectionFails(a, v) \/ OfferReady(a, v) PROVE FALSE
    BY <1>2, <2>8, ConnectionFailsIs DEF OfferReady
  <2> HIDE DEF Fine
  <2> QED
    BY <1>3, <2>1, <2>2, <2>3, <2>4, <2>5, <2>6, <2>7, <2>8 DEF SharersStep
<1>4. ASSUME UNCHANGED starting PROVE FALSE
  BY <1>2, <1>4
<1>5. ASSUME NEW x \in Apps, Receive(x) PROVE FALSE
  BY <1>4, <1>5 DEF Receive
<1>6. ASSUME NEW x \in Apps, Serve(x) PROVE FALSE
  BY <1>0, <1>4, <1>6, ServePushes DEF shVars
<1>7. ASSUME NEW x \in CanWatch, ViewingStep(x) PROVE FALSE
  BY <1>4, <1>7, ViewersStepIs, ViewersSend DEF shVars
<1> HIDE DEF Fine
<1>8. Fine
  BY <1>3, <1>4, <1>5, <1>6, <1>7, SharersStepIs DEF Next, shVars
<1> QED
  BY <1>8 DEF Fine

(***************************************************************************)
(* Once the frames before position i have been handled.                    *)
(***************************************************************************)
Out(q, i, kind, p) == LeftBy(q, i, kind) \/ (Lacks(q, i, kind) /\ p)

LEMMA OutShrinks ==
  ASSUME NEW S, NEW q \in Seq(S), q # <<>>, NEW kind, NEW p, NEW p1,
         Head(q).type = "leave-room" => p1, Head(q).type # kind /\ p => p1,
         NEW i \in 1 .. Len(Tail(q)) + 1, Out(q, i + 1, kind, p)
  PROVE  Out(Tail(q), i, kind, p1)
BY QueueMovesUp DEF Out

LEMMA OutGrows ==
  ASSUME NEW S, NEW q \in Seq(S), NEW x \in S, NEW kind, kind # "leave-room",
         NEW r, r = q \o <<x>> \/ r = q \o <<x, x>>, NEW p, NEW p1, p => p1
  PROVE  /\ \A i \in 1 .. Len(q) + 1 : Out(q, i, kind, p) => Out(r, i, kind, p1)
         /\ x.type = "leave-room" => Out(r, Len(r) + 1, kind, p1)
         /\ x.type # kind /\ Out(q, Len(q) + 1, kind, p) => Out(r, Len(r) + 1, kind, p1)
<1> DEFINE Fine(t) == /\ \A i \in 1 .. Len(q) + 1 : Out(q, i, kind, p) => Out(t, i, kind, p1)
                      /\ x.type = "leave-room" => Out(t, Len(t) + 1, kind, p1)
                      /\ x.type # kind /\ Out(q, Len(q) + 1, kind, p) => Out(t, Len(t) + 1, kind, p1)
<1>1. Fine(q \o <<x>>)
  BY QueueGetsLonger DEF Out
<1>2. CASE r = q \o <<x, x>>
  <2> DEFINE t == q \o <<x>>
  <2>1. t \in Seq(S) /\ r = t \o <<x>> /\ Len(t) = Len(q) + 1 /\ Len(q) \in Nat
    BY <1>2
  <2>2. /\ \A i \in 1 .. Len(t) + 1 : /\ LeftBy(t \o <<x>>, i, kind) <=> LeftBy(t, i, kind)
                                      /\ Lacks(t \o <<x>>, i, kind) <=> Lacks(t, i, kind)
        /\ x.type = "leave-room" => LeftBy(t \o <<x>>, Len(t \o <<x>>) + 1, kind)
        /\ x.type # kind =>
             /\ LeftBy(t, Len(t) + 1, kind) => LeftBy(t \o <<x>>, Len(t \o <<x>>) + 1, kind)
             /\ Lacks(t, Len(t) + 1, kind) => Lacks(t \o <<x>>, Len(t \o <<x>>) + 1, kind)
    BY <2>1, QueueGetsLonger
  <2> HIDE DEF t
  <2>3. Fine(t)
    BY <1>1 DEF t
  <2> QED
    BY <2>1, <2>2, <2>3 DEF Out
<1> QED
  BY <1>1, <1>2

(***************************************************************************)
(* An application that never shares and watches at once.  When it watches  *)
(* nothing or is about to share, and when the server comes to one of its   *)
(* create-rooms, what it sent takes it out of the room it watched: a room  *)
(* that is created takes no seat away unsaid.                              *)
(***************************************************************************)
Unseats(a, i) == Out(up[a], i, "join-room", Unseated(sess[a]))
Seatable(a) == ~Watching(a) \/ (a \in CanShare /\ AwaitsCapture(a))
UnseatedLast(a) == online[a] /\ Seatable(a) => Unseats(a, Last(a))
UnseatedCreates(a) == \A i \in 1 .. Len(up[a]) : up[a][i].type = "create-room" => Unseats(a, i)
SeatInv == \A a \in Apps : OneRole(a) => UnseatedLast(a) /\ UnseatedCreates(a)

LEMMA SeatableMoves ==
  ASSUME Typed, Next, NEW a \in Apps, OneRole(a)', online[a], Seatable(a)'
  PROVE  \/ Seatable(a)
         \/ \E f \in UpFrames : Sends(a, f) /\ f.type = "leave-room"
<1>1. CASE Watching(a) /\ ~Watching(a)'
  BY <1>1, WatchingMoves
<1>2. CASE a \in CanShare /\ ~AwaitsCapture(a) /\ AwaitsCapture(a)'
  <2>1. ~Watching(a)
    BY <1>2, AwaitsMoves, BeginsAlone
  <2> QED
    BY <2>1 DEF Seatable
<1> QED
  BY <1>1, <1>2 DEF Seatable

\* One that joins awaits no capture.
LEMMA JoinSeats ==
  ASSUME Typed, Next, NEW a \in Apps, OneRole(a)', NEW f \in UpFrames, Sends(a, f), f.type = "join-room"
  PROVE  ~Seatable(a)'
<1>0. Typed /\ TableTypes /\ ViewersTyped /\ vw \in [CanWatch -> Watchers] /\ up[a] \in Seq(UpFrames)
  BY TypedIs DEF ViewersTyped, WatchTypes, FrameTypes
<1>1. a \in CanWatch /\ Joins(a) /\ up'[a] = up[a] \o <<f>>
  BY <1>0, GoesKinds DEF Sends
<1>2. ~Sharing(a)
  BY <1>1, JoinsAlone
<1>3. Watching(a)'
  <2>1. PICK r \in RoomIds : Join(a, r)
    BY <1>1, JoinsIs
  <2> DEFINE l == vw[a].listening + 1
  <2>2. vw'[a] = [vw[a] EXCEPT !.state = "connecting", !.room = r, !.listening = l, !.subscribed = TRUE]
    BY <1>0, <1>1, <2>1 DEF Join
  <2> HIDE DEF l
  <2>3. vw'[a].state = "connecting"
    BY <1>0, <1>1, <2>2 DEF Watchers
  <2> QED
    BY <1>1, <2>3 DEF Watching
<1>4. ASSUME a \in CanShare, AwaitsCapture(a)' PROVE FALSE
  <2>1. ~AwaitsCapture(a)
    BY <1>2, <1>4 DEF Sharing
  <2>2. up' = up
    BY <1>4, <2>1, AwaitsMoves
  <2>3. Len(up[a] \o <<f>>) # Len(up[a])
    BY <1>0
  <2> QED
    BY <1>1, <2>2, <2>3
<1> QED
  BY <1>3, <1>4 DEF Seatable

\* The lemmas below are about a step of a connection that lasts.
LEMMA SeatsWait ==
  ASSUME Typed, SessionsInv, Next, NEW a \in Apps, OneRole(a)', UnseatedLast(a), UnseatedCreates(a),
         Untouched(a), Waits(a)
  PROVE  UnseatedLast(a)' /\ UnseatedCreates(a)'
<1>0. up[a] \in Seq(UpFrames) /\ up'[a] = up[a] /\ sess[a] \in Sessions /\ sess'[a] = sess[a] /\ ~Serve(a)
  BY TypedIs DEF FrameTypes, TableTypes, Untouched, Waits
<1>1. PICK s \in Sessions : s = sess[a] /\ s = sess'[a]
  BY <1>0
<1>2. Unseated(s) => Unseated(s)'
  BY <1>0, <1>1, UnseatedByOthers
<1>3. \A i : Unseats(a, i) => Unseats(a, i)'
  <2>1. \A i : Unseats(a, i) <=> Out(up[a], i, "join-room", Unseated(s))
    BY <1>1 DEF Unseats
  <2>2. \A i : Unseats(a, i)' <=> Out(up'[a], i, "join-room", Unseated(s)')
    BY <1>1 DEF Unseats, Out, Unseated
  <2> QED
    BY <1>0, <1>2, <2>1, <2>2 DEF Out
<1>4. UnseatedCreates(a)'
  BY <1>0, <1>3 DEF UnseatedCreates
<1>5. ASSUME online'[a], Seatable(a)' PROVE Unseats(a, Last(a))'
  <2>1. online[a]
    BY <1>5 DEF Untouched
  <2>2. ASSUME NEW f \in UpFrames, Sends(a, f) PROVE FALSE
    <3>1. Len(up[a] \o <<f>>) # Len(up[a]) /\ Len(up[a] \o <<f, f>>) # Len(up[a])
      BY <1>0
    <3> QED
      BY <1>0, <2>2, <3>1 DEF Sends
  <2>3. Seatable(a)
    BY <1>5, <2>1, <2>2, SeatableMoves
  <2>4. Unseats(a, Last(a))
    BY <2>1, <2>3 DEF UnseatedLast
  <2> QED
    BY <1>0, <1>3, <2>4 DEF Last, Unseats
<1> QED
  BY <1>4, <1>5 DEF UnseatedLast

LEMMA SeatsServed ==
  ASSUME Typed, SessionsInv, Next, NEW a \in Apps, UnseatedLast(a), UnseatedCreates(a),
         Untouched(a), IsServed(a)
  PROVE  UnseatedLast(a)' /\ UnseatedCreates(a)'
<1>0. /\ up[a] \in Seq(UpFrames) /\ up'[a] = Tail(up[a]) /\ up[a] # <<>>
      /\ sess[a] \in Sessions /\ sess'[a] = sess[a] /\ Serve(a) /\ TableTypes /\ FrameTypes
  BY TypedIs DEF FrameTypes, TableTypes, Untouched, IsServed
<1>1. PICK s \in Sessions : s = sess[a] /\ s = sess'[a]
  BY <1>0
<1>2. /\ Head(up[a]).type = "leave-room" => Unseated(s)'
      /\ Head(up[a]).type # "join-room" /\ Unseated(s) => Unseated(s)'
  BY <1>0, <1>1, UnseatedWhenServed
<1>10. PICK q : q = up[a] /\ Tail(q) = up'[a]
  BY <1>0
<1>3. \A i \in 1 .. Len(Tail(q)) + 1 : Unseats(a, i + 1) => Unseats(a, i)'
  <2>1. \A i : Unseats(a, i) <=> Out(q, i, "join-room", Unseated(s))
    BY <1>1, <1>10 DEF Unseats
  <2>2. \A i : Unseats(a, i)' <=> Out(Tail(q), i, "join-room", Unseated(s)')
    BY <1>1, <1>10 DEF Unseats, Out, Unseated
  <2>3. PICK p \in BOOLEAN : p <=> Unseated(s)
    OBVIOUS
  <2>4. PICK p1 \in BOOLEAN : p1 <=> Unseated(s)'
    OBVIOUS
  <2>5. \A i \in 1 .. Len(Tail(q)) + 1 : Out(q, i + 1, "join-room", p) => Out(Tail(q), i, "join-room", p1)
    <3>1. q \in Seq(UpFrames) /\ q # <<>> /\ (Head(q).type = "leave-room" => p1)
          /\ (Head(q).type # "join-room" /\ p => p1)
      BY <1>0, <1>2, <1>10, <2>3, <2>4
    <3> QED
      BY <3>1, OutShrinks
  <2>6. \A i : Out(q, i, "join-room", Unseated(s)) <=> Out(q, i, "join-room", p)
    BY <2>3 DEF Out
  <2>7. \A i : Out(Tail(q), i, "join-room", Unseated(s)') <=> Out(Tail(q), i, "join-room", p1)
    BY <2>4 DEF Out
  <2> QED
    BY <2>1, <2>2, <2>5, <2>6, <2>7
<1>4. /\ Len(Tail(q)) \in Nat /\ Len(q) = Len(Tail(q)) + 1
      /\ \A i \in 1 .. Len(Tail(q)) : i + 1 \in 1 .. Len(q) /\ Tail(q)[i] = q[i + 1] /\ i \in 1 .. Len(Tail(q)) + 1
  BY <1>0, <1>10
<1>5. UnseatedCreates(a)'
  <2> SUFFICES ASSUME NEW i \in 1 .. Len(Tail(q)), Tail(q)[i].type = "create-room" PROVE Unseats(a, i)'
    BY <1>10 DEF UnseatedCreates
  <2>1. Unseats(a, i + 1)
    BY <1>4, <1>10 DEF UnseatedCreates
  <2> QED
    BY <1>3, <1>4, <2>1
<1>6. ASSUME online'[a], Seatable(a)' PROVE Unseats(a, Last(a))'
  <2>1. online[a]
    BY <1>6 DEF Untouched
  <2>2. Seatable(a)
    <3>1. UNCHANGED <<shVars, vwVars>>
      BY <1>0, ServePushes
    <3>2. UNCHANGED <<starting, vw>>
      BY <3>1 DEF shVars, vwVars
    <3> QED
      BY <1>6, <3>2 DEF Seatable, AwaitsCapture, Watching
  <2>3. Unseats(a, Len(q) + 1)
    BY <1>10, <2>1, <2>2 DEF UnseatedLast, Last
  <2> DEFINE l == Len(Tail(q)) + 1
  <2>4. l \in 1 .. Len(Tail(q)) + 1 /\ l + 1 = Len(q) + 1
    BY <1>4
  <2> HIDE DEF l
  <2>5. Unseats(a, l)'
    BY <1>3, <2>3, <2>4
  <2>6. l = Last(a)'
    BY <1>10 DEF l, Last
  <2> QED
    BY <2>5, <2>6 DEF Unseats
<1> QED
  BY <1>5, <1>6 DEF UnseatedLast

LEMMA SeatsSend ==
  ASSUME Typed, SessionsInv, Next, NEW a \in Apps, OneRole(a)', UnseatedLast(a), UnseatedCreates(a),
         Untouched(a), NEW f \in UpFrames, Sends(a, f)
  PROVE  UnseatedLast(a)' /\ UnseatedCreates(a)'
<1>0. /\ up[a] \in Seq(UpFrames) /\ online[a]
      /\ sess[a] \in Sessions /\ sess'[a] = sess[a] /\ ~Serve(a) /\ TableTypes /\ FrameTypes
  BY TypedIs DEF FrameTypes, TableTypes, Untouched, Sends
<1>1. PICK s \in Sessions : s = sess[a] /\ s = sess'[a]
  BY <1>0
<1>2. Unseated(s) => Unseated(s)'
  BY <1>0, <1>1, UnseatedByOthers
<1>10. PICK q, r : q = up[a] /\ r = up'[a]
  OBVIOUS
<1>11. q \in Seq(UpFrames) /\ (r = q \o <<f>> \/ r = q \o <<f, f>>)
  BY <1>0, <1>10 DEF Sends
<1>3. /\ \A i \in 1 .. Len(q) + 1 : Unseats(a, i) => Unseats(a, i)'
      /\ f.type = "leave-room" => Unseats(a, Len(r) + 1)'
      /\ f.type # "join-room" /\ Unseats(a, Len(q) + 1) => Unseats(a, Len(r) + 1)'
  <2>1. \A i : Unseats(a, i) <=> Out(q, i, "join-room", Unseated(s))
    BY <1>1, <1>10 DEF Unseats
  <2>2. \A i : Unseats(a, i)' <=> Out(r, i, "join-room", Unseated(s)')
    BY <1>1, <1>10 DEF Unseats, Out, Unseated
  <2>3. PICK p \in BOOLEAN : p <=> Unseated(s)
    OBVIOUS
  <2>4. PICK p1 \in BOOLEAN : p1 <=> Unseated(s)'
    OBVIOUS
  <2>5. /\ \A i \in 1 .. Len(q) + 1 : Out(q, i, "join-room", p) => Out(r, i, "join-room", p1)
        /\ f.type = "leave-room" => Out(r, Len(r) + 1, "join-room", p1)
        /\ f.type # "join-room" /\ Out(q, Len(q) + 1, "join-room", p) => Out(r, Len(r) + 1, "join-room", p1)
    BY <1>2, <1>11, <2>3, <2>4, OutGrows
  <2>6. \A i : Out(q, i, "join-room", Unseated(s)) <=> Out(q, i, "join-room", p)
    BY <2>3 DEF Out
  <2>7. \A i : Out(r, i, "join-room", Unseated(s)') <=> Out(r, i, "join-room", p1)
    BY <2>4 DEF Out
  <2> QED
    BY <2>1, <2>2, <2>5, <2>6, <2>7
<1>4. /\ Len(q) \in Nat
      /\ \A i \in 1 .. Len(q) : r[i] = q[i] /\ i \in 1 .. Len(q) + 1
      /\ \A i \in 1 .. Len(r) : i \in 1 .. Len(q) \/ r[i] = f
      /\ r = q \o <<f>> => Len(r) = Len(q) + 1
  <2>1. CASE r = q \o <<f>>
    <3>1. Len(q) \in Nat /\ Len(r) = Len(q) + 1
      BY <1>11, <2>1
    <3>2. \A i \in 1 .. Len(q) + 1 : r[i] = IF i = Len(q) + 1 THEN f ELSE q[i]
      BY <1>11, <2>1
    <3> QED
      BY <3>1, <3>2
  <2>2. CASE r = q \o <<f, f>>
    <3>1. Len(q) \in Nat /\ Len(r) = Len(q) + 2
      BY <1>11, <2>2
    <3>2. \A i \in 1 .. Len(q) + 2 : r[i] = IF i > Len(q) THEN f ELSE q[i]
      BY <1>11, <2>2
    <3>3. r # q \o <<f>>
      BY <1>11, <3>1
    <3> QED
      BY <3>1, <3>2, <3>3
  <2> QED
    BY <1>11, <2>1, <2>2
<1>5. UnseatedCreates(a)'
  <2> SUFFICES ASSUME NEW i \in 1 .. Len(r), r[i].type = "create-room" PROVE Unseats(a, i)'
    BY <1>10 DEF UnseatedCreates
  <2>1. CASE i \in 1 .. Len(q)
    BY <1>3, <1>4, <1>10, <2>1 DEF UnseatedCreates
  <2>2. CASE i \notin 1 .. Len(q)
    <3>1. f.type = "create-room"
      BY <1>4, <2>2
    <3>2. a \in CanShare /\ AwaitsCapture(a) /\ r = q \o <<f>>
      BY <1>10, <3>1, GoesKinds DEF Sends
    <3>3. Unseats(a, Len(q) + 1)
      BY <1>0, <1>10, <3>2 DEF UnseatedLast, Seatable, Last
    <3>4. i = Len(q) + 1 /\ i \in 1 .. Len(q) + 1
      BY <1>4, <2>2, <3>2
    <3> QED
      BY <1>3, <3>3, <3>4
  <2> QED
    BY <2>1, <2>2
<1>6. ASSUME online'[a], Seatable(a)' PROVE Unseats(a, Len(r) + 1)'
  <2>1. CASE f.type = "leave-room"
    BY <1>3, <2>1
  <2>2. CASE f.type = "join-room"
    BY <1>6, <2>2, JoinSeats
  <2>3. CASE f.type \notin {"leave-room", "join-room"}
    <3>1. ASSUME NEW g \in UpFrames, Sends(a, g), g.type = "leave-room" PROVE FALSE
      <4>1. r = q \o <<g>> \/ r = q \o <<g, g>>
        BY <1>10, <3>1 DEF Sends
      <4>2. r[Len(q) + 1] = g /\ r[Len(q) + 1] = f
        BY <1>11, <4>1
      <4> QED
        BY <2>3, <3>1, <4>2
    <3>2. Seatable(a)
      BY <1>0, <1>6, <3>1, SeatableMoves
    <3>3. Unseats(a, Len(q) + 1)
      BY <1>0, <1>10, <3>2 DEF UnseatedLast, Last
    <3> QED
      BY <1>3, <2>3, <3>3
  <2> QED
    BY <2>1, <2>2, <2>3
<1>7. Unseats(a, Len(r) + 1)' <=> Unseats(a, Last(a))'
  BY <1>10 DEF Unseats, Last
<1> QED
  BY <1>5, <1>6, <1>7 DEF UnseatedLast

LEMMA SeatStep ==
  ASSUME Typed, SessionsInv, IndexInUse, SeatInv, Next
  PROVE  SeatInv'
<1> SUFFICES ASSUME NEW a \in Apps, OneRole(a)' PROVE UnseatedLast(a)' /\ UnseatedCreates(a)'
  BY DEF SeatInv
<1>0. OneRole(a)
  BY MishapsStay, SparedBefore DEF OneRole
<1>1. UnseatedLast(a) /\ UnseatedCreates(a)
  BY <1>0 DEF SeatInv
<1>2. CASE Broken(a)
  BY <1>2 DEF Broken, UnseatedLast, UnseatedCreates
<1>3. CASE Renewed(a)
  <2>1. PICK s \in Sessions : s = sess'[a] /\ s \notin used
    BY <1>3 DEF Renewed
  <2>2. sessionRooms'[s] = None
    BY <1>3, <2>1 DEF IndexInUse, Renewed, rmVars
  <2>3. Unseated(s)'
    BY <2>2 DEF Unseated
  <2>4. up'[a] = <<>>
    BY <1>3 DEF Renewed
  <2>5. Unseats(a, Last(a))'
    <3>1. Unseats(a, Last(a))' <=> Out(up'[a], Len(up'[a]) + 1, "join-room", Unseated(s)')
      BY <2>1 DEF Unseats, Last, Out, Unseated
    <3> QED
      BY <2>3, <2>4, <3>1, NothingBefore DEF Out
  <2> QED
    BY <2>4, <2>5 DEF UnseatedLast, UnseatedCreates
<1>4. CASE Untouched(a) /\ (Waits(a) \/ IsServed(a) \/ \E f \in UpFrames : Sends(a, f))
  BY <1>1, <1>4, SeatsWait, SeatsServed, SeatsSend
<1> QED
  BY <1>2, <1>3, <1>4, LinkMoves

LEMMA SeatInit == Init => SeatInv
<1> SUFFICES ASSUME Init, NEW a \in Apps PROVE UnseatedLast(a) /\ UnseatedCreates(a)
  BY DEF SeatInv
<1>0. Typed
  BY TypedInit
<1>1. sessionRooms = [s \in Sessions |-> None] /\ up[a] = <<>> /\ sess[a] \in Sessions
  BY <1>0, TypedIs DEF Init, LinkInit, RMInit, TableTypes
<1>2. Unseats(a, Last(a))
  BY <1>1, NothingBefore DEF Unseats, Out, Unseated, Last
<1> QED
  BY <1>1, <1>2 DEF UnseatedLast, UnseatedCreates

LEMMA SeatKept == SeatInv /\ UNCHANGED shareVars => SeatInv'
<1> SUFFICES ASSUME SeatInv, UNCHANGED <<sharerId, sessionRooms, sess, online, up, vw, starting, happened>>
             PROVE  SeatInv'
  BY DEF shareVars, linkVars, rmVars, shVars, vwVars
<1> SUFFICES ASSUME NEW a \in Apps, OneRole(a)' PROVE UnseatedLast(a)' /\ UnseatedCreates(a)'
  BY DEF SeatInv
<1>0. UnseatedLast(a) /\ UnseatedCreates(a)
  BY DEF SeatInv, OneRole, Spared
<1>1. \A i : Unseats(a, i)' <=> Unseats(a, i)
  BY DEF Unseats, Unseated
<1>2. Seatable(a)' <=> Seatable(a)
  BY DEF Seatable, Watching, AwaitsCapture
<1>3. UnseatedCreates(a)'
  BY <1>0, <1>1 DEF UnseatedCreates
<1>4. Unseats(a, Last(a))' <=> Unseats(a, Last(a))
  BY DEF Unseats, Unseated, Last
<1> QED
  BY <1>0, <1>2, <1>3, <1>4 DEF UnseatedLast
-----------------------------------------------------------------------------
(***************************************************************************)
(* Whether a sharer that has handled the frames of q up to position i, and *)
(* whether v has a connection then, will have one for v at the end: it is  *)
(* told that v joined, and not later that v left.                          *)
(***************************************************************************)
Parts(q, j, v) == \E l \in j + 1 .. Len(q) : q[l] = ViewerLeft(v)
Arrives(q, i, v) == \E j \in i + 1 .. Len(q) : q[j] = ViewerJoined(v) /\ ~Parts(q, j, v)
Expected(q, i, v, e) == Arrives(q, i, v) \/ (i = 0 /\ e /\ ~Parts(q, 0, v))

LEMMA JoinedIsNotLeft == \A v, u : ViewerJoined(v) # ViewerLeft(u)
BY DEF ViewerJoined, ViewerLeft

LEMMA PartsGrows ==
  ASSUME NEW S, NEW q \in Seq(S), NEW x \in S, NEW v, NEW j \in 0 .. Len(q)
  PROVE  Parts(q \o <<x>>, j, v) <=> Parts(q, j, v) \/ x = ViewerLeft(v)
<1> DEFINE r == q \o <<x>>
<1>1. /\ Len(q) \in Nat /\ Len(r) = Len(q) + 1 /\ r[Len(q) + 1] = x
      /\ \A l \in 1 .. Len(q) : r[l] = q[l]
  OBVIOUS
<1> HIDE DEF r
<1>2. ASSUME Parts(r, j, v) PROVE Parts(q, j, v) \/ x = ViewerLeft(v)
  <2>1. PICK l \in j + 1 .. Len(r) : r[l] = ViewerLeft(v)
    BY <1>2 DEF Parts
  <2>2. CASE l = Len(q) + 1
    BY <1>1, <2>1, <2>2
  <2>3. CASE l # Len(q) + 1
    <3>1. l \in j + 1 .. Len(q) /\ l \in 1 .. Len(q)
      BY <1>1, <2>1, <2>3
    <3> QED
      BY <1>1, <2>1, <3>1 DEF Parts
  <2> QED
    BY <2>2, <2>3
<1>3. ASSUME Parts(q, j, v) PROVE Parts(r, j, v)
  <2>1. PICK l \in j + 1 .. Len(q) : q[l] = ViewerLeft(v)
    BY <1>3 DEF Parts
  <2>2. l \in j + 1 .. Len(r) /\ l \in 1 .. Len(q)
    BY <1>1, <2>1
  <2> QED
    BY <1>1, <2>1, <2>2 DEF Parts
<1>4. ASSUME x = ViewerLeft(v) PROVE Parts(r, j, v)
  <2>1. Len(q) + 1 \in j + 1 .. Len(r)
    BY <1>1
  <2> QED
    BY <1>1, <1>4, <2>1 DEF Parts
<1> QED
  BY <1>2, <1>3, <1>4 DEF r

LEMMA ArrivesGrows ==
  ASSUME NEW S, NEW q \in Seq(S), NEW x \in S, NEW v, NEW i \in 0 .. Len(q)
  PROVE  Arrives(q \o <<x>>, i, v) <=> x = ViewerJoined(v) \/ (Arrives(q, i, v) /\ x # ViewerLeft(v))
<1> DEFINE r == q \o <<x>>
<1>1. /\ Len(q) \in Nat /\ Len(r) = Len(q) + 1 /\ r[Len(q) + 1] = x
      /\ \A l \in 1 .. Len(q) : r[l] = q[l]
  OBVIOUS
<1>10. \A j \in 0 .. Len(q) : Parts(r, j, v) <=> Parts(q, j, v) \/ x = ViewerLeft(v)
  BY PartsGrows
<1> HIDE DEF r
<1>2. ASSUME Arrives(r, i, v) PROVE x = ViewerJoined(v) \/ (Arrives(q, i, v) /\ x # ViewerLeft(v))
  <2>1. PICK j \in i + 1 .. Len(r) : r[j] = ViewerJoined(v) /\ ~Parts(r, j, v)
    BY <1>2 DEF Arrives
  <2>2. CASE j = Len(q) + 1
    BY <1>1, <2>1, <2>2
  <2>3. CASE j # Len(q) + 1
    <3>1. j \in i + 1 .. Len(q) /\ j \in 1 .. Len(q) /\ j \in 0 .. Len(q)
      BY <1>1, <2>1, <2>3
    <3> QED
      BY <1>1, <1>10, <2>1, <3>1 DEF Arrives
  <2> QED
    BY <2>2, <2>3
<1>3. ASSUME Arrives(q, i, v), x # ViewerLeft(v) PROVE Arrives(r, i, v)
  <2>1. PICK j \in i + 1 .. Len(q) : q[j] = ViewerJoined(v) /\ ~Parts(q, j, v)
    BY <1>3 DEF Arrives
  <2>2. j \in i + 1 .. Len(r) /\ j \in 1 .. Len(q) /\ j \in 0 .. Len(q)
    BY <1>1, <2>1
  <2> QED
    BY <1>1, <1>3, <1>10, <2>1, <2>2 DEF Arrives
<1>4. ASSUME x = ViewerJoined(v) PROVE Arrives(r, i, v)
  <2>1. Len(q) + 1 \in i + 1 .. Len(r) /\ ~(\E l \in Len(q) + 2 .. Len(r) : TRUE)
    BY <1>1
  <2>2. ~Parts(r, Len(q) + 1, v)
    BY <1>1, <2>1 DEF Parts
  <2> QED
    BY <1>1, <1>4, <2>1, <2>2 DEF Arrives
<1> QED
  BY <1>2, <1>3, <1>4 DEF r

\* One more frame.
LEMMA ExpectedGrows ==
  ASSUME NEW S, NEW q \in Seq(S), NEW x \in S, NEW v, NEW i \in 0 .. Len(q), NEW e
  PROVE  Expected(q \o <<x>>, i, v, e) <=> x = ViewerJoined(v) \/ (Expected(q, i, v, e) /\ x # ViewerLeft(v))
<1>1. 0 \in 0 .. Len(q)
  OBVIOUS
<1>2. Parts(q \o <<x>>, 0, v) <=> Parts(q, 0, v) \/ x = ViewerLeft(v)
  BY <1>1, PartsGrows
<1>3. Arrives(q \o <<x>>, i, v) <=> x = ViewerJoined(v) \/ (Arrives(q, i, v) /\ x # ViewerLeft(v))
  BY ArrivesGrows
<1> QED
  BY <1>2, <1>3, Zenon DEF Expected

LEMMA PartsShrinks ==
  ASSUME NEW S, NEW q \in Seq(S), q # <<>>, NEW v
  PROVE  /\ \A j \in 0 .. Len(q) - 1 : Parts(Tail(q), j, v) <=> Parts(q, j + 1, v)
         /\ Parts(q, 0, v) <=> Parts(Tail(q), 0, v) \/ Head(q) = ViewerLeft(v)
<1> DEFINE r == Tail(q)
<1>1. /\ Len(r) \in Nat /\ Len(q) = Len(r) + 1 /\ q[1] = Head(q)
      /\ \A l \in 1 .. Len(r) : r[l] = q[l + 1]
  OBVIOUS
<1> HIDE DEF r
<1>2. ASSUME NEW j \in 0 .. Len(q) - 1, Parts(r, j, v) PROVE Parts(q, j + 1, v)
  <2>1. PICK l \in j + 1 .. Len(r) : r[l] = ViewerLeft(v)
    BY <1>2 DEF Parts
  <2>2. l + 1 \in (j + 1) + 1 .. Len(q) /\ l \in 1 .. Len(r)
    BY <1>1, <2>1
  <2> QED
    BY <1>1, <2>1, <2>2 DEF Parts
<1>3. ASSUME NEW j \in 0 .. Len(q) - 1, Parts(q, j + 1, v) PROVE Parts(r, j, v)
  <2>1. PICK l \in (j + 1) + 1 .. Len(q) : q[l] = ViewerLeft(v)
    BY <1>3 DEF Parts
  <2> DEFINE k == l - 1
  <2>2. k \in j + 1 .. Len(r) /\ k \in 1 .. Len(r) /\ k + 1 = l
    BY <1>1, <2>1
  <2> HIDE DEF k
  <2>3. r[k] = ViewerLeft(v)
    BY <1>1, <2>1, <2>2
  <2> QED
    BY <2>2, <2>3 DEF Parts
<1>4. Parts(q, 0, v) <=> Parts(q, 1, v) \/ Head(q) = ViewerLeft(v)
  <2>1. \A l \in 0 + 1 .. Len(q) : l = 1 \/ l \in 1 + 1 .. Len(q)
    BY <1>1
  <2>2. \A l \in 1 + 1 .. Len(q) : l \in 0 + 1 .. Len(q)
    BY <1>1
  <2>3. 1 \in 0 + 1 .. Len(q)
    BY <1>1
  <2> QED
    BY <1>1, <2>1, <2>2, <2>3 DEF Parts
<1>5. 0 \in 0 .. Len(q) - 1 /\ 0 + 1 = 1
  BY <1>1
<1>6. Parts(r, 0, v) <=> Parts(q, 1, v)
  BY <1>2, <1>3, <1>5
<1> QED
  BY <1>2, <1>3, <1>4, <1>6 DEF r

LEMMA ArrivesShrinks ==
  ASSUME NEW S, NEW q \in Seq(S), q # <<>>, NEW v
  PROVE  /\ \A i \in 0 .. Len(q) - 1 : Arrives(Tail(q), i, v) <=> Arrives(q, i + 1, v)
         /\ Arrives(q, 0, v) <=>
              Arrives(Tail(q), 0, v) \/ (Head(q) = ViewerJoined(v) /\ ~Parts(Tail(q), 0, v))
<1> DEFINE r == Tail(q)
<1>1. /\ Len(r) \in Nat /\ Len(q) = Len(r) + 1 /\ q[1] = Head(q)
      /\ \A l \in 1 .. Len(r) : r[l] = q[l + 1]
  OBVIOUS
<1>10. \A j \in 0 .. Len(q) - 1 : Parts(r, j, v) <=> Parts(q, j + 1, v)
  BY PartsShrinks
<1> HIDE DEF r
<1>2. ASSUME NEW i \in 0 .. Len(q) - 1, Arrives(r, i, v) PROVE Arrives(q, i + 1, v)
  <2>1. PICK j \in i + 1 .. Len(r) : r[j] = ViewerJoined(v) /\ ~Parts(r, j, v)
    BY <1>2 DEF Arrives
  <2>2. j + 1 \in (i + 1) + 1 .. Len(q) /\ j \in 1 .. Len(r) /\ j \in 0 .. Len(q) - 1
    BY <1>1, <2>1
  <2> QED
    BY <1>1, <1>10, <2>1, <2>2 DEF Arrives
<1>3. ASSUME NEW i \in 0 .. Len(q) - 1, Arrives(q, i + 1, v) PROVE Arrives(r, i, v)
  <2>1. PICK j \in (i + 1) + 1 .. Len(q) : q[j] = ViewerJoined(v) /\ ~Parts(q, j, v)
    BY <1>3 DEF Arrives
  <2> DEFINE k == j - 1
  <2>2. k \in i + 1 .. Len(r) /\ k \in 1 .. Len(r) /\ k + 1 = j /\ k \in 0 .. Len(q) - 1
    BY <1>1, <2>1
  <2> HIDE DEF k
  <2>3. r[k] = ViewerJoined(v) /\ ~Parts(r, k, v)
    BY <1>1, <1>10, <2>1, <2>2
  <2> QED
    BY <2>2, <2>3 DEF Arrives
<1>4. Arrives(q, 0, v) <=> Arrives(q, 1, v) \/ (Head(q) = ViewerJoined(v) /\ ~Parts(q, 1, v))
  <2>1. \A l \in 0 + 1 .. Len(q) : l = 1 \/ l \in 1 + 1 .. Len(q)
    BY <1>1
  <2>2. \A l \in 1 + 1 .. Len(q) : l \in 0 + 1 .. Len(q)
    BY <1>1
  <2>3. 1 \in 0 + 1 .. Len(q)
    BY <1>1
  <2> QED
    BY <1>1, <2>1, <2>2, <2>3 DEF Arrives
<1>5. 0 \in 0 .. Len(q) - 1 /\ 0 + 1 = 1
  BY <1>1
<1>6. (Arrives(r, 0, v) <=> Arrives(q, 1, v)) /\ (Parts(r, 0, v) <=> Parts(q, 1, v))
  BY <1>2, <1>3, <1>5, <1>10
<1> QED
  BY <1>2, <1>3, <1>4, <1>6 DEF r

\* The first frame is handled.
LEMMA ExpectedShrinks ==
  ASSUME NEW S, NEW q \in Seq(S), q # <<>>, NEW v, NEW e, NEW e1
  PROVE  /\ \A i \in 2 .. Len(q) : Expected(Tail(q), i - 1, v, e1) <=> Expected(q, i, v, e)
         /\ ~e1 => (Expected(Tail(q), 0, v, e1) <=> Expected(q, 1, v, e))
         /\ (e1 => Head(q) = ViewerJoined(v) \/ (e /\ Head(q) # ViewerLeft(v)))
              => (Expected(Tail(q), 0, v, e1) => Expected(q, 0, v, e))
         /\ (Head(q) = ViewerJoined(v) \/ (e /\ Head(q) # ViewerLeft(v)) => e1)
              => (Expected(q, 0, v, e) => Expected(Tail(q), 0, v, e1))
<1>1. /\ \A i \in 0 .. Len(q) - 1 : Arrives(Tail(q), i, v) <=> Arrives(q, i + 1, v)
      /\ Arrives(q, 0, v) <=>
           Arrives(Tail(q), 0, v) \/ (Head(q) = ViewerJoined(v) /\ ~Parts(Tail(q), 0, v))
  BY ArrivesShrinks
<1>2. Parts(q, 0, v) <=> Parts(Tail(q), 0, v) \/ Head(q) = ViewerLeft(v)
  BY PartsShrinks
<1>3. \A i \in 2 .. Len(q) : i - 1 \in 0 .. Len(q) - 1 /\ (i - 1) + 1 = i /\ i - 1 # 0 /\ i # 0
  OBVIOUS
<1>4. 0 \in 0 .. Len(q) - 1 /\ 0 + 1 = 1 /\ 1 # 0
  OBVIOUS
<1>5. \A i \in 2 .. Len(q) : Expected(Tail(q), i - 1, v, e1) <=> Expected(q, i, v, e)
  BY <1>1, <1>3 DEF Expected
<1>6. Arrives(Tail(q), 0, v) <=> Arrives(q, 1, v)
  BY <1>1, <1>4
<1>7. ~e1 => (Expected(Tail(q), 0, v, e1) <=> Expected(q, 1, v, e))
  BY <1>4, <1>6, Zenon DEF Expected
<1>8. /\ (e1 => Head(q) = ViewerJoined(v) \/ (e /\ Head(q) # ViewerLeft(v)))
           => (Expected(Tail(q), 0, v, e1) => Expected(q, 0, v, e))
      /\ (Head(q) = ViewerJoined(v) \/ (e /\ Head(q) # ViewerLeft(v)) => e1)
           => (Expected(q, 0, v, e) => Expected(Tail(q), 0, v, e1))
  BY <1>1, <1>2, Zenon DEF Expected
<1> QED
  BY <1>5, <1>7, <1>8

\* Nothing comes any more.
LEMMA ExpectedAtEnd ==
  ASSUME NEW S, NEW q \in Seq(S), NEW v, NEW e
  PROVE  /\ Len(q) # 0 => ~Expected(q, Len(q), v, e)
         /\ q = <<>> => (Expected(q, 0, v, e) <=> e)
<1>1. Len(q) \in Nat /\ \A j \in Len(q) + 1 .. Len(q) : FALSE
  OBVIOUS
<1>2. ~Arrives(q, Len(q), v) /\ ~Parts(q, Len(q), v)
  BY <1>1 DEF Arrives, Parts
<1>3. q = <<>> => Len(q) = 0
  OBVIOUS
<1>4. q = <<>> => ~Arrives(q, 0, v) /\ ~Parts(q, 0, v)
  BY <1>2, <1>3
<1> QED
  BY <1>2, <1>4, Zenon DEF Expected

\* What is expected is known already, or named in a frame.
LEMMA ExpectedNamed ==
  ASSUME NEW S, NEW q \in Seq(S), NEW i \in 0 .. Len(q), NEW v, NEW e, Expected(q, i, v, e)
  PROVE  Has(q, ViewerJoined(v)) \/ e
<1>1. CASE Arrives(q, i, v)
  <2>1. PICK j \in i + 1 .. Len(q) : q[j] = ViewerJoined(v)
    BY <1>1 DEF Arrives
  <2>2. j \in 1 .. Len(q)
    BY <2>1
  <2> QED
    BY <2>1, <2>2 DEF Has
<1> QED
  BY <1>1, Zenon DEF Expected

(***************************************************************************)
(* What the server does to the room r that the session s shares, and m,    *)
(* which s is told of it.  Nothing is said of a viewer that creates a room *)
(* while it has a seat.                                                    *)
(***************************************************************************)
Ousted(v) ==
  \E x \in Apps : sess[x] = v /\ Serve(x) /\ Head(up[x]).type = "create-room" /\ ~Unseated(v)
SeenBy(s, r, m) ==
  /\ sharerId'[r] = s
  /\ \A v \in Sessions :
       /\ v \in viewers'[r] /\ v \notin viewers[r] => m = ViewerJoined(v)
       /\ v \notin viewers'[r] /\ v \in viewers[r] => m = ViewerLeft(v) \/ Ousted(v)
       /\ m = ViewerJoined(v) => v \in viewers'[r]
       /\ m = ViewerLeft(v) => v \notin viewers'[r]

LEMMA TellingFrames ==
  /\ \A v : Silence # ViewerJoined(v) /\ Silence # ViewerLeft(v)
  /\ \A v, c : ErrorMsg(c) # ViewerJoined(v) /\ ErrorMsg(c) # ViewerLeft(v)
  /\ \A v, r : RoomCreated(r) # ViewerJoined(v) /\ RoomCreated(r) # ViewerLeft(v)
  /\ \A v, r, s : RoomJoined(r, s) # ViewerJoined(v) /\ RoomJoined(r, s) # ViewerLeft(v)
  /\ \A v : RoomEnded # ViewerJoined(v) /\ RoomEnded # ViewerLeft(v)
  /\ \A v, g : g.type \in {"offer", "answer"} => g # ViewerJoined(v) /\ g # ViewerLeft(v)
  /\ \A u, v : ViewerJoined(u) = ViewerJoined(v) => u = v
  /\ \A u, v : ViewerLeft(u) = ViewerLeft(v) => u = v
  /\ \A u, v : ViewerJoined(u) # ViewerLeft(v)
BY DEF Silence, ViewerJoined, ViewerLeft, ErrorMsg, RoomCreated, RoomJoined, RoomEnded

\* Nothing changes, and it is told nothing of the kind.
LEMMA SeenNothing ==
  ASSUME NEW s \in Sessions, NEW r \in RoomIds, sharerId[r] = s, UNCHANGED rmVars, NEW m,
         \A v : m # ViewerJoined(v) /\ m # ViewerLeft(v)
  PROVE  SeenBy(s, r, m)
BY DEF SeenBy, rmVars

LEMMA SeenRemoval ==
  ASSUME RMTypeOK, NEW s \in Sessions, NEW r \in RoomIds, sharerId[r] = s, Indexed(s),
         NEW t \in Sessions, t # s, RemoveSession(t), NEW m,
         \/ m = DepartureMessages(t)[s]
         \/ RemovalKind(t) = "none" /\ \A v : m # ViewerJoined(v) /\ m # ViewerLeft(v)
  PROVE  SeenBy(s, r, m)
<1>0. r # None /\ s # None
  BY NoneAssumption
<1>1. sharerId'[r] = s
  BY <1>0 DEF RemoveSession, SharersWithout, RemovalKind
<1>2. \A v \in Sessions :
        v \in viewers'[r] <=> v \in viewers[r] /\ ~(v = t /\ sessionRooms[t] = r)
  <2>1. RemovalKind(t) = "room-ended" => sessionRooms[t] # r
    BY DEF RemovalKind
  <2>2. sessionRooms[t] = r => RemovalKind(t) = "viewer-left"
    BY <1>0 DEF RemovalKind, RoomExists
  <2> QED
    BY <2>1, <2>2 DEF RemoveSession, ViewersWithout
<1>3. CASE sessionRooms[t] = r
  <2>1. RemovalKind(t) = "viewer-left"
    BY <1>0, <1>3 DEF RemovalKind, RoomExists
  <2>2. m = ViewerLeft(t)
    BY <1>3, <2>1 DEF DepartureMessages
  <2> QED
    BY <1>1, <1>2, <1>3, <2>2, TellingFrames DEF SeenBy
<1>4. CASE sessionRooms[t] # r
  <2>1. \A v : m # ViewerJoined(v) /\ m # ViewerLeft(v)
    <3>1. CASE m = DepartureMessages(t)[s]
      <4>1. m = RoomEnded \/ m = Silence \/ (RemovalKind(t) = "viewer-left" /\ s = sharerId[sessionRooms[t]])
        BY <3>1 DEF DepartureMessages
      <4>2. ~(RemovalKind(t) = "viewer-left" /\ s = sharerId[sessionRooms[t]])
        <5> SUFFICES ASSUME RemovalKind(t) = "viewer-left", s = sharerId[sessionRooms[t]] PROVE FALSE
          OBVIOUS
        <5>1. sessionRooms[t] \in RoomIds
          BY DEF RemovalKind, RMTypeOK
        <5> QED
          BY <1>4, <5>1 DEF Indexed
      <4> QED
        BY <4>1, <4>2, TellingFrames
    <3> QED
      BY <3>1
  <2> QED
    BY <1>1, <1>2, <1>4, <2>1 DEF SeenBy
<1> QED
  BY <1>3, <1>4

LEMMA SeenCreation ==
  ASSUME RMTypeOK, NEW s \in Sessions, NEW r \in RoomIds, sharerId[r] = s,
         NEW x \in Apps, NEW t \in Sessions, t # s, t = sess[x], Serve(x), Head(up[x]).type = "create-room",
         NEW c \in RoomIds, CreateRoom(t, c)
  PROVE  SeenBy(s, r, Silence)
<1>0. r # None /\ s # None
  BY NoneAssumption
<1>1. SharersWithout(t)[r] = s
  BY <1>0 DEF SharersWithout, RemovalKind
<1>2. c # r
  BY <1>0, <1>1 DEF CreateRoom
<1>3. sharerId'[r] = s /\ viewers'[r] = ViewersWithout(t)[r]
  BY <1>1, <1>2 DEF CreateRoom, SharersWithout, ViewersWithout
<1>4. ASSUME NEW v \in Sessions, v \in viewers[r], v \notin viewers'[r] PROVE Ousted(v)
  <2>1. sessionRooms[t] = r
    BY <1>3, <1>4 DEF ViewersWithout
  <2>2. v = t
    BY <1>0, <1>3, <1>4, <2>1 DEF ViewersWithout, RemovalKind, RoomExists
  <2>3. ~Unseated(t)
    BY <1>0, <2>1 DEF Unseated
  <2> QED
    BY <2>2, <2>3 DEF Ousted
<1>5. \A v \in Sessions : v \in viewers'[r] => v \in viewers[r]
  BY <1>0, <1>3 DEF ViewersWithout
<1> QED
  BY <1>3, <1>4, <1>5, TellingFrames DEF SeenBy

LEMMA SeenJoin ==
  ASSUME RMTypeOK, NEW s \in Sessions, NEW r \in RoomIds, sharerId[r] = s, Indexed(s),
         NEW t \in Sessions, t # s, NEW c \in RoomIds, JoinRoom(c, t), JoinResult(c, t) = "ok", NEW m,
         m = [Quiet EXCEPT ![t] = RoomJoined(c, sharerId[c]), ![sharerId[c]] = ViewerJoined(t)][s]
  PROVE  SeenBy(s, r, m)
<1>1. /\ sharerId' = sharerId
      /\ viewers' = [viewers EXCEPT ![c] = @ \union {t}]
  BY DEF JoinRoom
<1>2. viewers'[r] = IF c = r THEN viewers[r] \union {t} ELSE viewers[r]
  BY <1>1 DEF RMTypeOK
<1>3. m = IF s = sharerId[c] THEN ViewerJoined(t) ELSE Silence
  BY DEF Quiet
<1>4. s = sharerId[c] <=> c = r
  BY DEF Indexed
<1> QED
  BY <1>1, <1>2, <1>3, <1>4, TellingFrames DEF SeenBy

\* What a connected application is given of what is pushed.
LEMMA GivenIs ==
  ASSUME Typed, NEW a \in Apps, online[a], NEW msgs \in [Sessions -> DownFrames \union {Silence}], Pushed(msgs)
  PROVE  LET m == msgs[sess[a]] IN
         /\ m \in DownFrames \union {Silence}
         /\ m = Silence => down'[a] = down[a]
         /\ m # Silence => m \in DownFrames /\ down'[a] = down[a] \o <<m>>
<1>1. TableTypes /\ FrameTypes /\ sess[a] \in Sessions
  BY TypedIs DEF TableTypes
<1> QED
  BY <1>1, PushedIs

\* A sharer is given m, while the server does to its room what it is told by m.
IsGiven(a, m) ==
  \/ m = Silence /\ down'[a] = down[a]
  \/ m \in DownFrames /\ m.type # "room-created" /\ down'[a] = down[a] \o <<m>>

LEMMA PlainKinds ==
  /\ Silence.type # "room-created" /\ RoomEnded.type # "room-created"
  /\ \A v : ViewerJoined(v).type # "room-created" /\ ViewerLeft(v).type # "room-created"
  /\ \A c : ErrorMsg(c).type # "room-created"
  /\ \A r, s : RoomJoined(r, s).type # "room-created"
  /\ \A g \in Signals : g.type \in {"offer", "answer"} /\ g.type # "room-created" /\ g # Silence
BY DEF Silence, RoomEnded, ViewerJoined, ViewerLeft, ErrorMsg, RoomJoined, Signals

LEMMA GivenPlainly ==
  ASSUME Typed, NEW a \in Apps, online[a], NEW msgs \in [Sessions -> DownFrames \union {Silence}], Pushed(msgs),
         NEW m, m = msgs[sess[a]], m.type # "room-created"
  PROVE  IsGiven(a, m)
BY GivenIs DEF IsGiven

LEMMA DepartureKinds ==
  \A t, s \in Sessions : DepartureMessages(t)[s].type # "room-created"
BY PlainKinds DEF DepartureMessages

LEMMA HostServe ==
  ASSUME Typed, SessionsInv, NEW a \in Apps, NEW s \in Sessions, s = sess[a], online[a],
         NEW r \in RoomIds, sharerId[r] = s, Indexed(s), NEW x \in Apps, Serve(x),
         x = a => Head(up[a]).type = "signal"
  PROVE  \E m : SeenBy(s, r, m) /\ IsGiven(a, m)
<1> DEFINE Fine == \E m : SeenBy(s, r, m) /\ IsGiven(a, m)
<1>0. TableTypes /\ FrameTypes /\ RMTypeOK
  BY TypedIs DEF TableTypes
<1>1. PICK t \in Sessions : t = sess[x] /\ (t = s => x = a)
  BY <1>0 DEF TableTypes, SessionsInv
<1> DEFINE f == Head(up[x])
<1>2. ASSUME t # s, f.type = "create-room", NEW c \in RoomIds, CreateRoom(t, c), Pushed(OnlyTo(t, RoomCreated(c)))
      PROVE  Fine
  <2>1. PICK msgs \in [Sessions -> DownFrames \union {Silence}] : msgs = OnlyTo(t, RoomCreated(c))
    BY PushesAre, DownFramesAre
  <2>2. msgs[s] = Silence
    BY <1>2, <2>1 DEF OnlyTo, Quiet
  <2>3. SeenBy(s, r, Silence)
    BY <1>0, <1>1, <1>2, SeenCreation
  <2>4. IsGiven(a, Silence)
    BY <1>2, <2>1, <2>2, GivenPlainly, PlainKinds
  <2> QED
    BY <2>3, <2>4
<1>3. ASSUME NEW c \in RoomIds, JoinRoom(c, t), JoinResult(c, t) # "ok", JoinResult(c, t) \in ErrorCodes,
             Pushed(OnlyTo(t, ErrorMsg(JoinResult(c, t))))
      PROVE  Fine
  <2>1. PICK msgs \in [Sessions -> DownFrames \union {Silence}], k \in ErrorCodes :
          msgs = OnlyTo(t, ErrorMsg(k)) /\ Pushed(msgs)
    BY <1>3, PushesAre, DownFramesAre
  <2>2. PICK m : m = msgs[s] /\ (m = Silence \/ m = ErrorMsg(k))
    BY <2>1 DEF OnlyTo, Quiet
  <2>3. UNCHANGED rmVars
    BY <1>3 DEF JoinRoom
  <2>4. SeenBy(s, r, m)
    BY <2>2, <2>3, SeenNothing, TellingFrames
  <2>5. IsGiven(a, m)
    BY <2>1, <2>2, GivenPlainly, PlainKinds
  <2> QED
    BY <2>4, <2>5
<1>4. ASSUME t # s, NEW c \in RoomIds, JoinRoom(c, t), JoinResult(c, t) = "ok", sharerId[c] \in Sessions,
             Pushed([Quiet EXCEPT ![t] = RoomJoined(c, sharerId[c]), ![sharerId[c]] = ViewerJoined(t)])
      PROVE  Fine
  <2>0. PICK h \in Sessions : h = sharerId[c]
    BY <1>4
  <2>1. PICK msgs \in [Sessions -> DownFrames \union {Silence}] :
          msgs = [Quiet EXCEPT ![t] = RoomJoined(c, h), ![h] = ViewerJoined(t)]
    BY PushesAre, DownFramesAre
  <2>2. PICK m : m = msgs[s]
    OBVIOUS
  <2>3. m = [Quiet EXCEPT ![t] = RoomJoined(c, sharerId[c]), ![sharerId[c]] = ViewerJoined(t)][s]
    BY <2>0, <2>1, <2>2
  <2>4. SeenBy(s, r, m)
    BY <1>0, <1>4, <2>3, SeenJoin
  <2>5. m = Silence \/ m = ViewerJoined(t) \/ m = RoomJoined(c, h)
    BY <2>1, <2>2 DEF Quiet
  <2>6. Pushed(msgs)
    BY <1>4, <2>0, <2>1
  <2>7. m.type # "room-created"
    BY <2>5, PlainKinds
  <2>8. IsGiven(a, m)
    BY <2>2, <2>6, <2>7, GivenPlainly
  <2> QED
    BY <2>4, <2>8
<1>5. ASSUME t # s, RemoveSession(t),
             \/ RemovalKind(t) = "none" /\ Pushed(OnlyTo(t, ErrorMsg("NOT_IN_ROOM")))
             \/ RemovalKind(t) # "none" /\ Pushed(DepartureMessages(t))
      PROVE  Fine
  <2>1. CASE RemovalKind(t) = "none" /\ Pushed(OnlyTo(t, ErrorMsg("NOT_IN_ROOM")))
    <3>1. PICK msgs \in [Sessions -> DownFrames \union {Silence}] :
            msgs = OnlyTo(t, ErrorMsg("NOT_IN_ROOM")) /\ Pushed(msgs)
      BY <2>1, PushesAre, DownFramesAre DEF ErrorCodes
    <3>2. msgs[s] = Silence
      BY <1>5, <3>1 DEF OnlyTo, Quiet
    <3>3. SeenBy(s, r, Silence)
      BY <1>0, <1>5, <2>1, SeenRemoval, TellingFrames
    <3>4. IsGiven(a, Silence)
      BY <3>1, <3>2, GivenPlainly, PlainKinds
    <3> QED
      BY <3>3, <3>4
  <2>2. CASE Pushed(DepartureMessages(t))
    <3>1. PICK msgs \in [Sessions -> DownFrames \union {Silence}] : msgs = DepartureMessages(t) /\ Pushed(msgs)
      BY <2>2, DeparturesAre
    <3>2. PICK m : m = msgs[s]
      OBVIOUS
    <3>3. SeenBy(s, r, m)
      BY <1>0, <1>5, <3>1, <3>2, SeenRemoval
    <3>4. m.type # "room-created"
      BY <3>1, <3>2, DepartureKinds
    <3>5. IsGiven(a, m)
      BY <3>1, <3>2, <3>4, GivenPlainly
    <3> QED
      BY <3>3, <3>5
  <2> QED
    BY <1>5, <2>1, <2>2
<1>6. ASSUME f \in UpFrames, f.type = "signal", UNCHANGED rmVars,
             \/ Pushed(OnlyTo(f.to, f.signal))
             \/ /\ ResolveTarget(t, f.to) \in ErrorCodes
                /\ Pushed(OnlyTo(t, ErrorMsg(ResolveTarget(t, f.to))))
      PROVE  Fine
  <2>1. PICK to \in Sessions, g \in Signals : to = f.to /\ g = f.signal
    BY <1>6, UpFrameHas
  <2>2. CASE Pushed(OnlyTo(f.to, f.signal))
    <3>1. PICK msgs \in [Sessions -> DownFrames \union {Silence}] : msgs = OnlyTo(to, g) /\ Pushed(msgs)
      BY <2>1, <2>2, PushesAre, DownFramesAre
    <3>2. PICK m : m = msgs[s] /\ (m = Silence \/ m = g)
      BY <3>1 DEF OnlyTo, Quiet
    <3>3. SeenBy(s, r, m)
      BY <1>6, <3>2, SeenNothing, TellingFrames, PlainKinds
    <3>4. IsGiven(a, m)
      BY <3>1, <3>2, GivenPlainly, PlainKinds
    <3> QED
      BY <3>3, <3>4
  <2>3. ASSUME NEW k \in ErrorCodes, Pushed(OnlyTo(t, ErrorMsg(k))) PROVE Fine
    <3>1. PICK msgs \in [Sessions -> DownFrames \union {Silence}] : msgs = OnlyTo(t, ErrorMsg(k)) /\ Pushed(msgs)
      BY <2>3, PushesAre, DownFramesAre
    <3>2. PICK m : m = msgs[s] /\ (m = Silence \/ m = ErrorMsg(k))
      BY <3>1 DEF OnlyTo, Quiet
    <3>3. SeenBy(s, r, m)
      BY <1>6, <3>2, SeenNothing, TellingFrames
    <3>4. IsGiven(a, m)
      BY <3>1, <3>2, GivenPlainly, PlainKinds
    <3> QED
      BY <3>3, <3>4
  <2> QED
    BY <1>6, <2>2, <2>3
<1>7. f.type # "signal" => t # s
  BY <1>1
<1> HIDE DEF Fine
<1>8. Fine
  <2>1. \/ f.type = "create-room" /\ \E c \in RoomIds : CreateRoom(t, c) /\ Pushed(OnlyTo(t, RoomCreated(c)))
        \/ /\ f.type = "join-room" /\ f.room \in RoomIds /\ JoinRoom(f.room, t)
           /\ JoinResult(f.room, t) # "ok" /\ JoinResult(f.room, t) \in ErrorCodes
           /\ Pushed(OnlyTo(t, ErrorMsg(JoinResult(f.room, t))))
        \/ /\ f.type = "join-room" /\ f.room \in RoomIds /\ JoinRoom(f.room, t)
           /\ JoinResult(f.room, t) = "ok" /\ sharerId[f.room] \in Sessions
           /\ Pushed([Quiet EXCEPT ![t] = RoomJoined(f.room, sharerId[f.room]),
                                   ![sharerId[f.room]] = ViewerJoined(t)])
        \/ /\ f.type = "leave-room" /\ RemoveSession(t)
           /\ \/ RemovalKind(t) = "none" /\ Pushed(OnlyTo(t, ErrorMsg("NOT_IN_ROOM")))
              \/ RemovalKind(t) # "none" /\ Pushed(DepartureMessages(t))
        \/ /\ f.type = "signal" /\ f \in UpFrames /\ UNCHANGED rmVars
           /\ \/ ResolveTarget(t, f.to) = "ok" /\ Pushed(OnlyTo(f.to, f.signal))
              \/ /\ ResolveTarget(t, f.to) \in ErrorCodes
                 /\ Pushed(OnlyTo(t, ErrorMsg(ResolveTarget(t, f.to))))
    BY <1>0, <1>1, ServeIs
  <2>2. CASE f.type = "create-room" /\ \E c \in RoomIds : CreateRoom(t, c) /\ Pushed(OnlyTo(t, RoomCreated(c)))
    BY <1>2, <1>7, <2>2
  <2>3. CASE f.type = "join-room" /\ f.room \in RoomIds /\ JoinRoom(f.room, t)
    BY <1>3, <1>4, <1>7, <2>1, <2>3
  <2>4. CASE f.type = "leave-room" /\ RemoveSession(t)
    BY <1>5, <1>7, <2>1, <2>4
  <2>5. CASE f.type = "signal" /\ UNCHANGED rmVars
    BY <1>6, <2>1, <2>5
  <2> HIDE DEF f
  <2> QED
    BY <2>1, <2>2, <2>3, <2>4, <2>5
<1> QED
  BY <1>8 DEF Fine

LEMMA HostForgets ==
  ASSUME Typed, NEW a \in Apps, NEW s \in Sessions, s = sess[a], online[a],
         NEW r \in RoomIds, sharerId[r] = s, Indexed(s), NEW t \in Sessions, t # s,
         RemoveSession(t), Pushed(DepartureMessages(t))
  PROVE  \E m : SeenBy(s, r, m) /\ IsGiven(a, m)
<1>0. TableTypes /\ FrameTypes /\ RMTypeOK
  BY TypedIs DEF TableTypes
<1>1. PICK msgs \in [Sessions -> DownFrames \union {Silence}] : msgs = DepartureMessages(t) /\ Pushed(msgs)
  BY DeparturesAre
<1>2. PICK m : m = msgs[s]
  OBVIOUS
<1>3. SeenBy(s, r, m)
  BY <1>0, <1>1, <1>2, SeenRemoval
<1>4. m.type # "room-created"
  BY <1>1, <1>2, DepartureKinds
<1>5. IsGiven(a, m)
  BY <1>1, <1>2, <1>4, GivenPlainly
<1> QED
  BY <1>3, <1>5
-----------------------------------------------------------------------------
\* In a step that is not its own, a connected sharer is given what is done to its room.
LEMMA HostMoves ==
  ASSUME Typed, SessionsInv, Next, NEW a \in Apps, NEW s \in Sessions, s = sess[a], online[a], online'[a],
         s \notin gone, NEW r \in RoomIds, sharerId[r] = s, Indexed(s),
         Serve(a) => Head(up[a]).type = "signal", ~Receive(a)
  PROVE  \E m : SeenBy(s, r, m) /\ IsGiven(a, m)
<1>0. TableTypes /\ FrameTypes /\ SharersTyped /\ ViewersTyped /\ online \in [Apps -> BOOLEAN]
  BY TypedIs DEF TableTypes
<1> DEFINE Fine == \E m : SeenBy(s, r, m) /\ IsGiven(a, m)
<1>1. ASSUME UNCHANGED rmVars, down'[a] = down[a] PROVE Fine
  <2>1. SeenBy(s, r, Silence)
    BY <1>1, SeenNothing, TellingFrames
  <2>2. IsGiven(a, Silence)
    BY <1>1 DEF IsGiven
  <2> QED
    BY <2>1, <2>2
<1>2. ASSUME NEW x \in Apps, Receive(x) PROVE Fine
  <2>1. x # a
    BY <1>2
  <2>2. UNCHANGED rmVars /\ down'[a] = down[a]
    BY <1>0, <1>2, <2>1 DEF Receive, FrameTypes
  <2> HIDE DEF Fine
  <2> QED
    BY <1>1, <2>2
<1>3. ASSUME NEW x \in Apps, Serve(x) PROVE Fine
  <2>1. x = a => Head(up[a]).type = "signal"
    BY <1>3
  <2> QED
    BY <1>3, <2>1, HostServe
<1>4. ASSUME NEW x \in CanShare, SharingStep(x) PROVE Fine
  <2>1. SharersStep(x)
    BY <1>4, SharersStepIs
  <2>2. UNCHANGED rmVars /\ down'[a] = down[a]
    BY <2>1, SharersSend
  <2> HIDE DEF Fine
  <2> QED
    BY <1>1, <2>2
<1>5. ASSUME NEW x \in CanWatch, ViewingStep(x) PROVE Fine
  <2>1. ViewersStep(x)
    BY <1>5, ViewersStepIs
  <2>2. UNCHANGED rmVars /\ down'[a] = down[a]
    BY <2>1, ViewersSend
  <2> HIDE DEF Fine
  <2> QED
    BY <1>1, <2>2
<1>6. ASSUME SocketStep PROVE Fine
  <2>1. ASSUME NEW x \in Apps, online' = [online EXCEPT ![x] = FALSE],
               down' = [down EXCEPT ![x] = <<>>], UNCHANGED rmVars
        PROVE  UNCHANGED rmVars /\ down'[a] = down[a]
    BY <1>0, <2>1 DEF FrameTypes
  <2>2. ASSUME NEW t \in Sessions, t \in gone, RemoveSession(t), Pushed(DepartureMessages(t)) PROVE Fine
    <3>1. t # s
      BY <2>2
    <3> QED
      BY <2>2, <3>1, HostForgets
  <2> HIDE DEF Fine
  <2> QED
    BY <1>0, <1>1, <1>6, <2>1, <2>2, SocketsDo
<1> HIDE DEF Fine
<1>7. Fine
  BY <1>2, <1>3, <1>4, <1>5, <1>6, SharersAssumption DEF Next
<1> QED
  BY <1>7 DEF Fine

\* Stopping lets the stream go.
LEMMA StoppedLetsGo ==
  ASSUME SharersTyped, NEW a \in CanShare, Stopped(a)
  PROVE  sh'[a].stream = 0
<1>1. SharingTypeOK /\ sh[a] \in Managers /\ (sh[a].subscribed => sh[a].listening >= 1)
  BY SharersCountIs DEF SharersTyped
<1>2. PICK k : k = [sh[a] EXCEPT !.room = None]
  OBVIOUS
<1>3. k \in Managers /\ k.subscribed = sh[a].subscribed /\ k.listening = sh[a].listening
  BY <1>1, <1>2 DEF Managers
<1>4. CleanUp(a, k, "idle")
  BY <1>2 DEF Stopped
<1> QED
  BY <1>1, <1>3, <1>4, CleanUpIs

(***************************************************************************)
(* A sharer that has a stream and keeps it: but for what it hears, its     *)
(* manager stays as it is, and of its connections only a failed one goes.  *)
(***************************************************************************)
Fails(a, v) == ConnectionFails(a, v) /\ UNCHANGED vwVars
LEMMA SharerGoes ==
  ASSUME Typed, Next, NEW a \in CanShare, InOrder(a), Steady(a)', sh[a].stream # 0, sh'[a].stream # 0,
         ~Receive(a)
  PROVE  /\ sh'[a].managing = sh[a].managing /\ sh'[a].room = sh[a].room
         /\ \A v \in Sessions : /\ entry'[a][v] # NoEntry => entry[a][v] # NoEntry
                                /\ entry[a][v] # NoEntry => entry'[a][v] # NoEntry \/ Fails(a, v)
<1>0. /\ TableTypes /\ FrameTypes /\ SharersTyped /\ SharingTypeOK /\ ViewersTyped /\ a \in Apps
      /\ ~AwaitsCapture(a) /\ entry[a] \in [Sessions -> Entries]
      /\ entry \in [CanShare -> [Sessions -> Entries]]
  BY TypedIs, SharersAssumption, SharerIs DEF SharersTyped, SharingTypeOK, InOrder, OneStart
<1> DEFINE Same == sh'[a] = sh[a] /\ entry'[a] = entry[a]
           Fine == /\ sh'[a] = sh[a]
                   /\ \A v \in Sessions : /\ entry'[a][v] # NoEntry => entry[a][v] # NoEntry
                                          /\ entry[a][v] # NoEntry => entry'[a][v] # NoEntry \/ Fails(a, v)
<1>1. Same => Fine
  OBVIOUS
<1>2. ASSUME NEW x \in Apps, Receive(x) PROVE Same
  <2>1. x # a
    BY <1>2
  <2>2. CASE x \in CanShare
    BY <1>0, <1>2, <2>1, <2>2, SharingHearsOf DEF Receive
  <2>3. CASE x \notin CanShare
    BY <1>2, <2>3 DEF Receive
  <2> QED
    BY <2>2, <2>3
<1>3. ASSUME NEW x \in Apps, Serve(x) PROVE Same
  BY <1>0, <1>3, ServePushes DEF shVars
<1>4. ASSUME NEW x \in CanShare, SharingStep(x) PROVE Fine
  <2>0. SharersStep(x)
    BY <1>4, SharersStepIs
  <2>1. CASE x # a
    <3>1. Same
      BY <1>0, <2>0, <2>1, SharersStepOf
    <3> HIDE DEF Same, Fine
    <3> QED
      BY <1>1, <3>1
  <2>2. CASE x = a
    <3>1. ~Stopped(a)
      BY <1>0, StoppedLetsGo
    <3>2. ASSUME Stop(a) PROVE FALSE
      BY <3>1, <3>2, StopIs
    <3>3. ASSUME NEW n \in Starts, Begins(a, n) PROVE FALSE
      BY <3>3, BeginsIs
    <3>4. ASSUME NEW n \in Starts, PickerAnswers(a, n) \/ PickerFails(a, n) \/ CaptureStarts(a, n) PROVE FALSE
      BY <1>0, <3>4 DEF PickerAnswers, PickerFails, CaptureStarts, AwaitsCapture
    <3>5. ASSUME NEW n \in Starts, CaptureEnds(a, n) PROVE Same
      BY <3>1, <3>5, CaptureEndsIs
    <3>6. ASSUME NEW v \in Sessions, ConnectionFails(a, v), UNCHANGED vwVars PROVE Fine
      <4>1. sh' = sh /\ entry' = [entry EXCEPT ![a] = [entry[a] EXCEPT ![v] = NoEntry]]
        BY <1>0, <3>6, ConnectionFailsIs DEF RemoveViewer
      <4>2. Fails(a, v)
        BY <3>6 DEF Fails
      <4>3. \A w \in Sessions : entry'[a][w] = IF w = v THEN NoEntry ELSE entry[a][w]
        BY <1>0, <4>1
      <4> QED
        BY <4>1, <4>2, <4>3
    <3>7. ASSUME NEW v \in Sessions, OfferReady(a, v) PROVE Fine
      <4>1. PICK e : e = [entry[a][v] EXCEPT !.phase = IF entry[a][v].of = 0 THEN "offered" ELSE "answered"]
        OBVIOUS
      <4>2. /\ sh' = sh /\ entry' = [entry EXCEPT ![a] = [entry[a] EXCEPT ![v] = e]]
            /\ entry[a][v].phase = "offering"
        BY <1>0, <3>7, <4>1 DEF OfferReady
      <4>3. entry[a][v] # NoEntry /\ e # NoEntry
        BY <1>0, <4>1, <4>2 DEF NoEntry, Entries
      <4>4. \A w \in Sessions : entry'[a][w] = IF w = v THEN e ELSE entry[a][w]
        BY <1>0, <4>2
      <4> QED
        BY <4>2, <4>3, <4>4
    <3> HIDE DEF Same, Fine
    <3> QED
      BY <1>1, <2>0, <2>2, <3>2, <3>3, <3>4, <3>5, <3>6, <3>7 DEF SharersStep
  <2> QED
    BY <2>1, <2>2
<1>5. ASSUME NEW x \in CanWatch, ViewingStep(x) PROVE Same
  BY <1>5, ViewersStepIs, ViewersSend DEF shVars
<1>6. ASSUME UNCHANGED <<shVars, vwVars>> PROVE Same
  BY <1>6 DEF shVars
<1> HIDE DEF Same, Fine
<1>7. Fine
  BY <1>1, <1>2, <1>3, <1>4, <1>5, <1>6 DEF Next
<1> QED
  BY <1>7 DEF Fine

LEMMA LeavesAlone ==
  ASSUME NEW b \in CanWatch, Leaves(b), OneRole(b)'
  PROVE  ~Sharing(b)
<1> SUFFICES ASSUME Sharing(b) PROVE FALSE
  OBVIOUS
<1> DEFINE ms == OnlyIf(Sharing(b), "both roles")
<1>1. MishapsAllowed({b}, ms)
  BY Zenon DEF Leaves
<1>2. "both roles" \in ms
  BY Zenon DEF OnlyIf
<1>3. "both roles" \in {"both roles"}
  BY Zenon
<1> HIDE DEF ms
<1> QED
  BY <1>1, <1>2, <1>3, SparedIsNotRecorded, Zenon DEF OneRole

\* What is sent is in the queue of who sent it.
LEMMA SentIs ==
  ASSUME FrameTypes, NEW x \in Apps, NEW g \in UpFrames, up' = Sent(x, <<g>>),
         NEW a \in Apps, NEW f \in UpFrames, up'[a] = up[a] \o <<f>> \/ up'[a] = up[a] \o <<f, f>>
  PROVE  a = x /\ f = g
<1> DEFINE q == up[a]
<1>0. q \in Seq(UpFrames) /\ up \in [Apps -> Seq(UpFrames)] /\ Len(q) \in Nat
  BY DEF FrameTypes
<1>1. up'[a] # q
  <2> HIDE DEF q
  <2>1. Len(q \o <<f>>) = Len(q) + 1 /\ Len(q \o <<f, f>>) = Len(q) + 2
    BY <1>0
  <2> QED
    BY <1>0, <2>1 DEF q
<1>2. a = x /\ up'[a] = q \o <<g>>
  BY <1>0, <1>1 DEF Sent
<1> HIDE DEF q
<1>3. q \o <<g>> = q \o <<f>> \/ q \o <<g>> = q \o <<f, f>>
  BY <1>2 DEF q
<1>4. Len(q \o <<g>>) = Len(q) + 1 /\ Len(q \o <<f, f>>) = Len(q) + 2
      /\ (q \o <<g>>)[Len(q) + 1] = g /\ (q \o <<f>>)[Len(q) + 1] = f
  BY <1>0
<1> QED
  BY <1>0, <1>2, <1>3, <1>4

\* Only stop() and leave() tell the server of a departure.
LEMMA LeaveFrom ==
  ASSUME Typed, Next, NEW a \in Apps, NEW f \in UpFrames, Sends(a, f), f.type = "leave-room"
  PROVE  (a \in CanShare /\ Stopped(a) /\ sh[a].state # "idle") \/ (a \in CanWatch /\ Leaves(a))
<1>0. /\ TableTypes /\ FrameTypes /\ SharersTyped /\ ViewersTyped
      /\ up \in [Apps -> Seq(UpFrames)] /\ up[a] \in Seq(UpFrames)
  BY TypedIs DEF FrameTypes
<1> DEFINE Fine == (a \in CanShare /\ Stopped(a) /\ sh[a].state # "idle") \/ (a \in CanWatch /\ Leaves(a))
<1>1. up'[a] # up[a]
  <2>1. Len(up[a] \o <<f>>) = Len(up[a]) + 1 /\ Len(up[a] \o <<f, f>>) = Len(up[a]) + 2
        /\ Len(up[a]) \in Nat
    BY <1>0
  <2> QED
    BY <2>1 DEF Sends
<1>2. ASSUME NEW x \in Apps, NEW g \in UpFrames, up' = Sent(x, <<g>>) PROVE a = x /\ g.type = "leave-room"
  <2>1. up'[a] = up[a] \o <<f>> \/ up'[a] = up[a] \o <<f, f>>
    BY DEF Sends
  <2>2. a = x /\ f = g
    BY <1>0, <1>2, <2>1, SentIs
  <2> QED
    BY <2>2
<1>3. ASSUME NEW x \in Apps, Receive(x) PROVE FALSE
  BY <1>1, <1>3 DEF Receive
<1>4. ASSUME NEW x \in Apps, Serve(x) PROVE FALSE
  <2>1. up' = [up EXCEPT ![x] = Tail(@)]
    BY <1>0, <1>4, ServePushes
  <2>2. x # a
    BY <1>4 DEF Sends
  <2> QED
    BY <1>0, <1>1, <2>1, <2>2
<1>5. ASSUME NEW x \in CanShare, SharingStep(x) PROVE Fine
  <2>0. SharersStep(x) /\ x \in Apps
    BY <1>5, SharersStepIs, SharersAssumption
  <2>1. ASSUME Stopped(x), sh[x].state # "idle" PROVE Fine
    <3>1. up' = Sent(x, <<Plain("leave-room")>>) /\ Plain("leave-room") \in UpFrames
      BY <2>1, UpFramesAre DEF Stopped
    <3>2. a = x
      BY <1>2, <2>0, <3>1
    <3> QED
      BY <2>1, <3>2
  <2>2. CASE Stop(x)
    BY <2>1, <2>2, StopIs
  <2>3. ASSUME NEW n \in Starts, Begins(x, n) \/ PickerAnswers(x, n) \/ PickerFails(x, n) PROVE FALSE
    BY <1>1, <2>3, BeginsIs DEF PickerAnswers, PickerFails, linkVars
  <2>4. ASSUME NEW n \in Starts, CaptureStarts(x, n) PROVE FALSE
    <3>1. up' = Sent(x, <<Plain("create-room")>>) /\ Plain("create-room") \in UpFrames
      BY <2>4, UpFramesAre DEF CaptureStarts
    <3> QED
      BY <1>2, <2>0, <3>1, KindsAre
  <2>5. ASSUME NEW n \in Starts, CaptureEnds(x, n) PROVE Fine
    BY <1>1, <2>1, <2>5, CaptureEndsIs
  <2>6. ASSUME NEW v \in Sessions, ConnectionFails(x, v) PROVE FALSE
    BY <1>1, <2>6, ConnectionFailsIs DEF linkVars
  <2>7. ASSUME NEW v \in Sessions, OfferReady(x, v) PROVE FALSE
    <3>1. PICK g : g = To(v, Offer(sess[x], entry[x][v].conn))
      OBVIOUS
    <3>2. entry[x][v].conn \in Nat /\ sess[x] \in Sessions
      BY <1>0, <2>0 DEF TableTypes, SharersTyped, SharingTypeOK, Entries
    <3>3. up' = Sent(x, <<g>>) /\ g \in UpFrames /\ g.type = "signal"
      BY <2>7, <3>1, <3>2, UpFramesAre, SignalsAre, KindsAre DEF OfferReady
    <3> QED
      BY <1>2, <2>0, <3>3
  <2> HIDE DEF Fine
  <2> QED
    BY <2>0, <2>2, <2>3, <2>4, <2>5, <2>6, <2>7 DEF SharersStep
<1>6. ASSUME NEW x \in CanWatch, ViewingStep(x) PROVE Fine
  <2>0. ViewersStep(x) /\ x \in Apps
    BY <1>6, ViewersStepIs, WatchersAssumption
  <2>1. ASSUME NEW r \in RoomIds, Join(x, r) PROVE FALSE
    <3>1. up' = Sent(x, <<JoinMsg(r)>>) /\ JoinMsg(r) \in UpFrames
      BY <2>1, UpFramesAre DEF Join
    <3> QED
      BY <1>2, <2>0, <3>1, KindsAre
  <2>2. CASE Joins(x)
    BY <2>1, <2>2, JoinsIs
  <2>3. CASE Leaves(x)
    <3>1. x = a
      <4>1. \E frames : up' = Sent(x, frames)
        BY <2>3, LeavesIs DEF Leave
      <4> QED
        BY <1>0, <1>1, <4>1 DEF Sent
    <3> QED
      BY <2>3, <3>1
  <2>4. CASE AnswerFails(x) \/ PictureLost(x) \/ PictureArrives(x)
    BY <1>1, <2>4, AnswerFailsIs DEF PictureLost, PictureArrives, linkVars
  <2>5. CASE AnswerReady(x)
    <3>0. offers[x] # <<>> /\ offers[x] \in Seq(TakenOffers) /\ vw[x].conn \in Nat
      BY <1>0, <2>5, WatcherIs DEF AnswerReady
    <3>1. PICK o \in TakenOffers : o = Head(offers[x])
      BY <3>0
    <3>2. PICK g : g = To(o.from, Answer(sess[x], o.conn, vw[x].conn))
      OBVIOUS
    <3>3. o.from \in Sessions /\ o.conn \in Nat /\ sess[x] \in Sessions
      BY <1>0, <2>0 DEF TableTypes, TakenOffers
    <3>4. up' = Sent(x, <<g>>) /\ g \in UpFrames /\ g.type = "signal"
      BY <2>5, <3>0, <3>1, <3>2, <3>3, UpFramesAre, SignalsAre, KindsAre DEF AnswerReady
    <3> QED
      BY <1>2, <2>0, <3>4
  <2> HIDE DEF Fine
  <2> QED
    BY <2>0, <2>2, <2>3, <2>4, <2>5 DEF ViewersStep
<1>7. ASSUME SocketStep PROVE FALSE
  <2>1. ASSUME NEW x \in Apps, up' = [up EXCEPT ![x] = <<>>] PROVE FALSE
    <3>1. up'[a] = up[a] \/ up'[a] = <<>>
      BY <1>0, <2>1
    <3>2. up'[a] # <<>>
      <4>1. Len(up[a] \o <<f>>) = Len(up[a]) + 1 /\ Len(up[a] \o <<f, f>>) = Len(up[a]) + 2
            /\ Len(up[a]) \in Nat /\ Len(<<>>) = 0
        BY <1>0
      <4> QED
        BY <4>1 DEF Sends
    <3> QED
      BY <1>1, <3>1, <3>2
  <2> QED
    BY <1>0, <1>1, <1>7, <2>1, SocketsDo
<1> HIDE DEF Fine
<1>8. Fine
  BY <1>3, <1>4, <1>5, <1>6, <1>7 DEF Next
<1> QED
  BY <1>8 DEF Fine

\* One that has a stream and keeps it sends nothing but signals.
LEMMA HostSends ==
  ASSUME Typed, Next, NEW a \in CanShare, InOrder(a), sh[a].stream # 0, sh'[a].stream # 0,
         a \in CanWatch => OneRole(a)', NEW f \in UpFrames, Sends(a, f)
  PROVE  f.type = "signal"
<1>0. a \in Apps /\ SharersTyped /\ ~AwaitsCapture(a) /\ Sharing(a)
  BY TypedIs, SharersAssumption DEF InOrder, OneStart, Sharing
<1>1. f.type # "create-room"
  BY <1>0, GoesKinds DEF Sends
<1>2. f.type # "join-room"
  BY <1>0, GoesKinds, JoinsAlone DEF Sends
<1>3. f.type # "leave-room"
  <2>1. ~Stopped(a)
    BY <1>0, StoppedLetsGo
  <2>2. a \in CanWatch => ~Leaves(a)
    BY <1>0, LeavesAlone
  <2> QED
    BY <1>0, <2>1, <2>2, LeaveFrom
<1> QED
  BY <1>1, <1>2, <1>3 DEF UpFrames

\* An answer that a sharer comes to is awaited by the connection there is, and applied.
LEMMA AnswerInPhase ==
  ASSUME Typed, MeetInv, RoundInv, NEW a \in CanShare, NEW b \in CanWatch, Calm(b), down[a] # <<>>,
         Head(down[a]).type = "answer", Head(down[a]).from = sess[b], entry[a][sess[b]] # NoEntry
  PROVE  entry[a][sess[b]].phase = "offered"
<1>0. /\ TableTypes /\ FrameTypes /\ a \in Apps /\ b \in Apps /\ sess[b] \in Sessions /\ sess[a] \in Sessions
      /\ entry[a] \in [Sessions -> Entries]
  BY TypedIs, SharersAssumption, WatchersAssumption DEF TableTypes, SharersTyped, SharingTypeOK
<1>1. PICK f \in DownFrames : f = Head(down[a])
  BY <1>0, HeadOfDown
<1>2. f.from = sess[b] /\ f.conn \in Nat /\ f.by \in Nat /\ f = Answer(sess[b], f.conn, f.by) /\ Has(down[a], f)
  <2>1. f.conn \in Nat /\ f.by \in Nat /\ f = Answer(f.from, f.conn, f.by)
    BY <1>1, DownFrameHas DEF DownFrames, Signals, Answer
  <2>2. Has(down[a], f)
    BY <1>0, <1>1, HeadOfDown, QueueShrinks
  <2> QED
    BY <1>1, <2>1, <2>2
<1>3. PICK c \in Nat, k \in Nat : f = Answer(sess[b], c, k)
  BY <1>2
<1>4. c = entry[a][sess[b]].conn
  <2>1. Meets(a, b)
    BY DEF MeetInv, MeetsInOrder
  <2>2. Returned(a, b, c, k)
    BY <1>2, <1>3 DEF Returned
  <2> QED
    BY <2>1, <2>2 DEF Meets
<1>5. PICK o \in TakenOffers : o = [from |-> sess[a], conn |-> c]
  BY <1>0 DEF TakenOffers
<1>6. IsOffered(a, b, o)
  BY <1>4, <1>5 DEF IsOffered
<1>7. Replied(a, b, o)
  <2>1. f \in AnswersOf(sess[b], o)
    BY <1>3, <1>5 DEF AnswersOf
  <2> QED
    BY <1>2, <2>1 DEF Replied, Among, Has
<1>8. Round(a, b, o)
  BY <1>6 DEF RoundInv
<1> QED
  BY <1>7, <1>8 DEF Round, InPhase

(***************************************************************************)
(* The answers of a viewer that comes back only once its last stay is      *)
(* settled, to a sharer that keeps a connection to it.                     *)
(***************************************************************************)
AnswersAwaited ==
  \A a \in CanShare, b \in CanWatch :
    Calm(b) /\ entry[a][sess[b]] # NoEntry =>
      \A i \in 1 .. Len(down[a]) :
        LET m == down[a][i] IN
        m.type = "answer" /\ m.from = sess[b] =>
          /\ entry[a][sess[b]].phase = "offered" /\ m.conn = entry[a][sess[b]].conn
          /\ \A j \in 1 .. Len(down[a]) :
               down[a][j].type = "answer" /\ down[a][j].from = sess[b] => j = i

\* Unless its viewer rejoined too quickly, an answer on its way to a sharer is the only one
\* of that viewer, is to the connection there is and finds it waiting: none comes twice,
\* nor before the offer was made, for setRemoteDescription to refuse (handleAnswer).
THEOREM AnswersAreAwaited == Spec => []AnswersAwaited
<1>1. Typed /\ MeetInv /\ RoundInv => AnswersAwaited
  <2> SUFFICES ASSUME Typed, MeetInv, RoundInv, NEW a \in CanShare, NEW b \in CanWatch, Calm(b),
                      entry[a][sess[b]] # NoEntry
               PROVE  \A i \in 1 .. Len(down[a]) :
                        down[a][i].type = "answer" /\ down[a][i].from = sess[b] =>
                          /\ entry[a][sess[b]].phase = "offered"
                          /\ down[a][i].conn = entry[a][sess[b]].conn
                          /\ \A j \in 1 .. Len(down[a]) :
                               down[a][j].type = "answer" /\ down[a][j].from = sess[b] => j = i
    BY DEF AnswersAwaited
  <2>0. /\ FrameTypes /\ a \in Apps /\ b \in Apps /\ sess[b] \in Sessions /\ sess[a] \in Sessions
        /\ entry[a] \in [Sessions -> Entries] /\ down[a] \in Seq(DownFrames)
    BY TypedIs, SharersAssumption, WatchersAssumption DEF TableTypes, FrameTypes, SharersTyped, SharingTypeOK
  <2>1. PICK o \in TakenOffers : o = [from |-> sess[a], conn |-> entry[a][sess[b]].conn]
    BY <2>0 DEF TakenOffers, Entries
  <2>2. Round(a, b, o)
    BY <2>1 DEF RoundInv, IsOffered
  <2>3. ASSUME NEW i \in 1 .. Len(down[a]), down[a][i].type = "answer", down[a][i].from = sess[b]
        PROVE  down[a][i].conn = o.conn /\ down[a][i] \in AnswersOf(sess[b], o)
    <3>1. PICK f \in DownFrames : f = down[a][i]
      BY <2>0
    <3>2. f.conn \in Nat /\ f.by \in Nat /\ f = Answer(sess[b], f.conn, f.by)
      BY <2>3, <3>1, DownFrameHas DEF DownFrames, Signals, Answer
    <3>3. PICK c \in Nat, k \in Nat : f = Answer(sess[b], c, k)
      BY <3>2
    <3>4. Has(down[a], f)
      BY <3>1 DEF Has
    <3>5. Meets(a, b) /\ Returned(a, b, c, k)
      BY <3>3, <3>4 DEF MeetInv, MeetsInOrder, Returned
    <3>6. c = entry[a][sess[b]].conn
      BY <3>5 DEF Meets
    <3> QED
      BY <2>1, <3>1, <3>3, <3>6 DEF AnswersOf, Answer
  <2>4. TAKE i \in 1 .. Len(down[a])
  <2>5. HAVE down[a][i].type = "answer" /\ down[a][i].from = sess[b]
  <2>6. Replied(a, b, o)
    BY <2>3, <2>5 DEF Replied, Among
  <2>7. entry[a][sess[b]].phase = "offered"
    BY <2>2, <2>6 DEF Round, InPhase
  <2>8. OneOf(down[a], AnswersOf(sess[b], o))
    BY <2>2 DEF Round, EachOnce
  <2> QED
    BY <2>1, <2>3, <2>5, <2>7, <2>8 DEF OneOf
<1> QED
  BY <1>1, RoundsHold, PTL

(***************************************************************************)
(* What a sharer that has a stream makes of a frame.                       *)
(***************************************************************************)
LEMMA RoomHeard ==
  ASSUME Typed, NEW a \in CanShare, InOrder(a), sh[a].stream # 0, Receive(a),
         Head(down[a]).type = "room-created"
  PROVE  /\ sh'[a].managing /\ sh'[a].room = Head(down[a]).room
         /\ \A v \in Sessions : entry'[a][v] = NoEntry
<1>0. SharersTyped /\ SharingTypeOK /\ sh[a] \in Managers /\ sh \in [CanShare -> Managers]
      /\ entry \in [CanShare -> [Sessions -> Entries]] /\ sh[a].listening # 0
  BY TypedIs, SharerIs DEF SharersTyped, SharingTypeOK, InOrder, Holds
<1>1. SharingHears(a, Head(down[a]))
  BY DEF Receive
<1>2. PICK r : r = Head(down[a]).room
  OBVIOUS
<1>3. sh' = [sh EXCEPT ![a] = [sh[a] EXCEPT !.room = r, !.managing = TRUE, !.state = "sharing"]]
      /\ entry' = [entry EXCEPT ![a] = NoEntries]
  BY <1>0, <1>1, <1>2 DEF SharingHears
<1>4. sh'[a] = [sh[a] EXCEPT !.room = r, !.managing = TRUE, !.state = "sharing"]
  BY <1>0, <1>3
<1>5. sh'[a].managing /\ sh'[a].room = r
  BY <1>0, <1>4 DEF Managers
<1> QED
  BY <1>0, <1>2, <1>3, <1>5 DEF NoEntries

LEMMA OtherHeard ==
  ASSUME Typed, NEW a \in CanShare, InOrder(a), sh[a].stream # 0, Receive(a),
         NEW f \in DownFrames, f = Head(down[a]), f.type # "room-created"
  PROVE  /\ sh'[a].managing = sh[a].managing /\ sh'[a].room = sh[a].room
         /\ \A v \in Sessions :
              /\ entry'[a][v] # NoEntry => f = ViewerJoined(v) \/ (entry[a][v] # NoEntry /\ f # ViewerLeft(v))
              /\ f = ViewerJoined(v) /\ sh[a].managing => entry'[a][v] # NoEntry
              /\ f # ViewerLeft(v) /\ entry[a][v] # NoEntry =>
                   \/ entry'[a][v] # NoEntry
                   \/ f.type = "answer" /\ f.from = v /\ entry[a][v].phase # "offered"
<1>0. SharersTyped /\ SharingTypeOK /\ sh[a] \in Managers /\ sh \in [CanShare -> Managers]
      /\ entry \in [CanShare -> [Sessions -> Entries]] /\ sh[a].listening = 1
  BY TypedIs, SharerIs DEF SharersTyped, SharingTypeOK, InOrder, Holds
<1>1. SharingHears(a, f)
  BY DEF Receive
<1> DEFINE Fine ==
      /\ sh'[a].managing = sh[a].managing /\ sh'[a].room = sh[a].room
      /\ \A v \in Sessions :
              /\ entry'[a][v] # NoEntry => f = ViewerJoined(v) \/ (entry[a][v] # NoEntry /\ f # ViewerLeft(v))
              /\ f = ViewerJoined(v) /\ sh[a].managing => entry'[a][v] # NoEntry
              /\ f # ViewerLeft(v) /\ entry[a][v] # NoEntry =>
                   \/ entry'[a][v] # NoEntry
                   \/ f.type = "answer" /\ f.from = v /\ entry[a][v].phase # "offered"
<1>k. \A v : ViewerJoined(v).type = "viewer-joined" /\ ViewerLeft(v).type = "viewer-left"
             /\ ViewerJoined(v).viewer = v /\ ViewerLeft(v).viewer = v
  BY DEF ViewerJoined, ViewerLeft
<1>2. ASSUME /\ f.type = "viewer-joined" /\ sh[a].managing /\ entry[a][f.viewer] = NoEntry
             /\ AddViewer(a, f.viewer)
      PROVE  Fine
  <2>1. PICK w \in Sessions : w = f.viewer
    BY <1>2, DownFrameHas
  <2>2. f = ViewerJoined(w)
    BY <1>2, <2>1 DEF DownFrames, Signals, ViewerJoined
  <2>3. PICK e : e = Offering(sh[a].made + 1)
    OBVIOUS
  <2>4. e # NoEntry
    BY <2>3 DEF Offering, NoEntry
  <2>5. entry' = [entry EXCEPT ![a] = [entry[a] EXCEPT ![w] = e]]
    BY <1>0, <1>2, <2>1, <2>3 DEF AddViewer
  <2>6. \A v \in Sessions : entry'[a][v] = IF v = w THEN e ELSE entry[a][v]
    BY <1>0, <2>5
  <2>7. sh'[a].managing = sh[a].managing /\ sh'[a].room = sh[a].room
    <3>1. PICK k : k = sh[a].made + 1
      OBVIOUS
    <3>2. sh'[a] = [sh[a] EXCEPT !.made = k]
      BY <1>0, <1>2, <3>1 DEF AddViewer
    <3> QED
      BY <1>0, <3>2 DEF Managers
  <2>8. \A v : f # ViewerLeft(v)
    BY <1>2, <1>k
  <2>9. \A v : f = ViewerJoined(v) => v = w
    BY <1>k, <2>1
  <2> QED
    BY <2>2, <2>4, <2>6, <2>7, <2>8, <2>9
<1>3. ASSUME f.type = "viewer-left", RemoveViewer(a, f.viewer), UNCHANGED sh
      PROVE  Fine
  <2>1. PICK w \in Sessions : w = f.viewer
    BY <1>3, DownFrameHas
  <2>2. f = ViewerLeft(w)
    BY <1>3, <2>1 DEF DownFrames, Signals, ViewerLeft
  <2>3. entry' = [entry EXCEPT ![a] = [entry[a] EXCEPT ![w] = NoEntry]]
    BY <1>0, <1>3, <2>1 DEF RemoveViewer
  <2>4. \A v \in Sessions : entry'[a][v] = IF v = w THEN NoEntry ELSE entry[a][v]
    BY <1>0, <2>3
  <2>5. \A v : f # ViewerJoined(v) /\ (f = ViewerLeft(v) => v = w)
    BY <1>3, <1>k, <2>1
  <2> QED
    BY <1>3, <2>2, <2>4, <2>5
<1>4. ASSUME f.type = "answer", UNCHANGED sh, NEW e \in AfterAnswer(entry[a][f.from], f, 1),
             entry' = [entry EXCEPT ![a][f.from] = e]
      PROVE  Fine
  <2>1. PICK w \in Sessions : w = f.from
    BY <1>4, DownFrameHas
  <2>2. \A v : f # ViewerJoined(v) /\ f # ViewerLeft(v)
    BY <1>4, <1>k
  <2>3. \A v \in Sessions : entry'[a][v] = IF v = w THEN e ELSE entry[a][v]
    BY <1>0, <1>4, <2>1
  <2>4. entry[a][w] \in Entries /\ e \in AfterAnswer(entry[a][w], f, 1)
    BY <1>0, <1>4, <2>1
  <2>5. entry[a][w] = NoEntry => e = NoEntry
    BY <2>4 DEF AfterAnswer, NoEntry
  <2>6. entry[a][w].phase = "offered" => e # NoEntry
    <3> SUFFICES ASSUME entry[a][w].phase = "offered" PROVE e # NoEntry
      OBVIOUS
    <3>1. PICK k : k = entry[a][w]
      OBVIOUS
    <3>2. e = [[k EXCEPT !.of = f.conn, !.by = f.by] EXCEPT !.phase = "answered"]
      BY <2>4, <3>1 DEF AfterAnswer
    <3>3. e.phase = "answered"
      BY <2>4, <3>1, <3>2 DEF Entries
    <3> QED
      BY <3>3 DEF NoEntry
  <2> QED
    BY <1>4, <2>1, <2>2, <2>3, <2>5, <2>6
<1>5. ASSUME f.type = "error", sh' = [sh EXCEPT ![a].state = "error"], UNCHANGED entry
      PROVE  Fine
  <2>1. sh'[a] = [sh[a] EXCEPT !.state = "error"]
    BY <1>0, <1>5
  <2>2. sh'[a].managing = sh[a].managing /\ sh'[a].room = sh[a].room
    BY <1>0, <2>1 DEF Managers
  <2>3. \A v : f # ViewerJoined(v) /\ f # ViewerLeft(v)
    BY <1>5, <1>k
  <2> QED
    BY <1>5, <2>2, <2>3
<1>6. ASSUME f.type # "viewer-left", UNCHANGED <<sh, entry>>,
             f.type = "viewer-joined" => ~(sh[a].managing /\ entry[a][f.viewer] = NoEntry)
      PROVE  Fine
  <2>1. \A v : f # ViewerLeft(v) /\ (f = ViewerJoined(v) => f.type = "viewer-joined" /\ f.viewer = v)
    BY <1>6, <1>k
  <2> QED
    BY <1>6, <2>1
<1> HIDE DEF Fine
<1>7. Fine
  BY <1>0, <1>1, <1>2, <1>3, <1>4, <1>5, <1>6 DEF SharingHears
<1> QED
  BY <1>7 DEF Fine

(***************************************************************************)
(* The room a sharer has, or will have once it has handled the i-th frame  *)
(* that comes, and who will have a connection once it has handled all.     *)
(***************************************************************************)
RoomStart(a, r, i) ==
  /\ \A j \in i + 1 .. Len(down[a]) : down[a][j].type # "room-created"
  /\ i = 0 => sh[a].managing /\ sh[a].room = r
  /\ i # 0 => down[a][i] = RoomCreated(r)
Present(a, i, v) == Expected(down[a], i, v, entry[a][v] # NoEntry)
PresentLater(a, i, v) == Expected(down'[a], i, v, entry'[a][v] # NoEntry)
Calmly(b) == Spared({b}, {"connection fails", "quick rejoin"})

\* What a step that tells a sharer m does to who will have a connection.
Presences(a, i, j, m) ==
  /\ \A v \in Sessions : /\ PresentLater(a, j, v) => Present(a, i, v) \/ m = ViewerJoined(v)
                         /\ m = ViewerJoined(v) => PresentLater(a, j, v)
                         /\ m = ViewerLeft(v) => ~PresentLater(a, j, v)
  /\ \A b \in CanWatch : Calmly(b)' /\ Present(a, i, sess[b]) =>
                           PresentLater(a, j, sess[b]) \/ m = ViewerLeft(sess[b])

LEMMA RecordedOfAll ==
  ASSUME NEW who, NEW ms, NEW ns, NEW m, NEW b \in who, MishapsAllowed(who, ms), m \in ms, m \in ns
  PROVE  ~Spared({b}, ns)'
<1>1. <<m, b>> \in ms \X who /\ <<m, b>> \in ns \X {b}
  OBVIOUS
<1>2. <<m, b>> \in happened'
  BY <1>1 DEF MishapsAllowed
<1> QED
  BY <1>1, <1>2 DEF Spared

LEMMA FailsWhy ==
  ASSUME NEW a \in CanShare, NEW b \in CanWatch, Calmly(b)', Fails(a, sess[b])
  PROVE  FALSE
<1> DEFINE who == {x \in Apps : sess[x] = sess[b]}
<1>1. b \in who
  BY WatchersAssumption
<1>2. MishapsAllowed(who, {"connection fails"})
  BY Zenon DEF Fails, ConnectionFails
<1>3. "connection fails" \in {"connection fails"} /\ "connection fails" \in {"connection fails", "quick rejoin"}
  BY Zenon
<1> HIDE DEF who
<1> QED
  BY <1>1, <1>2, <1>3, RecordedOfAll, Zenon DEF Calmly

LEMMA CalmlyIs == ASSUME NEW b, Calmly(b) PROVE Calm(b)
<1>1. {"quick rejoin"} \subseteq {"connection fails", "quick rejoin"}
  BY Zenon
<1> QED
  BY <1>1, SparedSome, Zenon DEF Calmly, Calm

\* One that is given m goes on with its room.
LEMMA GivenStart ==
  ASSUME Typed, Next, NEW a \in CanShare, InOrder(a), Steady(a)', sh[a].stream # 0, sh'[a].stream # 0,
         ~Receive(a), NEW m, IsGiven(a, m), NEW r, NEW i \in 0 .. Len(down[a]), RoomStart(a, r, i)
  PROVE  i \in 0 .. Len(down'[a]) /\ RoomStart(a, r, i)' /\ Presences(a, i, i, m)
<1>0. a \in Apps /\ down[a] \in Seq(DownFrames) /\ down \in [Apps -> Seq(DownFrames)] /\ TableTypes
  BY TypedIs, SharersAssumption DEF FrameTypes
<1>1. /\ sh'[a].managing = sh[a].managing /\ sh'[a].room = sh[a].room
      /\ \A v \in Sessions : /\ entry'[a][v] # NoEntry => entry[a][v] # NoEntry
                             /\ entry[a][v] # NoEntry => entry'[a][v] # NoEntry \/ Fails(a, v)
  BY SharerGoes
<1>2. PICK q, p : q = down[a] /\ p = down'[a]
  OBVIOUS
<1>3. q \in Seq(DownFrames) /\ Len(q) \in Nat /\ i \in 0 .. Len(q)
      /\ ((p = q /\ m = Silence) \/ (m \in DownFrames /\ m.type # "room-created" /\ p = q \o <<m>>))
  BY <1>0, <1>2 DEF IsGiven
<1>4. i \in 0 .. Len(p) /\ \A j \in 1 .. Len(p) : p[j] = IF j \in 1 .. Len(q) THEN q[j] ELSE m
  <2>1. CASE p = q
    BY <1>3, <2>1
  <2>2. CASE m \in DownFrames /\ p = q \o <<m>>
    <3>1. Len(p) = Len(q) + 1
      BY <1>3, <2>2
    <3>2. \A j \in 1 .. Len(q) + 1 : p[j] = IF j \in 1 .. Len(q) THEN q[j] ELSE m
      BY <1>3, <2>2
    <3> QED
      BY <1>3, <3>1, <3>2
  <2> QED
    BY <1>3, <2>1, <2>2
<1>5. RoomStart(a, r, i)'
  <2>1. \A j \in i + 1 .. Len(p) : p[j].type # "room-created"
    <3>1. \A j \in i + 1 .. Len(q) : q[j].type # "room-created"
      BY <1>2 DEF RoomStart
    <3>2. CASE p = q
      BY <3>1, <3>2
    <3>3. CASE m.type # "room-created"
      BY <1>3, <1>4, <3>1, <3>3
    <3> QED
      BY <1>3, <3>2, <3>3
  <2>2. i # 0 => p[i] = RoomCreated(r)
    BY <1>2, <1>3, <1>4 DEF RoomStart
  <2>3. i = 0 => sh'[a].managing /\ sh'[a].room = r
    BY <1>1 DEF RoomStart
  <2> QED
    BY <1>2, <2>1, <2>2, <2>3 DEF RoomStart
<1>6. \A v, e : Expected(p, i, v, e) <=> m = ViewerJoined(v) \/ (Expected(q, i, v, e) /\ m # ViewerLeft(v))
  <2>1. CASE p = q /\ m = Silence
    BY <2>1, TellingFrames
  <2>2. CASE m \in DownFrames /\ p = q \o <<m>>
    BY <1>3, <2>2, ExpectedGrows
  <2> QED
    BY <1>3, <2>1, <2>2
<1>7. Presences(a, i, i, m)
  <2>1. ASSUME NEW v \in Sessions
        PROVE  /\ PresentLater(a, i, v) => Present(a, i, v) \/ m = ViewerJoined(v)
               /\ m = ViewerJoined(v) => PresentLater(a, i, v)
               /\ m = ViewerLeft(v) => ~PresentLater(a, i, v)
               /\ Present(a, i, v) => PresentLater(a, i, v) \/ m = ViewerLeft(v) \/ Fails(a, v)
    <3>1. PICK e \in BOOLEAN, e1 \in BOOLEAN : (e <=> entry[a][v] # NoEntry) /\ (e1 <=> entry'[a][v] # NoEntry)
      OBVIOUS
    <3>2. (e1 => e) /\ (e => e1 \/ Fails(a, v))
      BY <1>1, <3>1
    <3>3. Present(a, i, v) <=> Expected(q, i, v, e)
      BY <1>2, <3>1 DEF Present, Expected
    <3>4. PresentLater(a, i, v) <=> Expected(p, i, v, e1)
      BY <1>2, <3>1 DEF PresentLater, Expected
    <3>5. Expected(p, i, v, e1) <=> m = ViewerJoined(v) \/ (Expected(q, i, v, e1) /\ m # ViewerLeft(v))
      BY <1>6
    <3>6. Expected(q, i, v, e1) => Expected(q, i, v, e)
      BY <3>2 DEF Expected
    <3>7. Expected(q, i, v, e) => Expected(q, i, v, e1) \/ Fails(a, v)
      BY <3>2 DEF Expected
    <3>8. ViewerJoined(v) # ViewerLeft(v)
      BY JoinedIsNotLeft
    <3> QED
      BY <3>3, <3>4, <3>5, <3>6, <3>7, <3>8
  <2>2. ASSUME NEW b \in CanWatch, Calmly(b)', Present(a, i, sess[b])
        PROVE  PresentLater(a, i, sess[b]) \/ m = ViewerLeft(sess[b])
    <3>1. sess[b] \in Sessions
      BY <1>0, WatchersAssumption DEF TableTypes
    <3> QED
      BY <2>1, <2>2, <3>1, FailsWhy
  <2> QED
    BY <2>1, <2>2 DEF Presences
<1> QED
  BY <1>2, <1>4, <1>5, <1>7

\* One that handles a frame goes on with its room.
LEMMA HeardStart ==
  ASSUME Typed, MeetInv, RoundInv, Next, NEW a \in CanShare, InOrder(a), sh[a].stream # 0, Receive(a),
         NEW r, NEW i \in 0 .. Len(down[a]), RoomStart(a, r, i)
  PROVE  \E j \in 0 .. Len(down'[a]) : RoomStart(a, r, j)' /\ Presences(a, i, j, Silence)
<1>0. a \in Apps /\ down[a] \in Seq(DownFrames) /\ down \in [Apps -> Seq(DownFrames)] /\ TableTypes
      /\ down[a] # <<>> /\ FrameTypes /\ happened \subseteq happened'
  BY TypedIs, SharersAssumption, MishapsStay DEF FrameTypes, Receive
<1>2. PICK q, p : q = down[a] /\ p = down'[a]
  OBVIOUS
<1>3. /\ q \in Seq(DownFrames) /\ q # <<>> /\ p = Tail(q) /\ p \in Seq(DownFrames)
      /\ Len(q) \in Nat \ {0} /\ i \in 0 .. Len(q) /\ Len(p) = Len(q) - 1
      /\ \A j \in 1 .. Len(p) : p[j] = q[j + 1]
  <2>1. p = Tail(q) /\ q \in Seq(DownFrames) /\ q # <<>>
    BY <1>0, <1>2 DEF Receive
  <2> QED
    BY <1>2, <2>1
<1>f. PICK f \in DownFrames : f = Head(q) /\ f = q[1]
  BY <1>3
<1>4. PICK j : j = IF i = 0 THEN 0 ELSE i - 1
  OBVIOUS
<1>5. j \in 0 .. Len(p) /\ (j = 0 <=> i \in {0, 1}) /\ (i # 0 => i = j + 1)
  BY <1>3, <1>4
<1>6. /\ \A k \in i + 1 .. Len(q) : q[k].type # "room-created"
      /\ i = 0 => sh[a].managing /\ sh[a].room = r
      /\ i # 0 => q[i] = RoomCreated(r)
  BY <1>2 DEF RoomStart
<1>7. i = 1 => f.type = "room-created" /\ f.room = r
  BY <1>6, <1>f DEF RoomCreated
<1>8. i = 0 => f.type # "room-created"
  BY <1>3, <1>6, <1>f
<1>9. RoomStart(a, r, j)'
  <2>1. \A k \in j + 1 .. Len(p) : p[k].type # "room-created"
    <3>1. ASSUME NEW k \in j + 1 .. Len(p) PROVE p[k] = q[k + 1] /\ k + 1 \in i + 1 .. Len(q)
      BY <1>3, <1>4, <3>1
    <3> QED
      BY <1>6, <3>1
  <2>2. j # 0 => p[j] = RoomCreated(r)
    BY <1>3, <1>5, <1>6
  <2>3. j = 0 => sh'[a].managing /\ sh'[a].room = r
    <3>1. CASE i = 0
      BY <1>2, <1>6, <1>8, <1>f, <3>1, OtherHeard
    <3>2. CASE i = 1
      BY <1>2, <1>7, <1>f, <3>2, RoomHeard
    <3> QED
      BY <1>5, <3>1, <3>2
  <2> QED
    BY <1>2, <2>1, <2>2, <2>3 DEF RoomStart
<1>10. \A v : Silence # ViewerJoined(v) /\ Silence # ViewerLeft(v)
  BY TellingFrames
<1>11. ASSUME NEW v \in Sessions
       PROVE  /\ PresentLater(a, j, v) => Present(a, i, v)
              /\ Present(a, i, v) => \/ PresentLater(a, j, v)
                                     \/ /\ i = 0 /\ entry[a][v] # NoEntry /\ entry[a][v].phase # "offered"
                                        /\ f.type = "answer" /\ f.from = v
  <2>1. PICK e \in BOOLEAN, e1 \in BOOLEAN : (e <=> entry[a][v] # NoEntry) /\ (e1 <=> entry'[a][v] # NoEntry)
    OBVIOUS
  <2>2. Present(a, i, v) <=> Expected(q, i, v, e)
    BY <1>2, <2>1 DEF Present, Expected
  <2>3. PresentLater(a, j, v) <=> Expected(p, j, v, e1)
    BY <1>2, <2>1 DEF PresentLater, Expected
  <2>4. /\ \A k \in 2 .. Len(q) : Expected(Tail(q), k - 1, v, e1) <=> Expected(q, k, v, e)
        /\ ~e1 => (Expected(Tail(q), 0, v, e1) <=> Expected(q, 1, v, e))
        /\ (e1 => Head(q) = ViewerJoined(v) \/ (e /\ Head(q) # ViewerLeft(v)))
             => (Expected(Tail(q), 0, v, e1) => Expected(q, 0, v, e))
        /\ (Head(q) = ViewerJoined(v) \/ (e /\ Head(q) # ViewerLeft(v)) => e1)
             => (Expected(q, 0, v, e) => Expected(Tail(q), 0, v, e1))
    BY <1>3, ExpectedShrinks
  <2>5. CASE i \in 2 .. Len(q)
    <3>1. j = i - 1
      BY <1>4, <2>5
    <3> QED
      BY <1>3, <2>2, <2>3, <2>4, <2>5, <3>1
  <2>6. CASE i = 1
    <3>1. entry'[a][v] = NoEntry
      BY <1>2, <1>7, <1>f, <2>6, RoomHeard
    <3>2. ~e1 /\ j = 0
      BY <1>4, <2>1, <2>6, <3>1
    <3> QED
      BY <1>3, <2>2, <2>3, <2>4, <2>6, <3>2
  <2>7. CASE i = 0
    <3>1. /\ entry'[a][v] # NoEntry => f = ViewerJoined(v) \/ (entry[a][v] # NoEntry /\ f # ViewerLeft(v))
          /\ f = ViewerJoined(v) /\ sh[a].managing => entry'[a][v] # NoEntry
          /\ f # ViewerLeft(v) /\ entry[a][v] # NoEntry =>
               \/ entry'[a][v] # NoEntry
               \/ f.type = "answer" /\ f.from = v /\ entry[a][v].phase # "offered"
      BY <1>2, <1>8, <1>f, <2>7, OtherHeard
    <3>2. e1 => f = ViewerJoined(v) \/ (e /\ f # ViewerLeft(v))
      BY <2>1, <3>1
    <3>3. \/ f = ViewerJoined(v) \/ (e /\ f # ViewerLeft(v)) => e1
          \/ /\ entry[a][v] # NoEntry /\ entry[a][v].phase # "offered"
             /\ f.type = "answer" /\ f.from = v
      BY <1>6, <2>1, <2>7, <3>1
    <3>4. j = 0 /\ Head(q) = f
      BY <1>4, <1>f, <2>7
    <3> QED
      BY <1>3, <2>2, <2>3, <2>4, <2>7, <3>2, <3>3, <3>4
  <2> QED
    BY <1>3, <2>5, <2>6, <2>7
<1>12. ASSUME NEW b \in CanWatch, Calmly(b)', Present(a, i, sess[b])
       PROVE  PresentLater(a, j, sess[b])
  <2>1. Calm(b) /\ sess[b] \in Sessions
    BY <1>0, <1>12, SparedBefore, CalmlyIs, WatchersAssumption DEF Calmly, TableTypes
  <2>2. f.type = "answer" /\ f.from = sess[b] /\ entry[a][sess[b]] # NoEntry =>
          entry[a][sess[b]].phase = "offered"
    BY <1>0, <1>2, <1>f, <2>1, AnswerInPhase
  <2> QED
    BY <1>11, <1>12, <2>1, <2>2
<1>13. Presences(a, i, j, Silence)
  BY <1>10, <1>11, <1>12 DEF Presences
<1>14. j \in 0 .. Len(down'[a])
  BY <1>2, <1>5
<1> QED
  BY <1>9, <1>13, <1>14

(***************************************************************************)
(* A step of a sharer that has a stream and keeps it, and of its room.     *)
(***************************************************************************)
LEMMA HostGoes ==
  ASSUME Typed, SessionsInv, MeetInv, RoundInv, Next, NEW a \in CanShare, InOrder(a), Steady(a)',
         sh[a].stream # 0, sh'[a].stream # 0,
         NEW s \in Sessions, s = sess[a], online[a], online'[a], s \notin gone,
         NEW r \in RoomIds, sharerId[r] = s, Indexed(s), Serve(a) => Head(up[a]).type = "signal",
         NEW i \in 0 .. Len(down[a]), RoomStart(a, r, i)
  PROVE  \E m : \E j \in 0 .. Len(down'[a]) : SeenBy(s, r, m) /\ RoomStart(a, r, j)' /\ Presences(a, i, j, m)
<1>0. a \in Apps
  BY SharersAssumption
<1>1. CASE Receive(a)
  <2>1. PICK j \in 0 .. Len(down'[a]) : RoomStart(a, r, j)' /\ Presences(a, i, j, Silence)
    BY <1>1, HeardStart
  <2>2. UNCHANGED rmVars
    BY <1>1 DEF Receive
  <2>3. SeenBy(s, r, Silence)
    BY <2>2, SeenNothing, TellingFrames
  <2>4. \E j1 \in 0 .. Len(down'[a]) :
          SeenBy(s, r, Silence) /\ RoomStart(a, r, j1)' /\ Presences(a, i, j1, Silence)
    BY <2>1, <2>3
  <2> QED
    BY <2>4
<1>2. CASE ~Receive(a)
  <2>1. PICK m : SeenBy(s, r, m) /\ IsGiven(a, m)
    BY <1>0, <1>2, HostMoves
  <2>2. i \in 0 .. Len(down'[a]) /\ RoomStart(a, r, i)' /\ Presences(a, i, i, m)
    BY <1>2, <2>1, GivenStart
  <2> QED
    BY <2>1, <2>2
<1> QED
  BY <1>1, <1>2

\* Who has the name v, or may have had it, never shares and watches at once.
Alone(v) == Spared(Bearers(v), {"both roles"})
LEMMA SparedOne ==
  ASSUME NEW who, NEW ms, Spared(who, ms), NEW x \in who
  PROVE  Spared({x}, ms)
BY DEF Spared

LEMMA SparedAll ==
  ASSUME NEW who, NEW ms, \A x \in who : Spared({x}, ms)
  PROVE  Spared(who, ms)
<1> SUFFICES ASSUME NEW x \in who, NEW m \in ms, <<m, x>> \in happened PROVE FALSE
  BY DEF Spared
<1>1. Spared({x}, ms)
  OBVIOUS
<1>2. <<m, x>> \in ms \X {x}
  OBVIOUS
<1> QED
  BY <1>1, <1>2 DEF Spared

LEMMA AloneIs ==
  ASSUME NEW v, Alone(v), NEW x \in Bearers(v)
  PROVE  OneRole(x)
BY SparedOne, Zenon DEF Alone, OneRole

LEMMA BearersStay ==
  ASSUME Typed, SessionsInv, IndoorsInv, Next, NEW v \in used, NEW x \in Bearers(v)
  PROVE  x \in Bearers(v)'
<1>0. /\ sess \in [Apps -> Sessions] /\ online \in [Apps -> BOOLEAN] /\ happened \subseteq happened'
      /\ x \in Apps
  BY TypedIs, MishapsStay DEF TableTypes, Bearers
<1>d. \A b : ~Spared({b}, {"drop"}) => ~Spared({b}, {"drop"})'
  BY <1>0, SparedBefore
<1>1. CASE UNCHANGED sess
  <2>1. CASE {b \in Apps : sess[b] = v} # {}
    <3>1. {b \in Apps : sess'[b] = v} = {b \in Apps : sess[b] = v}
      BY <1>1
    <3> QED
      BY <2>1, <3>1 DEF Bearers
  <2>2. CASE {b \in Apps : sess[b] = v} = {}
    <3>1. {b \in Apps : sess'[b] = v} = {}
      BY <1>1, <2>2
    <3>2. ~Spared({x}, {"drop"})
      BY <2>2 DEF Bearers
    <3> QED
      BY <1>0, <1>d, <3>1, <3>2 DEF Bearers
  <2> QED
    BY <2>1, <2>2
<1>2. ASSUME NEW y \in Apps, NEW s \in Sessions, ~online[y], s \notin used, sess' = [sess EXCEPT ![y] = s]
      PROVE  x \in Bearers(v)'
  <2>1. \A b \in Apps : sess'[b] = v <=> sess[b] = v /\ b # y
    BY <1>0, <1>2
  <2>2. CASE {b \in Apps : sess[b] = v} = {}
    <3>1. {b \in Apps : sess'[b] = v} = {}
      BY <2>1, <2>2
    <3>2. ~Spared({x}, {"drop"})
      BY <2>2 DEF Bearers
    <3> QED
      BY <1>0, <1>d, <3>1, <3>2 DEF Bearers
  <2>3. CASE {b \in Apps : sess[b] = v} # {}
    <3>1. sess[x] = v
      BY <2>3 DEF Bearers
    <3>2. CASE x = y
      <4>1. \A b \in Apps : sess[b] = v => b = y
        BY <3>1, <3>2 DEF SessionsInv
      <4>2. {b \in Apps : sess'[b] = v} = {}
        BY <2>1, <4>1
      <4>3. ~Spared({x}, {"drop"})
        BY <1>2, <3>2 DEF IndoorsInv, Indoors, Dropless
      <4> QED
        BY <1>0, <1>d, <4>2, <4>3 DEF Bearers
    <3>3. CASE x # y
      <4>1. sess'[x] = v
        BY <1>0, <2>1, <3>1, <3>3
      <4> QED
        BY <1>0, <4>1 DEF Bearers
    <3> QED
      BY <3>2, <3>3
  <2> QED
    BY <2>2, <2>3
<1> QED
  BY <1>1, <1>2, SessionsMove

LEMMA AloneBefore ==
  ASSUME Typed, SessionsInv, IndoorsInv, Next, NEW v \in used, Alone(v)'
  PROVE  Alone(v)
<1>1. PICK w : w = Bearers(v)'
  OBVIOUS
<1>2. Spared(w, {"both roles"})'
  BY <1>1, Zenon DEF Alone, Spared
<1>3. Spared(w, {"both roles"})
  BY <1>2, MishapsStay, SparedBefore
<1>4. \A x \in Bearers(v) : Spared({x}, {"both roles"})
  <2> SUFFICES ASSUME NEW x \in Bearers(v) PROVE Spared({x}, {"both roles"})
    OBVIOUS
  <2>1. x \in w
    BY <1>1, BearersStay
  <2> QED
    BY <1>3, <2>1, SparedOne, Zenon
<1> QED
  BY <1>4, SparedAll, Zenon DEF Alone

\* Who never has two roles loses no seat unsaid.
LEMMA NotOusted ==
  ASSUME Typed, SeatInv, NEW v, Alone(v)
  PROVE  ~Ousted(v)
<1> SUFFICES ASSUME NEW x \in Apps, sess[x] = v, Serve(x), Head(up[x]).type = "create-room", ~Unseated(v)
             PROVE  FALSE
  BY DEF Ousted
<1>1. x \in Bearers(v)
  BY DEF Bearers
<1>2. UnseatedCreates(x)
  BY <1>1, AloneIs DEF SeatInv
<1>3. up[x] # <<>> /\ up[x] \in Seq(UpFrames)
  BY TypedIs, ServePushes, HeadOfUp
<1>4. PICK q : q = up[x]
  OBVIOUS
<1>5. 1 \in 1 .. Len(q) /\ q[1] = Head(q)
  BY <1>3, <1>4
<1>6. Unseats(x, 1)
  BY <1>2, <1>4, <1>5 DEF UnseatedCreates
<1>7. ~LeftBy(q, 1, "join-room")
  BY NothingBefore
<1> QED
  BY <1>4, <1>6, <1>7 DEF Unseats, Out

(***************************************************************************)
(* Who will have a connection is in the room, and who is in the room will  *)
(* have one; the first is not said of those that shared and watched at     *)
(* once, the second not of those that a mishap befell.                     *)
(***************************************************************************)
Follows(a, r, i) ==
  /\ \A v \in Sessions : v \notin viewers[r] /\ Alone(v) => ~Present(a, i, v)
  /\ \A b \in CanWatch : sess[b] \in viewers[r] /\ Calmly(b) => Present(a, i, sess[b])

LEMMA FollowsStep ==
  ASSUME Typed, SessionsInv, NamesInv, TablesInUse, IndoorsInv, SeatInv, Next,
         NEW a \in CanShare, NEW s \in Sessions, NEW r \in RoomIds, NEW i \in 0 .. Len(down[a]), Follows(a, r, i),
         NEW j \in 0 .. Len(down'[a]), NEW m, SeenBy(s, r, m), Presences(a, i, j, m)
  PROVE  Follows(a, r, j)'
<1>0. /\ a \in Apps /\ down[a] \in Seq(DownFrames) /\ sess \in [Apps -> Sessions]
      /\ \A b \in CanWatch : b \in Apps
  BY TypedIs, SharersAssumption, WatchersAssumption DEF FrameTypes, TableTypes
<1>1. \A v : Present(a, j, v)' <=> PresentLater(a, j, v)
  BY DEF Present, PresentLater, Expected, Arrives, Parts
<1>2. ASSUME NEW v \in Sessions, v \notin viewers'[r], Alone(v)', PresentLater(a, j, v) PROVE FALSE
  <2>1. Present(a, i, v) /\ m # ViewerJoined(v) /\ m # ViewerLeft(v)
    BY <1>2 DEF Presences, SeenBy
  <2>2. v \in used
    <3>1. Has(down[a], ViewerJoined(v)) \/ entry[a][v] # NoEntry
      BY <1>0, <2>1, ExpectedNamed DEF Present
    <3> QED
      BY <1>0, <3>1 DEF NamesInv, NamedInUse
  <2>3. Alone(v)
    BY <1>2, <2>2, AloneBefore
  <2>4. v \in viewers[r]
    BY <2>1, <2>3 DEF Follows
  <2>5. Ousted(v)
    BY <1>2, <2>1, <2>4 DEF SeenBy
  <2> QED
    BY <2>3, <2>5, NotOusted
<1>3. ASSUME NEW b \in CanWatch, sess'[b] \in viewers'[r], Calmly(b)' PROVE PresentLater(a, j, sess'[b])
  <2>1. sess'[b] = sess[b]
    <3>1. CASE UNCHANGED sess
      BY <3>1
    <3>2. ASSUME NEW x \in Apps, NEW t \in Sessions, t \notin used, sess' = [sess EXCEPT ![x] = t], UNCHANGED rmVars
          PROVE  sess'[b] = sess[b]
      <4>1. t \notin viewers'[r]
        BY <3>2 DEF TablesInUse, rmVars
      <4> QED
        BY <1>0, <1>3, <3>2, <4>1
    <3> QED
      BY <3>1, <3>2, SessionsMove
  <2>2. PICK v \in Sessions : v = sess[b]
    BY <1>0
  <2>3. v \in viewers'[r]
    BY <1>3, <2>1, <2>2
  <2>4. CASE v \notin viewers[r]
    <3>1. m = ViewerJoined(v)
      BY <2>3, <2>4 DEF SeenBy
    <3> QED
      BY <2>1, <2>2, <3>1 DEF Presences
  <2>5. CASE v \in viewers[r]
    <3>1. Calmly(b)
      BY <1>3, MishapsStay, SparedBefore DEF Calmly
    <3>2. Present(a, i, v)
      BY <2>2, <2>5, <3>1 DEF Follows
    <3>3. m # ViewerLeft(v)
      BY <2>3 DEF SeenBy
    <3> QED
      BY <1>3, <2>1, <2>2, <3>2, <3>3 DEF Presences
  <2> QED
    BY <2>4, <2>5
<1>4. ASSUME NEW v \in Sessions, v \notin viewers'[r], Alone(v)' PROVE ~Present(a, j, v)'
  BY <1>1, <1>2, <1>4
<1>5. ASSUME NEW b \in CanWatch, sess'[b] \in viewers'[r], Calmly(b)' PROVE Present(a, j, sess[b])'
  <2>1. PICK v : v = sess'[b]
    OBVIOUS
  <2>2. Present(a, j, v)'
    BY <1>1, <1>3, <1>5, <2>1
  <2> QED
    BY <2>1, <2>2 DEF Present
<1> QED
  BY <1>4, <1>5 DEF Follows

\* After position i there are only signals; the last that is none asks for a room.
OnlySignals(q, i) == \A j \in i + 1 .. Len(q) : q[j].type = "signal"
AsksForRoom(q) == \E i \in 1 .. Len(q) : q[i].type = "create-room" /\ OnlySignals(q, i)

LEMMA SignalsFollow ==
  ASSUME NEW S, NEW q \in Seq(S), NEW x \in S, x.type = "signal",
         NEW r, r = q \o <<x>> \/ r = q \o <<x, x>>
  PROVE  /\ AsksForRoom(q) => AsksForRoom(r)
         /\ OnlySignals(q, 0) => OnlySignals(r, 0)
<1>1. Len(r) >= Len(q) /\ Len(q) \in Nat /\ Len(r) \in Nat
      /\ \A i \in 1 .. Len(r) : r[i] = IF i \in 1 .. Len(q) THEN q[i] ELSE x
  <2>1. CASE r = q \o <<x>>
    <3>1. Len(r) = Len(q) + 1 /\ \A i \in 1 .. Len(q) + 1 : r[i] = IF i \in 1 .. Len(q) THEN q[i] ELSE x
      BY <2>1
    <3> QED
      BY <3>1
  <2>2. CASE r = q \o <<x, x>>
    <3>1. Len(r) = Len(q) + 2 /\ \A i \in 1 .. Len(q) + 2 : r[i] = IF i \in 1 .. Len(q) THEN q[i] ELSE x
      BY <2>2
    <3> QED
      BY <3>1
  <2> QED
    BY <2>1, <2>2
<1>2. \A i \in 0 .. Len(q) : OnlySignals(q, i) => OnlySignals(r, i)
  BY <1>1 DEF OnlySignals
<1>3. OnlySignals(q, 0) => OnlySignals(r, 0)
  BY <1>1, <1>2
<1>4. ASSUME AsksForRoom(q) PROVE AsksForRoom(r)
  <2>1. PICK i \in 1 .. Len(q) : q[i].type = "create-room" /\ OnlySignals(q, i)
    BY <1>4 DEF AsksForRoom
  <2>2. i \in 1 .. Len(r) /\ r[i] = q[i] /\ OnlySignals(r, i)
    BY <1>1, <1>2, <2>1
  <2> QED
    BY <2>1, <2>2 DEF AsksForRoom
<1> QED
  BY <1>3, <1>4

LEMMA SignalsServed ==
  ASSUME NEW S, NEW q \in Seq(S), q # <<>>
  PROVE  /\ OnlySignals(q, 0) => Head(q).type = "signal" /\ OnlySignals(Tail(q), 0)
         /\ AsksForRoom(q) => \/ AsksForRoom(Tail(q))
                              \/ Head(q).type = "create-room" /\ OnlySignals(Tail(q), 0)
<1>1. /\ Len(q) \in Nat \ {0} /\ Len(Tail(q)) = Len(q) - 1 /\ Head(q) = q[1]
      /\ \A i \in 1 .. Len(Tail(q)) : Tail(q)[i] = q[i + 1]
  OBVIOUS
<1>2. ASSUME NEW i \in 1 .. Len(q), OnlySignals(q, i) PROVE OnlySignals(Tail(q), i - 1)
  <2> SUFFICES ASSUME NEW j \in (i - 1) + 1 .. Len(Tail(q)) PROVE Tail(q)[j].type = "signal"
    BY DEF OnlySignals
  <2>1. j + 1 \in i + 1 .. Len(q) /\ j \in 1 .. Len(Tail(q))
    BY <1>1
  <2> QED
    BY <1>1, <1>2, <2>1 DEF OnlySignals
<1>3. OnlySignals(q, 0) => Head(q).type = "signal" /\ OnlySignals(q, 1)
  BY <1>1 DEF OnlySignals
<1>4. ASSUME NEW i \in 1 .. Len(q), q[i].type = "create-room", OnlySignals(q, i)
      PROVE  AsksForRoom(Tail(q)) \/ (Head(q).type = "create-room" /\ OnlySignals(Tail(q), 0))
  <2>1. CASE i = 1
    BY <1>1, <1>2, <1>4, <2>1
  <2>2. CASE i # 1
    <3>1. i - 1 \in 1 .. Len(Tail(q)) /\ Tail(q)[i - 1] = q[i]
      BY <1>1, <2>2
    <3> QED
      BY <1>2, <1>4, <3>1 DEF AsksForRoom
  <2> QED
    BY <2>1, <2>2
<1>5. 1 \in 1 .. Len(q) /\ 1 - 1 = 0
  BY <1>1
<1>6. OnlySignals(q, 1) => OnlySignals(Tail(q), 0)
  BY <1>2, <1>5
<1> QED
  BY <1>3, <1>4, <1>6 DEF AsksForRoom

\* A stream comes to be held when a room is asked for.
LEMMA StreamBegins ==
  ASSUME Typed, Next, NEW a \in CanShare, online[a], sh[a].stream = 0, sh'[a].stream # 0
  PROVE  up'[a] = up[a] \o <<Plain("create-room")>>
<1>0. /\ TableTypes /\ FrameTypes /\ SharersTyped /\ SharingTypeOK /\ ViewersTyped /\ a \in Apps
      /\ sh[a] \in Managers /\ sh \in [CanShare -> Managers] /\ up \in [Apps -> Seq(UpFrames)]
      /\ sh[a].subscribed => sh[a].listening >= 1
  BY TypedIs, SharersAssumption, SharerIs, SharersCountIs DEF SharersTyped, SharingTypeOK, FrameTypes
<1>1. ASSUME NEW x \in Apps, Receive(x) PROVE sh'[a].stream = 0
  <2>1. CASE x = a
    <3> DEFINE m == Head(down[a])
               k == sh[a].made + 1
    <3>1. SharingHears(a, m)
      BY <1>1, <2>1 DEF Receive
    <3>2. \/ sh'[a] = sh[a]
          \/ sh'[a] = [sh[a] EXCEPT !.room = m.room, !.managing = TRUE, !.state = "sharing"]
          \/ sh'[a] = [sh[a] EXCEPT !.made = k]
          \/ sh'[a] = [sh[a] EXCEPT !.state = "error"]
      BY <1>0, <3>1 DEF SharingHears, AddViewer, RemoveViewer
    <3> HIDE DEF m, k
    <3>3. sh'[a].stream = sh[a].stream
      BY <1>0, <3>2 DEF Managers
    <3> QED
      BY <3>3
  <2>2. CASE x # a
    <3>1. CASE x \in CanShare
      BY <1>0, <1>1, <2>2, <3>1, SharingHearsOf DEF Receive
    <3>2. CASE x \notin CanShare
      BY <1>1, <3>2 DEF Receive
    <3> QED
      BY <3>1, <3>2
  <2> QED
    BY <2>1, <2>2
<1>2. ASSUME NEW x \in Apps, Serve(x) PROVE sh'[a].stream = 0
  BY <1>0, <1>2, ServePushes DEF shVars
<1>3. ASSUME NEW x \in CanShare, SharingStep(x)
      PROVE  sh'[a].stream = 0 \/ up'[a] = up[a] \o <<Plain("create-room")>>
  <2>0. SharersStep(x)
    BY <1>3, SharersStepIs
  <2>1. CASE x # a
    BY <1>0, <2>0, <2>1, SharersStepOf
  <2>2. CASE x = a
    <3>1. ASSUME Stopped(a) PROVE sh'[a].stream = 0
      BY <1>0, <3>1, StoppedLetsGo
    <3>2. CASE Stop(a)
      BY <3>1, <3>2, StopIs
    <3>3. ASSUME NEW n \in Starts, Begins(a, n) PROVE sh'[a].stream = 0
      <4>1. sh'[a] = [sh[a] EXCEPT !.state = "starting"]
        BY <1>0, <3>3, BeginsIs
      <4> QED
        BY <1>0, <4>1 DEF Managers
    <3>4. ASSUME NEW n \in Starts, PickerAnswers(a, n) PROVE sh'[a].stream = 0
      BY <3>4 DEF PickerAnswers
    <3>5. ASSUME NEW n \in Starts, PickerFails(a, n) PROVE sh'[a].stream = 0
      <4>1. PICK state \in {"idle", "error"} : CleanUp(a, sh[a], state)
        BY <3>5 DEF PickerFails
      <4> QED
        BY <1>0, <4>1, CleanUpIs
    <3>6. ASSUME NEW n \in Starts, CaptureStarts(a, n) PROVE up'[a] = up[a] \o <<Plain("create-room")>>
      BY <1>0, <3>6 DEF CaptureStarts, Sent
    <3>7. ASSUME NEW n \in Starts, CaptureEnds(a, n) PROVE sh'[a] = sh[a] \/ Stopped(a)
      BY <3>7, CaptureEndsIs
    <3>8. ASSUME NEW v \in Sessions, ConnectionFails(a, v) \/ OfferReady(a, v) PROVE sh'[a] = sh[a]
      BY <3>8, ConnectionFailsIs DEF OfferReady
    <3> QED
      BY <2>0, <2>2, <3>1, <3>2, <3>3, <3>4, <3>5, <3>6, <3>7, <3>8 DEF SharersStep
  <2> QED
    BY <2>1, <2>2
<1>4. ASSUME NEW x \in CanWatch, ViewingStep(x) PROVE sh'[a].stream = 0
  BY <1>4, ViewersStepIs, ViewersSend DEF shVars
<1>5. ASSUME UNCHANGED <<shVars, vwVars>> PROVE sh'[a].stream = 0
  BY <1>5 DEF shVars
<1> QED
  BY <1>1, <1>2, <1>3, <1>4, <1>5 DEF Next

(***************************************************************************)
(* A sharer that has a stream has asked for a room, or there is its room,  *)
(* whose changes it has been told; or it holds the stream on after its     *)
(* connection broke, and its new session shares nothing.                   *)
(***************************************************************************)
HasRoom(a) ==
  /\ OnlySignals(up[a], 0)
  /\ \E r \in RoomIds, i \in 0 .. Len(down[a]) :
       sharerId[r] = sess[a] /\ RoomStart(a, r, i) /\ Follows(a, r, i)
Roomless(a) == ~online[a] \/ (OnlySignals(up[a], 0) /\ Shareless(sess[a]))
Strayed(a) == ~Dropless(a) /\ Roomless(a)
HostInv ==
  \A a \in CanShare : Tame(a) /\ sh[a].stream # 0 => AsksForRoom(up[a]) \/ HasRoom(a) \/ Strayed(a)

\* The server makes the room.
LEMMA RoomMade ==
  ASSUME Typed, NEW a \in Apps, online[a], Serve(a), Head(up[a]).type = "create-room"
  PROVE  \E r \in RoomIds, i \in 0 .. Len(down'[a]) :
           sharerId'[r] = sess'[a] /\ RoomStart(a, r, i)' /\ Follows(a, r, i)'
<1>0. TableTypes /\ FrameTypes /\ RMTypeOK /\ down[a] \in Seq(DownFrames) /\ sess[a] \in Sessions
      /\ sess' = sess
  BY TypedIs, ServePushes DEF TableTypes, FrameTypes
<1>1. PICK r \in RoomIds : CreateRoom(sess[a], r) /\ Pushed(OnlyTo(sess[a], RoomCreated(r)))
  BY <1>0, ServeIs
<1>2. sharerId'[r] = sess[a] /\ viewers'[r] = {}
  <2>1. /\ sharerId' = [SharersWithout(sess[a]) EXCEPT ![r] = sess[a]]
        /\ viewers' = [ViewersWithout(sess[a]) EXCEPT ![r] = {}]
    BY <1>1 DEF CreateRoom
  <2> QED
    BY <2>1 DEF SharersWithout, ViewersWithout
<1>3. down'[a] = down[a] \o <<RoomCreated(r)>>
  <2>1. PICK msgs \in [Sessions -> DownFrames \union {Silence}] :
          msgs = OnlyTo(sess[a], RoomCreated(r)) /\ Pushed(msgs)
    BY <1>0, <1>1, PushesAre, DownFramesAre
  <2>2. msgs[sess[a]] = RoomCreated(r)
    BY <1>0, <2>1 DEF OnlyTo, Quiet
  <2>3. RoomCreated(r) # Silence
    BY DEF RoomCreated, Silence
  <2> QED
    BY <1>0, <2>1, <2>2, <2>3, PushedIs
<1>4. PICK q, p : q = down[a] /\ p = down'[a]
  OBVIOUS
<1>5. PICK x \in DownFrames : x = RoomCreated(r)
  BY DownFramesAre
<1>6. p = q \o <<x>> /\ q \in Seq(DownFrames)
  BY <1>0, <1>3, <1>4, <1>5
<1>7. PICK i \in Nat : i = Len(p) /\ i # 0 /\ p[i] = x /\ p \in Seq(DownFrames)
  BY <1>6
<1>8. RoomStart(a, r, i)'
  <2>1. i + 1 .. Len(p) = {}
    BY <1>7
  <2>2. p[i] = RoomCreated(r)
    BY <1>5, <1>7
  <2> QED
    BY <1>4, <1>7, <2>1, <2>2 DEF RoomStart
<1>9. \A v, e : ~Expected(p, i, v, e)
  BY <1>7, ExpectedAtEnd
<1>10. \A v : ~Present(a, i, v)'
  BY <1>4, <1>9 DEF Present
<1>11. Follows(a, r, i)'
  BY <1>2, <1>10 DEF Follows
<1>12. i \in 0 .. Len(down'[a])
  BY <1>4, <1>7
<1> QED
  BY <1>0, <1>2, <1>8, <1>11, <1>12

LEMMA HostIs ==
  ASSUME NEW a \in CanShare, Tame(a)'
  PROVE  Steady(a)' /\ (a \in CanWatch => OneRole(a)')
BY TameLater DEF Tame

LEMMA HostStays ==
  ASSUME Typed, SharerInv, SessionsInv, NamesInv, PlaceInv, MeetInv, RoundInv, IndoorsInv, SeatInv, Next,
         NEW a \in CanShare, Tame(a)', sh'[a].stream # 0, online[a], online'[a],
         sh[a].stream # 0 => AsksForRoom(up[a]) \/ HasRoom(a)
  PROVE  AsksForRoom(up'[a]) \/ HasRoom(a)'
<1>0. /\ a \in Apps /\ up[a] \in Seq(UpFrames) /\ TableTypes /\ FrameTypes /\ sess[a] \in Sessions
      /\ happened \subseteq happened'
  BY TypedIs, SharersAssumption, MishapsStay DEF TableTypes, FrameTypes
<1>1. Steady(a)' /\ (a \in CanWatch => OneRole(a)')
  BY HostIs
<1>2. Steady(a) /\ Tame(a)
  BY <1>0, <1>1, TameBefore, SparedBefore DEF Steady
<1>3. InOrder(a) /\ InPlace(a)
  BY <1>0, <1>2 DEF SharerInv, PlaceInv
<1>4. online[a] /\ sess[a] \notin gone /\ online'[a]
  BY <1>0 DEF IndoorsInv, Indoors
<1>5. Untouched(a) /\ (Waits(a) \/ IsServed(a) \/ \E f \in UpFrames : Sends(a, f))
  BY <1>0, <1>4, LinkMoves DEF Broken, Renewed
<1>6. CASE sh[a].stream = 0
  <2>1. up'[a] = up[a] \o <<Plain("create-room")>>
    BY <1>4, <1>6, StreamBegins
  <2>2. PICK q, r : q = up[a] /\ r = up'[a]
    OBVIOUS
  <2>3. PICK x \in UpFrames : x = Plain("create-room") /\ x.type = "create-room"
    BY UpFramesAre, KindsAre
  <2>4. r = q \o <<x>> /\ q \in Seq(UpFrames)
    BY <1>0, <2>1, <2>2, <2>3
  <2>5. PICK n \in Nat : n = Len(r) /\ n # 0 /\ r[n] = x
    BY <2>4
  <2>6. n \in 1 .. Len(r) /\ n + 1 .. Len(r) = {}
    BY <2>5
  <2>7. AsksForRoom(r)
    BY <2>3, <2>5, <2>6 DEF AsksForRoom, OnlySignals
  <2> QED
    BY <2>2, <2>7
<1>7. ASSUME sh[a].stream # 0, HasRoom(a), Serve(a) => Head(up[a]).type = "signal"
      PROVE  \E r \in RoomIds, i \in 0 .. Len(down'[a]) :
               sharerId'[r] = sess'[a] /\ RoomStart(a, r, i)' /\ Follows(a, r, i)'
  <2>1. PICK r \in RoomIds, i \in 0 .. Len(down[a]) :
          sharerId[r] = sess[a] /\ RoomStart(a, r, i) /\ Follows(a, r, i)
    BY <1>7 DEF HasRoom
  <2>2. PICK s \in Sessions : s = sess[a]
    BY <1>0
  <2>3. Indexed(s)
    BY <1>3, <2>2 DEF InPlace
  <2>4. s \notin gone /\ sharerId[r] = s
    BY <1>4, <2>1, <2>2
  <2>5. PICK m : \E j \in 0 .. Len(down'[a]) :
                   SeenBy(s, r, m) /\ RoomStart(a, r, j)' /\ Presences(a, i, j, m)
    BY <1>1, <1>3, <1>4, <1>7, <2>1, <2>2, <2>3, <2>4, HostGoes
  <2>6. PICK j \in 0 .. Len(down'[a]) : SeenBy(s, r, m) /\ RoomStart(a, r, j)' /\ Presences(a, i, j, m)
    BY <2>5
  <2>7. Follows(a, r, j)'
    BY <2>1, <2>6, FollowsStep DEF PlaceInv
  <2>8. sharerId'[r] = sess'[a]
    BY <1>5, <2>2, <2>6 DEF SeenBy, Untouched
  <2> QED
    BY <2>6, <2>7, <2>8
<1>8. CASE sh[a].stream # 0 /\ Waits(a)
  <2>1. up'[a] = up[a] /\ ~Serve(a)
    BY <1>8 DEF Waits
  <2>2. OnlySignals(up'[a], 0) <=> OnlySignals(up[a], 0)
    BY <2>1
  <2> QED
    BY <1>7, <1>8, <2>1, <2>2 DEF HasRoom
<1>9. CASE sh[a].stream # 0 /\ IsServed(a)
  <2>0. Serve(a) /\ up[a] # <<>> /\ up'[a] = Tail(up[a])
    BY <1>9 DEF IsServed
  <2>1. /\ OnlySignals(up[a], 0) => Head(up[a]).type = "signal" /\ OnlySignals(Tail(up[a]), 0)
        /\ AsksForRoom(up[a]) => \/ AsksForRoom(Tail(up[a]))
                                 \/ Head(up[a]).type = "create-room" /\ OnlySignals(Tail(up[a]), 0)
    BY <1>0, <2>0, SignalsServed
  <2>2. CASE AsksForRoom(Tail(up[a]))
    BY <2>0, <2>2
  <2>3. CASE Head(up[a]).type = "create-room" /\ OnlySignals(Tail(up[a]), 0)
    <3>1. \E r \in RoomIds, i \in 0 .. Len(down'[a]) :
            sharerId'[r] = sess'[a] /\ RoomStart(a, r, i)' /\ Follows(a, r, i)'
      BY <1>0, <1>4, <2>0, <2>3, RoomMade
    <3>2. OnlySignals(up'[a], 0)
      BY <2>0, <2>3
    <3> QED
      BY <3>1, <3>2 DEF HasRoom
  <2>4. CASE HasRoom(a)
    <3>1. Head(up[a]).type = "signal" /\ OnlySignals(up'[a], 0)
      BY <2>0, <2>1, <2>4 DEF HasRoom
    <3> QED
      BY <1>7, <1>9, <2>4, <3>1 DEF HasRoom
  <2> QED
    BY <1>9, <2>1, <2>2, <2>3, <2>4
<1>10. ASSUME sh[a].stream # 0, NEW f \in UpFrames, Sends(a, f) PROVE AsksForRoom(up'[a]) \/ HasRoom(a)'
  <2>1. f.type = "signal"
    BY <1>1, <1>3, <1>10, HostSends
  <2>2. PICK q, p : q = up[a] /\ p = up'[a]
    OBVIOUS
  <2>3. q \in Seq(UpFrames) /\ (p = q \o <<f>> \/ p = q \o <<f, f>>) /\ ~Serve(a)
    BY <1>0, <1>10, <2>2 DEF Sends
  <2>4. (AsksForRoom(q) => AsksForRoom(p)) /\ (OnlySignals(q, 0) => OnlySignals(p, 0))
    BY <2>1, <2>3, SignalsFollow
  <2>5. CASE AsksForRoom(up[a])
    BY <2>2, <2>4, <2>5
  <2>6. CASE HasRoom(a)
    <3>1. OnlySignals(up'[a], 0)
      BY <2>2, <2>4, <2>6 DEF HasRoom
    <3> QED
      BY <1>7, <1>10, <2>3, <2>6, <3>1 DEF HasRoom
  <2> QED
    BY <1>10, <2>5, <2>6
<1> QED
  BY <1>5, <1>6, <1>8, <1>9, <1>10

\* A sharer that holds its stream on goes on without a room.
LEMMA StrayedStays ==
  ASSUME Typed, SharerInv, SessionsInv, PlaceInv, IndoorsInv, Next,
         NEW a \in CanShare, Tame(a)', sh[a].stream # 0, sh'[a].stream # 0, Strayed(a)
  PROVE  Strayed(a)'
<1>0. /\ a \in Apps /\ up[a] \in Seq(UpFrames) /\ TableTypes /\ FrameTypes /\ sess[a] \in Sessions
      /\ happened \subseteq happened'
  BY TypedIs, SharersAssumption, MishapsStay DEF TableTypes, FrameTypes
<1>1. Steady(a)' /\ (a \in CanWatch => OneRole(a)') /\ Steady(a) /\ Tame(a)
  BY <1>0, HostIs, TameBefore, SparedBefore DEF Steady
<1>2. InOrder(a) /\ InPlace(a) /\ ~Dropless(a)'
  BY <1>0, <1>1, SparedBefore DEF SharerInv, PlaceInv, Strayed, Dropless
<1> SUFFICES Roomless(a)'
  BY <1>2 DEF Strayed
<1>3. PICK s \in Sessions : s = sess[a] /\ Indexed(s)
  BY <1>0, <1>2 DEF InPlace
<1>4. CASE Broken(a)
  BY <1>4 DEF Broken, Roomless
<1>5. CASE Renewed(a)
  <2>1. up'[a] = <<>> /\ sess'[a] \in Sessions \ used /\ UNCHANGED sharerId
    BY <1>5 DEF Renewed, rmVars
  <2>2. Shareless(sess[a])'
    BY <1>0, <2>1, NoneAssumption DEF Shareless, PlaceInv, TablesInUse
  <2>3. OnlySignals(up[a], 0)'
    BY <2>1 DEF OnlySignals
  <2> QED
    BY <2>2, <2>3 DEF Roomless
<1>6. ASSUME Untouched(a), ~online[a] PROVE Roomless(a)'
  BY <1>6 DEF Untouched, Roomless
<1>7. ASSUME Untouched(a), online[a], Waits(a) \/ IsServed(a) \/ \E f \in UpFrames : Sends(a, f)
      PROVE  Roomless(a)'
  <2>0. OnlySignals(up[a], 0) /\ Shareless(s) /\ sess'[a] = s
    BY <1>3, <1>7 DEF Strayed, Roomless, Untouched
  <2>1. PICK q, p : q = up[a] /\ p = up'[a] /\ q \in Seq(UpFrames)
    BY <1>0
  <2>2. CASE Waits(a) \/ \E f \in UpFrames : Sends(a, f)
    <3>1. StaysOut(s)
      BY <1>0, <1>2, <1>3, <1>7, <2>2, PlacesMove DEF InPlace
    <3>2. Shareless(s)'
      BY <2>0, <3>1 DEF StaysOut
    <3>3. OnlySignals(p, 0)
      <4>1. CASE Waits(a)
        BY <2>0, <2>1, <4>1 DEF Waits
      <4>2. ASSUME NEW f \in UpFrames, Sends(a, f) PROVE OnlySignals(p, 0)
        <5>1. f.type = "signal"
          BY <1>1, <1>2, <4>2, HostSends
        <5>2. p = q \o <<f>> \/ p = q \o <<f, f>>
          BY <2>1, <4>2 DEF Sends
        <5>3. OnlySignals(q, 0)
          BY <2>0, <2>1
        <5> QED
          BY <2>1, <5>1, <5>2, <5>3, SignalsFollow
      <4> QED
        BY <2>2, <4>1, <4>2
    <3> QED
      BY <2>0, <2>1, <3>2, <3>3 DEF Roomless, Shareless, OnlySignals
  <2>3. CASE IsServed(a)
    <3>1. Serve(a) /\ q # <<>> /\ p = Tail(q)
      BY <2>1, <2>3 DEF IsServed
    <3>2. Head(q).type = "signal" /\ OnlySignals(p, 0)
      BY <2>0, <2>1, <3>1, SignalsServed
    <3>3. UNCHANGED sharerId
      BY <1>0, <2>1, <3>1, <3>2, ServeIs DEF rmVars
    <3> QED
      BY <2>0, <2>1, <3>2, <3>3 DEF Roomless, Shareless, OnlySignals
  <2> QED
    BY <1>7, <2>2, <2>3
<1> QED
  BY <1>0, <1>4, <1>5, <1>6, <1>7, LinkMoves

\* A connection that breaks, or comes back, leaves a sharer without a room.
LEMMA Strays ==
  ASSUME Typed, SessionsInv, PlaceInv, IndoorsInv, Next, NEW a \in CanShare, ~(online[a] /\ online'[a])
  PROVE  Strayed(a)'
<1>0. a \in Apps /\ TableTypes /\ FrameTypes /\ happened \subseteq happened'
  BY TypedIs, SharersAssumption, MishapsStay
<1>1. ~Dropless(a)'
  <2>1. Indoors(a) /\ Indoors(a)'
    BY <1>0, IndoorsStays DEF IndoorsInv
  <2>2. Dropless(a)' => Dropless(a)
    BY <1>0, SparedBefore DEF Dropless
  <2> QED
    BY <2>1, <2>2 DEF Indoors
<1>2. CASE ~online'[a]
  BY <1>1, <1>2 DEF Strayed, Roomless
<1>3. CASE online'[a]
  <2>1. Renewed(a)
    BY <1>0, <1>3, ConnectionMoves DEF Untouched, Broken
  <2>2. up'[a] = <<>> /\ sess'[a] \in Sessions \ used /\ UNCHANGED sharerId
    BY <2>1 DEF Renewed, rmVars
  <2>3. Shareless(sess[a])'
    BY <1>0, <2>2, NoneAssumption DEF Shareless, PlaceInv, TablesInUse
  <2>4. OnlySignals(up[a], 0)'
    BY <2>2 DEF OnlySignals
  <2> QED
    BY <1>1, <2>3, <2>4 DEF Strayed, Roomless
<1> QED
  BY <1>2, <1>3

LEMMA HostStep ==
  ASSUME Typed, SharerInv, SessionsInv, NamesInv, PlaceInv, MeetInv, RoundInv, IndoorsInv, SeatInv, HostInv, Next
  PROVE  HostInv'
<1> SUFFICES ASSUME NEW a \in CanShare, Tame(a)', sh'[a].stream # 0
             PROVE  AsksForRoom(up'[a]) \/ HasRoom(a)' \/ Strayed(a)'
  BY DEF HostInv, AsksForRoom, OnlySignals
<1>1. Tame(a)
  BY MishapsStay, TameBefore
<1>2. sh[a].stream # 0 => AsksForRoom(up[a]) \/ HasRoom(a) \/ Strayed(a)
  BY <1>1 DEF HostInv
<1>3. CASE ~(online[a] /\ online'[a])
  BY <1>3, Strays
<1>4. CASE sh[a].stream # 0 /\ Strayed(a)
  BY <1>4, StrayedStays
<1>5. CASE online[a] /\ online'[a] /\ (sh[a].stream # 0 => ~Strayed(a))
  BY <1>2, <1>5, HostStays
<1> QED
  BY <1>3, <1>4, <1>5

LEMMA HostInit == Init => HostInv
<1> SUFFICES ASSUME Init, NEW a \in CanShare PROVE sh[a].stream = 0
  BY DEF HostInv
<1> QED
  BY DEF Init, SharingInit

LEMMA HostKept == HostInv /\ UNCHANGED shareVars => HostInv'
<1> SUFFICES ASSUME HostInv, UNCHANGED <<sharerId, viewers, sess, online, up, down, happened, sh, entry>>
             PROVE  HostInv'
  BY DEF shareVars, linkVars, rmVars, shVars
<1>1. \A a : (Tame(a)' <=> Tame(a)) /\ (Dropless(a)' <=> Dropless(a))
  BY Zenon DEF Tame, Steady, InOnePlace, Dropless, Spared
<1>2. \A v : Alone(v)' <=> Alone(v)
  BY Zenon DEF Alone, Bearers, Spared
<1>3. \A b : Calmly(b)' <=> Calmly(b)
  BY Zenon DEF Calmly, Spared
<1>4. \A a, i, v : Present(a, i, v)' <=> Present(a, i, v)
  BY DEF Present
<1>5. \A a, r, i : Follows(a, r, i)' <=> Follows(a, r, i)
  BY <1>2, <1>3, <1>4 DEF Follows
<1>6. \A a, r, i : RoomStart(a, r, i)' <=> RoomStart(a, r, i)
  BY DEF RoomStart
<1>7. \A a : HasRoom(a)' <=> HasRoom(a)
  BY <1>5, <1>6 DEF HasRoom
<1>8. \A a : Strayed(a)' <=> Strayed(a)
  BY <1>1 DEF Strayed, Roomless, Shareless
<1> QED
  BY <1>1, <1>7, <1>8 DEF HostInv

LEMMA HostsHold ==
  Spec => [](Typed /\ SharerInv /\ HostInv)
<1>1. IndoorsInv => IndexInUse
  BY DEF IndoorsInv
<1>2. /\ Typed /\ SharerInv /\ SessionsInv /\ NamesInv /\ PlaceInv /\ MeetInv /\ RoundInv
      /\ IndoorsInv /\ SeatInv /\ HostInv /\ [Next]_shareVars
      => IndoorsInv' /\ SeatInv' /\ HostInv'
  BY <1>1, IndoorsStep, IndoorsKept, SeatStep, SeatKept, HostStep, HostKept
<1> QED
  BY <1>2, IndoorsInit, SeatInit, HostInit, PlacesHold, RoundsHold, PTL DEF Spec

LEMMA RestIs ==
  AtRest => \A a \in Apps : up[a] = <<>> /\ down[a] = <<>>
BY Zenon DEF AtRest

\* However joins, departures and failures crossed on the way, at rest a sharer's room is
\* the server's, nobody is connected to it that is not in the room, and everybody in the
\* room has a connection (#handleSignalingMessage, addViewer, removeViewer).
THEOREM ConnectionsMatch == Spec => []ConnectionsMatchRoom
<1>1. Typed /\ SharerInv /\ HostInv => ConnectionsMatchRoom
  <2> SUFFICES ASSUME Typed, SharerInv, HostInv, AtRest, NEW a \in CanShare, sh[a].managing,
                      Spared({a}, Restarts \union {"drop"}), InOnePlace(a)
               PROVE  /\ sharerId[sh[a].room] = sess[a]
                      /\ \A v \in Sessions : entry[a][v] # NoEntry /\ Alone(v) => v \in viewers[sh[a].room]
                      /\ \A b \in CanWatch : sess[b] \in viewers[sh[a].room] /\ Calmly(b)
                                             => entry[a][sess[b]] # NoEntry
    BY Zenon DEF ConnectionsMatchRoom, Alone, Calmly
  <2>0. a \in Apps /\ up[a] = <<>> /\ down[a] = <<>> /\ down[a] \in Seq(DownFrames) /\ sess \in [Apps -> Sessions]
    BY TypedIs, RestIs, SharersAssumption DEF FrameTypes, TableTypes
  <2>1. Steady(a) /\ Dropless(a)
    BY SparedBoth DEF Steady, Dropless
  <2>2. Tame(a) /\ ~Strayed(a)
    BY <2>1 DEF Tame, Strayed
  <2>3. sh[a].stream # 0
    BY <2>1 DEF SharerInv, InOrder, HoldsNothing
  <2>4. ~AsksForRoom(up[a])
    BY <2>0 DEF AsksForRoom
  <2>5. PICK r \in RoomIds, i \in 0 .. Len(down[a]) :
          sharerId[r] = sess[a] /\ RoomStart(a, r, i) /\ Follows(a, r, i)
    BY <2>2, <2>3, <2>4 DEF HostInv, HasRoom
  <2>6. i = 0
    BY <2>0, <2>5
  <2>7. sh[a].room = r
    BY <2>5, <2>6 DEF RoomStart
  <2>8. \A v : Present(a, 0, v) <=> entry[a][v] # NoEntry
    BY <2>0, ExpectedAtEnd DEF Present
  <2>9. \A b \in CanWatch : sess[b] \in Sessions
    BY <2>0, WatchersAssumption
  <2> QED
    BY <2>5, <2>6, <2>7, <2>8, <2>9 DEF Follows
<1> QED
  BY <1>1, HostsHold, PTL

(***************************************************************************)
(* What a step makes of b's manager, and of the offers it works on.        *)
(***************************************************************************)
SameStay(b) ==
  /\ vw'[b].room = vw[b].room /\ vw'[b].conn = vw[b].conn /\ vw'[b].made = vw[b].made
  /\ vw'[b].listening = vw[b].listening
Quietly == UNCHANGED <<rmVars, sess, online, used, gone, down, shVars>>
Rests(b) ==
  /\ vw'[b] = vw[b] /\ offers'[b] = offers[b]
  /\ Receive(b) => vw[b].listening = 0 \/ Head(down[b]).type \notin Warning \union {"offer"}
JoinsRoom(b, r) ==
  /\ Joins(b) /\ Quietly /\ up' = Sent(b, <<JoinMsg(r)>>) /\ vw[b].state \in Away
  /\ vw'[b].state = "connecting" /\ vw'[b].room = r /\ vw'[b].listening = vw[b].listening + 1
  /\ vw'[b].conn = vw[b].conn /\ vw'[b].made = vw[b].made /\ vw'[b].remote = vw[b].remote
  /\ offers'[b] = offers[b]
LeavesRoom(b) ==
  /\ Leaves(b) /\ Quietly
  /\ \E f \in UpFrames : f = Plain("leave-room") /\ (up' = Sent(b, <<f>>) \/ up' = Sent(b, <<f, f>>))
  /\ vw'[b].state = "idle" /\ vw'[b].room = None /\ vw'[b].conn = 0 /\ vw'[b].remote = NoOffer
  /\ vw'[b].made = vw[b].made /\ offers'[b] = <<>>
Replies(b) ==
  LET o == Head(offers[b]) IN
  /\ Quietly /\ offers[b] # <<>> /\ vw[b].remote # o /\ vw'[b].remote = o /\ SameStay(b)
  /\ vw'[b].state = (IF online[b] THEN vw[b].state ELSE "error")
  /\ offers'[b] = Tail(offers[b])
  /\ up' = Sent(b, <<To(o.from, Answer(sess[b], o.conn, vw[b].conn))>>)
Rejects(b) ==
  /\ Quietly /\ up' = up /\ offers[b] # <<>> /\ offers'[b] = Tail(offers[b])
  /\ vw'[b].state = "error" /\ SameStay(b) /\ vw'[b].remote = vw[b].remote
Fades(b) ==
  /\ Quietly /\ up' = up /\ offers'[b] = offers[b]
  /\ vw[b].remote # NoOffer /\ vw'[b].state = "reconnecting"
  /\ SameStay(b) /\ vw'[b].remote = vw[b].remote
Shows(b) ==
  /\ Quietly /\ up' = up /\ offers'[b] = offers[b] /\ (\E a \in CanShare : Matched(a, b))
  /\ vw[b].conn # 0 /\ vw'[b].state = "connected"
  /\ SameStay(b) /\ vw'[b].remote = vw[b].remote
Welcomes(b) ==
  /\ Receive(b) /\ down[b] # <<>> /\ vw[b].listening # 0
  /\ \E p \in TakenOffers : /\ Head(down[b]) = OfferOf(p)
                            /\ offers'[b] = offers[b] \o [i \in 1 .. vw[b].listening |-> p]
  /\ vw'[b].state = vw[b].state /\ vw'[b].room = vw[b].room /\ vw'[b].remote = vw[b].remote
  /\ vw'[b].listening = vw[b].listening
  /\ \/ vw[b].conn # 0 /\ vw'[b].conn = vw[b].conn /\ vw'[b].made = vw[b].made
     \/ vw[b].conn = 0 /\ vw'[b].conn = vw[b].made + 1 /\ vw'[b].made = vw[b].made + 1
TurnsAway(b) ==
  /\ Receive(b) /\ down[b] # <<>> /\ vw[b].listening # 0 /\ Head(down[b]).type \in Warning
  /\ vw'[b].state \in Away \ {"idle"} /\ vw'[b].room = vw[b].room /\ vw'[b].conn = 0
  /\ vw'[b].remote = NoOffer /\ vw'[b].made = vw[b].made /\ offers'[b] = <<>>
WatcherGoes(b) ==
  \/ Rests(b) \/ (\E r \in RoomIds : JoinsRoom(b, r)) \/ LeavesRoom(b) \/ Replies(b)
  \/ Rejects(b) \/ Fades(b) \/ Shows(b) \/ Welcomes(b) \/ TurnsAway(b)

LEMMA WatcherHears ==
  ASSUME Typed, NEW b \in CanWatch, Receive(b)
  PROVE  Rests(b) \/ Welcomes(b) \/ TurnsAway(b)
<1>0. /\ TableTypes /\ FrameTypes /\ ViewersTyped /\ b \in Apps
      /\ vw \in [CanWatch -> Watchers] /\ vw[b] \in Watchers /\ vw[b].listening \in Nat
      /\ vw[b].made \in Nat /\ vw[b].conn \in Nat
      /\ offers \in [CanWatch -> Seq(TakenOffers)] /\ offers[b] \in Seq(TakenOffers)
  BY TypedIs, WatchersAssumption, WatcherIs DEF ViewersTyped, WatchTypes
<1> DEFINE f == Head(down[b])
<1>1. ViewingHears(b, f) /\ f \in DownFrames /\ down[b] # <<>>
  BY <1>0, HeadOfDown DEF Receive
<1>2. ASSUME NEW state \in {"disconnected", "error"}, CleanUpWatch(b, state, vw[b].room, Unsubscribed(b)),
             vw[b].listening # 0, f.type \in Warning
      PROVE  TurnsAway(b)
  <2>1. state \in Away \ {"idle"} /\ CleanedUp(b, state, vw[b].room)
    BY <1>0, <1>2, TurnedAway DEF Away
  <2> QED
    BY <1>1, <1>2, <2>1 DEF TurnsAway, CleanedUp
<1>3. ASSUME vw[b].listening # 0, f.type = "offer", TakeOffer(b, f)
      PROVE  Welcomes(b)
  <2> DEFINE p == [from |-> f.from, conn |-> f.conn] m == vw[b].made + 1
  <2>1. p \in TakenOffers /\ f = OfferOf(p)
    <3>1. f.from \in Sessions /\ f.conn \in Nat
      BY <1>1, <1>3, DownFrameHas
    <3>2. p \in TakenOffers
      BY <3>1 DEF TakenOffers
    <3>3. \A o \in TakenOffers : p = o <=> f = OfferOf(o)
      BY <1>1, <1>3, OffersAre
    <3> QED
      BY <3>2, <3>3
  <2>2. offers'[b] = offers[b] \o [i \in 1 .. vw[b].listening |-> p]
    BY <1>0, <1>3 DEF TakeOffer
  <2>3. \/ vw[b].conn # 0 /\ vw'[b] = vw[b]
        \/ vw[b].conn = 0 /\ vw'[b] = [vw[b] EXCEPT !.conn = m, !.made = m]
    BY <1>0, <1>3 DEF TakeOffer
  <2>4. m = vw[b].made + 1
    OBVIOUS
  <2>6. Head(down[b]) = OfferOf(p)
    BY <2>1
  <2>7. down[b] # <<>> /\ vw[b].listening # 0 /\ p \in TakenOffers
    BY <1>1, <1>3, <2>1
  <2> HIDE DEF p, m, f
  <2>5. /\ vw'[b].state = vw[b].state /\ vw'[b].room = vw[b].room /\ vw'[b].remote = vw[b].remote
        /\ vw'[b].listening = vw[b].listening
        /\ \/ vw[b].conn # 0 /\ vw'[b].conn = vw[b].conn /\ vw'[b].made = vw[b].made
           \/ vw[b].conn = 0 /\ vw'[b].conn = m /\ vw'[b].made = m
    BY <1>0, <2>3 DEF Watchers
  <2> QED
    BY <2>2, <2>4, <2>5, <2>6, <2>7 DEF Welcomes
<1>4. CASE vw[b].listening # 0 /\ f.type \in Warning \union {"offer"}
  <2>1. (TakeOffer(b, f) /\ f.type = "offer") \/ ((RoomOver(b) \/ Refused(b)) /\ f.type \in Warning)
    BY <1>1, <1>4 DEF ViewingHears, Warning
  <2> QED
    BY <1>2, <1>3, <1>4, <2>1 DEF RoomOver, Refused
<1>5. CASE vw[b].listening = 0 \/ f.type \notin Warning \union {"offer"}
  <2>1. UNCHANGED <<vw, offers>>
    BY <1>1, <1>5 DEF ViewingHears, Warning
  <2> QED
    BY <1>5, <2>1 DEF Rests
<1> QED
  BY <1>4, <1>5

LEMMA WatcherMoves ==
  ASSUME Typed, Next, NEW b \in CanWatch
  PROVE  WatcherGoes(b)
<1>0. /\ TableTypes /\ FrameTypes /\ ViewersTyped /\ SharersTyped /\ b \in Apps
      /\ vw \in [CanWatch -> Watchers] /\ vw[b] \in Watchers /\ vw[b].listening \in Nat
      /\ vw[b].made \in Nat /\ vw[b].conn \in Nat
      /\ offers \in [CanWatch -> Seq(TakenOffers)] /\ offers[b] \in Seq(TakenOffers)
      /\ down \in [Apps -> Seq(DownFrames)]
  BY TypedIs, WatchersAssumption, WatcherIs DEF ViewersTyped, WatchTypes, FrameTypes
<1>r. ASSUME NEW x \in Apps, Receive(x), x # b PROVE ~Receive(b)
  <2>1. down'[b] = down[b] /\ down[b] \in Seq(DownFrames)
    BY <1>0, <1>r DEF Receive
  <2> SUFFICES ASSUME Receive(b) PROVE FALSE
    OBVIOUS
  <2>2. PICK q \in Seq(DownFrames) : q = down[b]
    BY <2>1
  <2>3. q # <<>> /\ Tail(q) = q
    BY <1>0, <2>1, <2>2 DEF Receive
  <2>4. Len(Tail(q)) = Len(q) - 1 /\ Len(q) \in Nat
    BY <2>2, <2>3
  <2> QED
    BY <2>3, <2>4
<1>q. ASSUME down'[b] = down[b] \/ \E m \in DownFrames : down'[b] = down[b] \o <<m>> PROVE ~Receive(b)
  <2> SUFFICES ASSUME Receive(b) PROVE FALSE
    OBVIOUS
  <2>1. PICK q \in Seq(DownFrames) : q = down[b]
    BY <1>0
  <2>2. q # <<>> /\ down'[b] = Tail(q)
    BY <1>0, <2>1 DEF Receive
  <2>3. Len(Tail(q)) = Len(q) - 1 /\ Len(q) \in Nat
    BY <2>1, <2>2
  <2>4. Tail(q) = q \/ \E m \in DownFrames : Tail(q) = q \o <<m>>
    BY <1>q, <2>1, <2>2
  <2>5. \A m \in DownFrames : Len(q \o <<m>>) = Len(q) + 1
    BY <2>1
  <2>6. Len(Tail(q)) = Len(q) \/ Len(Tail(q)) = Len(q) + 1
    BY <2>4, <2>5
  <2> QED
    BY <2>3, <2>6
<1>1. ASSUME NEW x \in Apps, Receive(x) PROVE WatcherGoes(b)
  <2>1. CASE x = b
    BY <1>1, <2>1, WatcherHears DEF WatcherGoes
  <2>2. CASE x # b
    <3>1. vw'[b] = vw[b] /\ offers'[b] = offers[b]
      <4>1. CASE x \in CanWatch
        BY <1>0, <1>1, <2>2, <4>1 DEF Receive, ViewingHears, TakeOffer, RoomOver, Refused, CleanUpWatch
      <4>2. CASE x \notin CanWatch
        BY <1>1, <4>2 DEF Receive
      <4> QED
        BY <4>1, <4>2
    <3> QED
      BY <1>r, <1>1, <2>2, <3>1 DEF Rests, WatcherGoes
  <2> QED
    BY <2>1, <2>2
<1>2. ASSUME NEW x \in Apps, Serve(x) PROVE WatcherGoes(b)
  <2>1. UNCHANGED <<vw, offers>>
    BY <1>0, <1>2, ServePushes DEF vwVars
  <2>2. ~Receive(b)
    BY <1>0, <1>q, <1>2, ServeGives
  <2> QED
    BY <2>1, <2>2 DEF Rests, WatcherGoes
<1>3. ASSUME NEW x \in CanShare, SharingStep(x) PROVE WatcherGoes(b)
  <2>1. UNCHANGED <<vw, offers, down>>
    BY <1>0, <1>3, SharersStepIs, SharersStepFrames, SharersSend DEF vwVars
  <2>2. ~Receive(b)
    BY <1>q, <2>1
  <2> QED
    BY <2>1, <2>2 DEF Rests, WatcherGoes
<1>4. ASSUME NEW x \in CanWatch, ViewingStep(x), x # b PROVE WatcherGoes(b)
  <2>1. ViewersStep(x)
    BY <1>4, ViewersStepIs
  <2>2. vw'[b] = vw[b] /\ offers'[b] = offers[b] /\ down' = down
    BY <1>0, <1>4, <2>1, ViewersStepOf, ViewersSend
  <2> QED
    BY <1>q, <2>2 DEF Rests, WatcherGoes
<1>5. ASSUME ViewingStep(b) PROVE WatcherGoes(b)
  <2>0. ViewersStep(b) /\ Quietly
    BY <1>5, ViewersStepIs, ViewersSend DEF Quietly
  <2>1. ASSUME NEW r \in RoomIds, Joins(b), Join(b, r) PROVE WatcherGoes(b)
    <3> DEFINE l == vw[b].listening + 1
    <3>1. /\ vw'[b] = [vw[b] EXCEPT !.state = "connecting", !.room = r, !.listening = l, !.subscribed = TRUE]
          /\ offers'[b] = offers[b] /\ up' = Sent(b, <<JoinMsg(r)>>) /\ vw[b].state \in Away
      BY <1>0, <2>1 DEF Join, Away
    <3>2. l = vw[b].listening + 1
      OBVIOUS
    <3> HIDE DEF l
    <3>3. /\ vw'[b].state = "connecting" /\ vw'[b].room = r /\ vw'[b].listening = l
          /\ vw'[b].conn = vw[b].conn /\ vw'[b].made = vw[b].made /\ vw'[b].remote = vw[b].remote
      BY <1>0, <3>1 DEF Watchers
    <3> QED
      BY <2>0, <2>1, <3>1, <3>2, <3>3 DEF JoinsRoom, WatcherGoes
  <2>2. ASSUME Leaves(b) PROVE WatcherGoes(b)
    <3>1. Leave(b)
      BY <2>2, LeavesIs
    <3>2. CleanedUp(b, "idle", None)
      BY <1>0, <3>1, WentAway DEF Leave
    <3>6. \E f \in UpFrames : f = Plain("leave-room") /\ (up' = Sent(b, <<f>>) \/ up' = Sent(b, <<f, f>>))
      BY <3>1, UpFramesAre DEF Leave, LeaveFrames
    <3> QED
      BY <2>0, <2>2, <3>2, <3>6 DEF LeavesRoom, WatcherGoes, CleanedUp
  <2>3. ASSUME AnswerReady(b) PROVE WatcherGoes(b)
    <3> DEFINE o == Head(offers[b]) st == IF online[b] THEN vw[b].state ELSE "error"
    <3>1. /\ vw'[b] = [vw[b] EXCEPT !.remote = o, !.state = st]
          /\ offers[b] # <<>> /\ vw[b].remote # o /\ offers'[b] = Tail(offers[b])
          /\ up' = Sent(b, <<To(o.from, Answer(sess[b], o.conn, vw[b].conn))>>)
      BY <1>0, <2>3 DEF AnswerReady
    <3> HIDE DEF o, st
    <3>2. SameStay(b) /\ vw'[b].remote = o /\ vw'[b].state = st
      BY <1>0, <3>1 DEF Watchers, SameStay
    <3>3. Replies(b)
      BY <2>0, <3>1, <3>2 DEF Replies, o, st
    <3> QED
      BY <3>3 DEF WatcherGoes
  <2>4. ASSUME AnswerFails(b) PROVE WatcherGoes(b)
    <3>1. vw' = [vw EXCEPT ![b].state = "error"] /\ offers[b] # <<>> /\ offers' = [offers EXCEPT ![b] = Tail(@)]
          /\ up' = up
      BY <2>4, AnswerFailsIs DEF linkVars
    <3>2. vw'[b] = [vw[b] EXCEPT !.state = "error"] /\ offers'[b] = Tail(offers[b])
      BY <1>0, <3>1
    <3>3. SameStay(b) /\ vw'[b].state = "error" /\ vw'[b].remote = vw[b].remote
      BY <1>0, <3>2 DEF Watchers, SameStay
    <3> QED
      BY <2>0, <3>1, <3>2, <3>3 DEF Rejects, WatcherGoes
  <2>5. ASSUME PictureLost(b) PROVE WatcherGoes(b)
    <3>1. vw'[b] = [vw[b] EXCEPT !.state = "reconnecting"] /\ offers' = offers /\ up' = up
          /\ vw[b].remote # NoOffer
      BY <1>0, <2>5 DEF PictureLost, linkVars
    <3>2. SameStay(b) /\ vw'[b].state = "reconnecting" /\ vw'[b].remote = vw[b].remote
      BY <1>0, <3>1 DEF Watchers, SameStay
    <3> QED
      BY <2>0, <3>1, <3>2 DEF Fades, WatcherGoes
  <2>6. ASSUME ShowPicture(b) PROVE WatcherGoes(b)
    <3>1. vw'[b] = [vw[b] EXCEPT !.state = "connected"] /\ offers' = offers /\ up' = up /\ vw[b].conn # 0
          /\ \E a \in CanShare : Matched(a, b)
      BY <1>0, <2>6 DEF ShowPicture, PictureArrives, linkVars
    <3>2. SameStay(b) /\ vw'[b].state = "connected" /\ vw'[b].remote = vw[b].remote
      BY <1>0, <3>1 DEF Watchers, SameStay
    <3> QED
      BY <2>0, <3>1, <3>2 DEF Shows, WatcherGoes
  <2>7. Joins(b) \/ Leaves(b) \/ AnswerFails(b) \/ PictureLost(b) \/ AnswerReady(b) \/ ShowPicture(b)
    BY <1>5, Zenon DEF ViewingStep, Joins, Leaves, SendAnswer
  <2> QED
    BY <2>1, <2>2, <2>3, <2>4, <2>5, <2>6, <2>7, JoinsIs
<1>6. ASSUME SocketStep, UNCHANGED <<shVars, vwVars>> PROVE WatcherGoes(b)
  <2>1. UNCHANGED <<vw, offers>>
    BY <1>6 DEF vwVars
  <2>2. Receive(b) => UNCHANGED <<sess, online, used, gone, rmVars, up>>
    BY DEF Receive
  <2>3. ~Receive(b)
    <3>1. ASSUME NEW x \in Apps, online[x], online' = [online EXCEPT ![x] = FALSE] PROVE online' # online
      BY <1>0, <3>1 DEF TableTypes
    <3>2. ASSUME NEW x \in Apps, ~online[x], online' = [online EXCEPT ![x] = TRUE] PROVE online' # online
      BY <1>0, <3>2 DEF TableTypes
    <3>3. ASSUME NEW s \in gone, gone' = gone \ {s} PROVE gone' # gone
      BY <3>3
    <3> QED
      BY <1>0, <1>6, <2>2, <3>1, <3>2, <3>3, SocketsDo
  <2> QED
    BY <2>1, <2>3 DEF Rests, WatcherGoes
<1> QED
  BY <1>1, <1>2, <1>3, <1>4, <1>5, <1>6 DEF Next

(***************************************************************************)
(* Who shows a viewer something listens, and what was taken or applied has *)
(* a connection.  Only who shares asks for a room or makes an offer.       *)
(***************************************************************************)
Waiting(b) == vw[b].state \in {"connecting", "connected", "reconnecting"}
Attends(b) ==
  /\ Waiting(b) \/ vw[b].conn # 0 => vw[b].listening # 0
  /\ offers[b] # <<>> \/ vw[b].remote # NoOffer => vw[b].conn # 0
  /\ vw[b].state = "idle" => vw[b].room = None
AttendInv == \A b \in CanWatch : Attends(b)
IsOffer(f) == f.type = "signal" /\ f.signal.type = "offer"
SharersAsk ==
  \A y \in Apps, f \in UpFrames : Has(up[y], f) /\ (f.type = "create-room" \/ IsOffer(f)) => y \in CanShare

LEMMA AttendStep ==
  ASSUME Typed, AttendInv, Next
  PROVE  AttendInv'
<1> SUFFICES ASSUME NEW b \in CanWatch PROVE Attends(b)'
  BY DEF AttendInv
<1>0. /\ Attends(b) /\ vw[b] \in Watchers /\ vw[b].listening \in Nat /\ vw[b].made \in Nat
      /\ \A s \in Away : s \notin {"connecting", "connected", "reconnecting"}
  BY TypedIs, WatcherIs DEF AttendInv, Away
<1>1. WatcherGoes(b)
  BY WatcherMoves
<1>2. CASE Rests(b)
  BY <1>0, <1>2 DEF Rests, Attends, Waiting
<1>3. CASE \E r \in RoomIds : JoinsRoom(b, r)
  BY <1>0, <1>3 DEF JoinsRoom, Attends, Waiting
<1>4. CASE LeavesRoom(b)
  BY <1>0, <1>4 DEF LeavesRoom, Attends, Waiting
<1>5. CASE Replies(b) \/ Rejects(b) \/ Fades(b) \/ Shows(b)
  BY <1>0, <1>5 DEF Replies, Rejects, Fades, Shows, SameStay, Attends, Waiting
<1>6. CASE Welcomes(b)
  BY <1>0, <1>6 DEF Welcomes, Attends, Waiting
<1>7. CASE TurnsAway(b)
  BY <1>0, <1>7 DEF TurnsAway, Attends, Waiting
<1> QED
  BY <1>1, <1>2, <1>3, <1>4, <1>5, <1>6, <1>7 DEF WatcherGoes

LEMMA AttendInit == Init => AttendInv
BY DEF Init, ViewingInit, AttendInv, Attends, Waiting

LEMMA AttendKept == AttendInv /\ UNCHANGED shareVars => AttendInv'
<1> SUFFICES ASSUME AttendInv, UNCHANGED <<vw, offers>> PROVE AttendInv'
  BY DEF shareVars, vwVars
<1> QED
  BY DEF AttendInv, Attends, Waiting

LEMMA SharersAskStep ==
  ASSUME Typed, SharersAsk, Next
  PROVE  SharersAsk'
<1> SUFFICES ASSUME NEW y \in Apps, NEW f \in UpFrames, Has(up'[y], f), f.type = "create-room" \/ IsOffer(f)
             PROVE  y \in CanShare
  BY DEF SharersAsk, Has
<1>1. CASE Has(up[y], f)
  BY <1>1 DEF SharersAsk
<1>2. CASE Goes(y, f)
  BY <1>2, GoesKinds DEF IsOffer
<1> QED
  BY <1>1, <1>2, UpHas

LEMMA SharersAskInit == Init => SharersAsk
BY EmptyQueue DEF Init, LinkInit, SharersAsk

LEMMA SharersAskKept == SharersAsk /\ UNCHANGED shareVars => SharersAsk'
<1> SUFFICES ASSUME SharersAsk, UNCHANGED up PROVE SharersAsk'
  BY DEF shareVars, linkVars
<1> QED
  BY DEF SharersAsk, Has

\* All that was shown so far of how applications and the server go about.
ShownInv ==
  /\ Typed /\ SharerInv /\ SessionsInv /\ ViewerInv /\ NamesInv /\ PlaceInv /\ MeetInv
  /\ NumbersInv /\ RoundInv /\ IndoorsInv /\ AttendInv /\ SharersAsk

LEMMA ShownHolds == Spec => []ShownInv
<1>1. Typed /\ SessionsInv /\ IndoorsInv /\ AttendInv /\ SharersAsk /\ [Next]_shareVars
      => IndoorsInv' /\ AttendInv' /\ SharersAsk'
  BY IndoorsStep, IndoorsKept, AttendStep, AttendKept, SharersAskStep, SharersAskKept
<1>2. /\ Typed /\ SharerInv /\ SessionsInv /\ ViewerInv /\ NamesInv /\ PlaceInv /\ MeetInv
      /\ NumbersInv /\ RoundInv /\ IndoorsInv /\ AttendInv /\ SharersAsk
      => ShownInv
  BY DEF ShownInv
<1> QED
  BY <1>1, <1>2, IndoorsInit, AttendInit, SharersAskInit, PlacesHold, RoundsHold, PTL DEF Spec

(***************************************************************************)
(* Sharers that are never in two places, and a viewer that no mishap       *)
(* befell.                                                                 *)
(***************************************************************************)
Mannered == \A a \in CanShare : Tame(a) /\ OneRole(a)
GuestMishaps == {"drop", "connection fails", "quick rejoin", "both roles", "offer refused"}
Guest(b) == Spared({b}, GuestMishaps)

LEMMA GuestIs ==
  ASSUME NEW b, Guest(b)
  PROVE  Calm(b) /\ Calmly(b) /\ OneRole(b) /\ Dropless(b) /\ Kept(b)
<1>1. /\ {"quick rejoin"} \subseteq GuestMishaps /\ {"both roles"} \subseteq GuestMishaps
      /\ {"drop"} \subseteq GuestMishaps
      /\ {"connection fails", "quick rejoin"} \subseteq GuestMishaps
      /\ Quits \subseteq GuestMishaps
  BY Zenon DEF GuestMishaps, Quits
<1> QED
  BY <1>1, SparedSome, Zenon DEF Guest, Calm, Calmly, OneRole, Dropless, Kept

LEMMA GuestLater ==
  ASSUME NEW b, Guest(b)'
  PROVE  Calm(b)' /\ OneRole(b)' /\ Dropless(b)'
<1> DEFINE cs == {"quick rejoin"} os == {"both roles"} ds == {"drop"}
<1>1. /\ cs \subseteq GuestMishaps /\ os \subseteq GuestMishaps /\ ds \subseteq GuestMishaps
      /\ Calm(b)' <=> Spared({b}, cs)'
      /\ OneRole(b)' <=> Spared({b}, os)'
      /\ Dropless(b)' <=> Spared({b}, ds)'
  BY Zenon DEF GuestMishaps, Calm, OneRole, Dropless
<1>2. Spared({b}, GuestMishaps)'
  BY Zenon DEF Guest
<1> HIDE DEF cs, os, ds
<1>3. Spared({b}, cs)' /\ Spared({b}, os)' /\ Spared({b}, ds)'
  BY <1>1, <1>2 DEF Spared
<1> QED
  BY <1>1, <1>3

LEMMA MannersBefore ==
  ASSUME happened \subseteq happened'
  PROVE  /\ \A b : Guest(b)' => Guest(b)
         /\ Mannered' => Mannered
<1>1. \A a : OneRole(a)' => OneRole(a)
  BY SparedBefore, Zenon DEF OneRole
<1>2. Mannered' => Mannered
  BY <1>1, TameBefore, Zenon DEF Mannered
<1> QED
  BY <1>2, SparedBefore, Zenon DEF Guest

(***************************************************************************)
(* How the frames that come to an application change in a step.            *)
(***************************************************************************)
LEMMA DownGoes ==
  ASSUME Typed, Next, NEW y \in Apps
  PROVE  \/ down'[y] = down[y] \/ Broken(y)
         \/ down[y] # <<>> /\ down'[y] = Tail(down[y]) /\ Receive(y)
         \/ \E g \in DownFrames : down'[y] = down[y] \o <<g>> /\ Comes(y, g)
<1>0. /\ TableTypes /\ FrameTypes /\ SharersTyped /\ down \in [Apps -> Seq(DownFrames)]
      /\ online \in [Apps -> BOOLEAN] /\ up \in [Apps -> Seq(UpFrames)]
  BY TypedIs DEF FrameTypes, TableTypes
<1>1. CASE down'[y] # <<>>
  BY <1>1, DownMoves
<1>2. CASE down'[y] = <<>> /\ down[y] # <<>>
  <2>s. \A g \in DownFrames : down[y] \o <<g>> # <<>>
    <3>1. down[y] \in Seq(DownFrames)
      BY <1>0
    <3> QED
      BY <3>1
  <2>1. ASSUME NEW x \in Apps, Receive(x) PROVE down[y] # <<>> /\ down'[y] = Tail(down[y]) /\ Receive(y)
    BY <1>0, <1>2, <2>1 DEF Receive
  <2>2. ASSUME NEW x \in Apps, Serve(x) PROVE FALSE
    BY <1>0, <1>2, <2>s, <2>2, ServeGives
  <2>3. ASSUME NEW x \in CanShare, SharingStep(x) PROVE FALSE
    BY <1>2, <2>3, SharersStepIs, SharersSend
  <2>4. ASSUME NEW x \in CanWatch, ViewingStep(x) PROVE FALSE
    BY <1>2, <2>4, ViewersStepIs, ViewersSend
  <2>5. ASSUME SocketStep PROVE Broken(y)
    <3>1. ASSUME NEW x \in Apps, down' = [down EXCEPT ![x] = <<>>], up' = [up EXCEPT ![x] = <<>>],
                 online' = [online EXCEPT ![x] = FALSE], UNCHANGED sess
          PROVE  Broken(y)
      BY <1>0, <1>2, <3>1 DEF Broken
    <3>2. ASSUME NEW s \in Sessions, Pushed(DepartureMessages(s)),
                 DepartureMessages(s) \in [Sessions -> DownFrames \union {Silence}]
          PROVE  FALSE
      BY <1>0, <1>2, <2>s, <3>2, PushedIs
    <3> QED
      BY <1>0, <1>2, <2>5, <3>1, <3>2, SocketsDo
  <2> QED
    BY <2>1, <2>2, <2>3, <2>4, <2>5 DEF Next
<1> QED
  BY <1>1, <1>2

\* A warning is pushed to b.
WarnedAnew(b) == \E g \in DownFrames : g.type \in Warning /\ down'[b] = down[b] \o <<g>>

LEMMA AnewIs ==
  ASSUME Typed, NEW b \in Apps, WarnedAnew(b)
  PROVE  IsWarned(b)'
<1>1. PICK q \in Seq(DownFrames), g \in DownFrames : q = down[b] /\ g.type \in Warning /\ down'[b] = q \o <<g>>
  BY TypedIs DEF FrameTypes, WarnedAnew
<1>2. Len(q \o <<g>>) \in 1 .. Len(q \o <<g>>) /\ (q \o <<g>>)[Len(q \o <<g>>)] = g
  BY <1>1
<1> QED
  BY <1>1, <1>2 DEF IsWarned

LEMMA WarnedStays ==
  ASSUME Typed, Next, NEW b \in Apps, online'[b], IsWarned(b)
  PROVE  IsWarned(b)' \/ (Receive(b) /\ down[b] # <<>> /\ Head(down[b]).type \in Warning)
<1>1. PICK q \in Seq(DownFrames) : q = down[b]
  BY TypedIs DEF FrameTypes
<1>2. PICK i \in 1 .. Len(q) : q[i].type \in Warning
  BY <1>1 DEF IsWarned
<1>3. CASE down'[b] = q
  BY <1>2, <1>3 DEF IsWarned
<1>4. CASE q # <<>> /\ down'[b] = Tail(q) /\ Receive(b)
  <2>1. CASE i = 1
    BY <1>1, <1>2, <1>4, <2>1
  <2>2. CASE i # 1
    <3>1. i - 1 \in 1 .. Len(Tail(q)) /\ Tail(q)[i - 1] = q[i]
      BY <1>1, <1>2, <1>4, <2>2
    <3> QED
      BY <1>2, <1>4, <3>1 DEF IsWarned
  <2> QED
    BY <2>1, <2>2
<1>5. ASSUME NEW g \in DownFrames, down'[b] = q \o <<g>> PROVE IsWarned(b)'
  <2>1. i \in 1 .. Len(q \o <<g>>) /\ (q \o <<g>>)[i] = q[i]
    BY <1>1, <1>2, <1>5
  <2> QED
    BY <1>2, <1>5, <2>1 DEF IsWarned
<1> QED
  BY <1>1, <1>3, <1>4, <1>5, DownGoes DEF Broken

LEMMA WarningReaches ==
  ASSUME Typed, NEW y \in Apps, online[y], NEW msgs \in [Sessions -> DownFrames \union {Silence}], Pushed(msgs),
         msgs[sess[y]].type \in Warning
  PROVE  WarnedAnew(y)
<1>1. PICK g : g = msgs[sess[y]]
  OBVIOUS
<1>2. g # Silence
  BY <1>1, WarningFrames
<1>3. g \in DownFrames /\ down'[y] = down[y] \o <<g>>
  BY <1>1, <1>2, TypedIs, PushedIs
<1> QED
  BY <1>1, <1>3 DEF WarnedAnew

\* The server refuses what b sent.
LEMMA RefusalReaches ==
  ASSUME Typed, NEW b \in Apps, online[b], NEW c \in ErrorCodes, Pushed(OnlyTo(sess[b], ErrorMsg(c)))
  PROVE  WarnedAnew(b)
<1>1. PICK m : m = ErrorMsg(c)
  OBVIOUS
<1>2. m \in DownFrames /\ m.type \in Warning /\ sess[b] \in Sessions
  BY <1>1, TypedIs, DownFramesAre DEF Warning, ErrorMsg, TableTypes
<1>3. OnlyTo(sess[b], m) \in [Sessions -> DownFrames \union {Silence}] /\ OnlyTo(sess[b], m)[sess[b]] = m
  BY <1>2, PushesAre DEF OnlyTo, Quiet
<1> QED
  BY <1>1, <1>2, <1>3, WarningReaches

(***************************************************************************)
(* What a step at the server makes of a seat, and of what b is sent.       *)
(***************************************************************************)
StaysIn(s, r) == s \in viewers'[r] /\ sharerId'[r] = sharerId[r]

LEMMA SeatRemoved ==
  ASSUME RMTypeOK, NEW s \in Sessions, NEW t \in Sessions, t # s, RemoveSession(t),
         NEW r \in RoomIds, s \in viewers[r]
  PROVE  StaysIn(s, r) \/ (RemovalKind(t) # "none" /\ DepartureMessages(t)[s] = RoomEnded)
<1>1. CASE RemovalKind(t) = "room-ended" /\ sessionRooms[t] = r
  BY <1>1 DEF DepartureMessages
<1>2. CASE ~(RemovalKind(t) = "room-ended" /\ sessionRooms[t] = r)
  <2>1. sharerId'[r] = sharerId[r]
    BY <1>2 DEF RemoveSession, SharersWithout
  <2>2. s \in viewers'[r]
    BY <1>2 DEF RemoveSession, ViewersWithout
  <2> QED
    BY <2>1, <2>2 DEF StaysIn
<1> QED
  BY <1>1, <1>2

LEMMA SeatAtCreation ==
  ASSUME RMTypeOK, NEW s \in Sessions, NEW t \in Sessions, t # s, Shareless(t), NEW c \in RoomIds, CreateRoom(t, c),
         NEW r \in RoomIds, s \in viewers[r]
  PROVE  StaysIn(s, r)
<1>0. None \notin RoomIds /\ None \notin Sessions
  BY NoneAssumption
<1>1. RemovalKind(t) # "room-ended"
  BY <1>0 DEF RemovalKind, Shareless, RMTypeOK
<1>2. SharersWithout(t)[c] = sharerId[c] /\ SharersWithout(t)[r] = sharerId[r]
  BY <1>1 DEF SharersWithout
<1>3. sharerId[c] = None
  BY <1>2 DEF CreateRoom
<1>4. r # c
  BY <1>3 DEF RMTypeOK, RoomExists
<1>5. /\ sharerId'[r] = SharersWithout(t)[r]
      /\ viewers'[r] = ViewersWithout(t)[r]
  BY <1>4 DEF CreateRoom, SharersWithout, ViewersWithout
<1>6. s \in ViewersWithout(t)[r]
  BY <1>1 DEF ViewersWithout
<1> QED
  BY <1>2, <1>5, <1>6 DEF StaysIn

\* Sharers create a room when the server has them in none.
LEMMA CreatesShareless ==
  ASSUME ShownInv, Mannered, NEW x \in Apps, Serve(x), Head(up[x]).type = "create-room"
  PROVE  Seatless(sess[x]) /\ Shareless(sess[x])
<1>0. Typed /\ PlaceInv /\ SharersAsk /\ TableTypes /\ FrameTypes
  BY TypedIs DEF ShownInv
<1>1. up[x] # <<>> /\ up[x] \in Seq(UpFrames)
  BY <1>0, ServePushes, HeadOfUp
<1>2. PICK f \in UpFrames : f = Head(up[x]) /\ f = up[x][1] /\ 1 \in 1 .. Len(up[x])
  BY <1>1
<1>3. x \in CanShare
  BY <1>0, <1>2 DEF SharersAsk, Has
<1>4. InPlace(x)
  BY <1>0, <1>3 DEF Mannered, PlaceInv
<1>5. NoSeatAt(x, 1) /\ NoShareAt(x, 1)
  BY <1>2, <1>4 DEF InPlace, Orderly
<1> QED
  BY <1>5, NothingBefore DEF NoSeatAt, NoShareAt

LEMMA SeatMoves ==
  ASSUME ShownInv, Mannered, Next, NEW b \in Apps, online[b], NEW s \in Sessions, s = sess[b], s \notin gone,
         NEW r \in RoomIds, s \in viewers[r]
  PROVE  StaysIn(s, r) \/ WarnedAnew(b) \/ (Serve(b) /\ Head(up[b]).type \in {"leave-room", "create-room"})
<1>0. Typed /\ SessionsInv /\ TableTypes /\ FrameTypes /\ SharersTyped /\ RMTypeOK
  BY TypedIs DEF ShownInv, TableTypes
<1> DEFINE Fine == StaysIn(s, r) \/ WarnedAnew(b)
                   \/ (Serve(b) /\ Head(up[b]).type \in {"leave-room", "create-room"})
<1>1. ASSUME UNCHANGED rmVars PROVE Fine
  BY <1>1 DEF StaysIn, rmVars
<1>2. ASSUME NEW t \in Sessions, t # s, RemoveSession(t), RemovalKind(t) # "none" => Pushed(DepartureMessages(t))
      PROVE  Fine
  <2>1. StaysIn(s, r) \/ (RemovalKind(t) # "none" /\ DepartureMessages(t)[s] = RoomEnded)
    BY <1>0, <1>2, SeatRemoved
  <2>2. ASSUME Pushed(DepartureMessages(t)), DepartureMessages(t)[s] = RoomEnded PROVE WarnedAnew(b)
    <3>1. PICK msgs \in [Sessions -> DownFrames \union {Silence}] : msgs = DepartureMessages(t) /\ Pushed(msgs)
      BY <2>2, DeparturesAre
    <3>2. msgs[sess[b]].type \in Warning
      BY <2>2, <3>1 DEF RoomEnded, Warning
    <3> QED
      BY <1>0, <3>1, <3>2, WarningReaches
  <2> QED
    BY <1>2, <2>1, <2>2
<1>3. ASSUME NEW x \in Apps, Serve(x) PROVE Fine
  <2>1. PICK t \in Sessions : t = sess[x] /\ (t = s => x = b)
    BY <1>0 DEF TableTypes, SessionsInv
  <2>2. ASSUME NEW c \in RoomIds, CreateRoom(t, c), Head(up[x]).type = "create-room" PROVE Fine
    <3>1. CASE t = s
      BY <1>3, <2>1, <2>2, <3>1
    <3>2. CASE t # s
      <4>1. Shareless(t)
        BY <1>3, <2>1, <2>2, CreatesShareless
      <4> QED
        BY <1>0, <2>2, <3>2, <4>1, SeatAtCreation
    <3> QED
      BY <3>1, <3>2
  <2>3. ASSUME NEW c \in RoomIds, JoinRoom(c, t) PROVE Fine
    <3>1. CASE JoinResult(c, t) = "ok"
      BY <1>0, <2>3, <3>1 DEF JoinRoom, RMTypeOK, StaysIn
    <3>2. CASE JoinResult(c, t) # "ok"
      BY <1>1, <2>3, <3>2 DEF JoinRoom
    <3> QED
      BY <3>1, <3>2
  <2>4. ASSUME Head(up[x]).type = "leave-room", RemoveSession(t), RemovalKind(t) # "none" => Pushed(DepartureMessages(t))
        PROVE  Fine
    BY <1>2, <1>3, <2>1, <2>4
  <2>5. \/ Head(up[x]).type = "create-room" /\ \E c \in RoomIds : CreateRoom(t, c)
        \/ \E c \in RoomIds : JoinRoom(c, t)
        \/ /\ Head(up[x]).type = "leave-room" /\ RemoveSession(t)
           /\ RemovalKind(t) # "none" => Pushed(DepartureMessages(t))
        \/ UNCHANGED rmVars
    BY <1>0, <1>3, <2>1, ServeIs
  <2> HIDE DEF Fine
  <2> QED
    BY <1>1, <2>2, <2>3, <2>4, <2>5
<1>4. ASSUME SocketStep PROVE Fine
  <2>1. ASSUME NEW t \in Sessions, t \in gone, RemoveSession(t), Pushed(DepartureMessages(t)) PROVE Fine
    BY <1>2, <2>1
  <2> HIDE DEF Fine
  <2> QED
    BY <1>0, <1>1, <1>4, <2>1, SocketsDo
<1>5. ASSUME NEW x \in Apps, Receive(x) PROVE UNCHANGED rmVars
  BY <1>5 DEF Receive
<1>6. ASSUME NEW x \in CanShare, SharingStep(x) PROVE UNCHANGED rmVars
  BY <1>6, SharersStepIs, SharersSend
<1>7. ASSUME NEW x \in CanWatch, ViewingStep(x) PROVE UNCHANGED rmVars
  BY <1>7, ViewersStepIs, ViewersSend
<1> HIDE DEF Fine
<1>8. Fine
  BY <1>1, <1>3, <1>4, <1>5, <1>6, <1>7 DEF Next
<1> QED
  BY <1>8 DEF Fine

\* A signal that is pushed is one that was allowed.
LEMMA SignalPushed ==
  ASSUME Typed, Next, NEW y \in Apps, NEW g \in DownFrames, g.type \in {"offer", "answer"},
         Comes(y, g), down'[y] = down[y] \o <<g>>
  PROVE  \E x \in Apps : /\ Serve(x) /\ up[x] # <<>> /\ Head(up[x]) = To(sess[y], g)
                         /\ ResolveTarget(sess[x], sess[y]) = "ok" /\ UNCHANGED rmVars
<1>0. TableTypes /\ FrameTypes /\ sess[y] \in Sessions
  BY TypedIs DEF TableTypes
<1>1. PICK x \in Apps : Serve(x) /\ up[x] # <<>> /\ Head(up[x]) = To(sess[y], g)
  <2>1. \A s : ViewerJoined(s).type = "viewer-joined"
    BY KindsAre
  <2> QED
    BY <2>1 DEF Comes, Given
<1>2. PICK msgs \in [Sessions -> DownFrames \union {Silence}] :
        /\ Pushed(msgs)
        /\ \/ Plainly(msgs)
           \/ LET m == Head(up[x]) IN
              /\ m.type = "signal" /\ ResolveTarget(sess[x], m.to) = "ok"
              /\ msgs = OnlyTo(m.to, m.signal) /\ UNCHANGED rmVars
  BY <1>0, <1>1, ServePushes
<1>3. ~Plainly(msgs)
  <2> SUFFICES ASSUME Plainly(msgs) PROVE FALSE
    OBVIOUS
  <2>1. PICK q \in Seq(DownFrames) : q = down[y]
    BY <1>0 DEF FrameTypes
  <2>2. down'[y] = q \/ \E m \in DownFrames : m = msgs[sess[y]] /\ down'[y] = q \o <<m>>
    BY <1>0, <1>2, <2>1, PushedIs
  <2>3. PICK m \in DownFrames : m = msgs[sess[y]] /\ q \o <<g>> = q \o <<m>>
    <3>1. q \o <<g>> # q
      <4>1. Len(q \o <<g>>) = Len(q) + 1 /\ Len(q) \in Nat
        BY <2>1
      <4> QED
        BY <4>1
    <3> QED
      BY <2>1, <2>2, <3>1
  <2>4. m = g
    <3>1. (q \o <<g>>)[Len(q) + 1] = g /\ (q \o <<m>>)[Len(q) + 1] = m
      BY <2>1
    <3> QED
      BY <2>3, <3>1
  <2> QED
    BY <1>0, <2>3, <2>4 DEF Plainly
<1>4. Head(up[x]).to = sess[y]
  BY <1>1 DEF To
<1> QED
  BY <1>1, <1>2, <1>3, <1>4

LEMMA JoinAnswered ==
  ASSUME Typed, NEW b \in Apps, online[b], Serve(b), NEW r \in RoomIds, Head(up[b]) = JoinMsg(r)
  PROVE  sess[b] \in viewers'[r] \/ WarnedAnew(b)
<1>0. TableTypes /\ FrameTypes /\ RMTypeOK /\ sess[b] \in Sessions
  BY TypedIs DEF TableTypes
<1>1. Head(up[b]).type = "join-room" /\ Head(up[b]).room = r
  BY DEF JoinMsg
<1>2. /\ JoinRoom(r, sess[b])
      /\ \/ JoinResult(r, sess[b]) = "ok"
         \/ /\ JoinResult(r, sess[b]) \in ErrorCodes
            /\ Pushed(OnlyTo(sess[b], ErrorMsg(JoinResult(r, sess[b]))))
  BY <1>0, <1>1, ServeIs
<1>3. CASE JoinResult(r, sess[b]) = "ok"
  BY <1>0, <1>2, <1>3 DEF JoinRoom, RMTypeOK
<1>4. ASSUME NEW c \in ErrorCodes, Pushed(OnlyTo(sess[b], ErrorMsg(c))) PROVE WarnedAnew(b)
  BY <1>4, RefusalReaches
<1> QED
  BY <1>2, <1>3, <1>4

\* The server relays a signal, or refuses it.
LEMMA SignalServed ==
  ASSUME Typed, NEW x \in Apps, online[x], Serve(x), NEW y \in Apps, online[y], NEW g \in Signals,
         Head(up[x]) = To(sess[y], g)
  PROVE  down'[y] = down[y] \o <<g>> \/ (ResolveTarget(sess[x], sess[y]) # "ok" /\ WarnedAnew(x))
<1>0. TableTypes /\ FrameTypes /\ sess[x] \in Sessions /\ sess[y] \in Sessions
  BY TypedIs DEF TableTypes
<1>1. Head(up[x]).type = "signal" /\ Head(up[x]).to = sess[y] /\ Head(up[x]).signal = g
  BY DEF To
<1>2. \/ Pushed(OnlyTo(sess[y], g))
      \/ /\ ResolveTarget(sess[x], sess[y]) \in ErrorCodes
         /\ Pushed(OnlyTo(sess[x], ErrorMsg(ResolveTarget(sess[x], sess[y]))))
  BY <1>0, <1>1, ServeIs
<1>3. ASSUME Pushed(OnlyTo(sess[y], g)) PROVE down'[y] = down[y] \o <<g>>
  <2>1. g \in DownFrames /\ g # Silence
    BY DownFramesAre, PlainKinds
  <2>2. PICK msgs \in [Sessions -> DownFrames \union {Silence}] : msgs = OnlyTo(sess[y], g) /\ Pushed(msgs)
    BY <1>0, <1>3, <2>1, PushesAre
  <2>3. msgs[sess[y]] = g
    BY <1>0, <2>2 DEF OnlyTo, Quiet
  <2> QED
    BY <2>1, <2>2, <2>3, GivenIs
<1>4. ASSUME NEW c \in ErrorCodes, c = ResolveTarget(sess[x], sess[y]), Pushed(OnlyTo(sess[x], ErrorMsg(c)))
      PROVE  ResolveTarget(sess[x], sess[y]) # "ok" /\ WarnedAnew(x)
  <2>1. "ok" \notin ErrorCodes
    BY DEF ErrorCodes
  <2> QED
    BY <1>4, <2>1, RefusalReaches
<1> QED
  BY <1>2, <1>3, <1>4

(***************************************************************************)
(* The scene of what follows: a guest among sharers that are never in two  *)
(* places.                                                                 *)
(***************************************************************************)
Scene(b) == ShownInv /\ Mannered /\ Guest(b)

LEMMA SceneIs ==
  ASSUME NEW b \in CanWatch, Scene(b)
  PROVE  /\ Typed /\ SharerInv /\ SessionsInv /\ ViewerInv /\ NamesInv /\ PlaceInv /\ MeetInv
         /\ NumbersInv /\ RoundInv /\ IndoorsInv /\ AttendInv /\ SharersAsk /\ ShownInv /\ Mannered
         /\ b \in Apps /\ online[b] /\ sess[b] \in Sessions /\ sess[b] \notin gone
         /\ Guest(b) /\ Calm(b) /\ Calmly(b) /\ OneRole(b) /\ Attends(b)
         /\ \A a \in CanShare : a \in Apps /\ Tame(a) /\ InPlace(a) /\ InOrder(a) /\ MeetsInOrder(a, b)
         /\ Tidy(b)
<1>0. ShownInv /\ Mannered /\ Guest(b)
  BY DEF Scene
<1>1. /\ Typed /\ SharerInv /\ SessionsInv /\ ViewerInv /\ NamesInv /\ PlaceInv /\ MeetInv
      /\ NumbersInv /\ RoundInv /\ IndoorsInv /\ AttendInv /\ SharersAsk
  BY <1>0 DEF ShownInv
<1>2. b \in Apps /\ CanShare \subseteq Apps
  BY WatchersAssumption, SharersAssumption
<1>3. Calm(b) /\ Calmly(b) /\ OneRole(b) /\ Dropless(b) /\ Kept(b)
  BY <1>0, GuestIs
<1>4. online[b] /\ sess[b] \in Sessions /\ sess[b] \notin gone
  BY <1>1, <1>2, <1>3, TypedIs DEF IndoorsInv, Indoors, TableTypes
<1>5. \A a \in CanShare : Tame(a) /\ Steady(a)
  BY <1>0 DEF Mannered, Tame
<1>6. \A a \in CanShare : a \in Apps /\ InPlace(a) /\ InOrder(a) /\ MeetsInOrder(a, b)
  BY <1>1, <1>2, <1>3, <1>5 DEF PlaceInv, SharerInv, MeetInv
<1>7. Tidy(b)
  BY <1>1, <1>3 DEF ViewerInv
<1> QED
  BY <1>0, <1>1, <1>2, <1>3, <1>4, <1>5, <1>6, <1>7 DEF AttendInv

LEMMA SceneLater ==
  ASSUME NEW b \in CanWatch, Scene(b), Scene(b)', Next
  PROVE  /\ Untouched(b) /\ online'[b] /\ sess'[b] = sess[b] /\ Typed' /\ ShownInv' /\ Mannered' /\ AttendInv'
         /\ RoundInv' /\ PlaceInv'
         /\ Calm(b)' /\ OneRole(b)' /\ down'[b] \in Seq(DownFrames) /\ up'[b] \in Seq(UpFrames)
         /\ offers'[b] \in Seq(TakenOffers) /\ vw'[b] \in Watchers
<1>0. ShownInv' /\ Mannered' /\ Guest(b)'
  BY DEF Scene
<1>1. Typed' /\ IndoorsInv' /\ AttendInv' /\ RoundInv' /\ PlaceInv'
  BY <1>0 DEF ShownInv
<1>2. Calm(b)' /\ OneRole(b)' /\ Dropless(b)'
  BY <1>0, GuestLater
<1>3. b \in Apps /\ online[b] /\ Typed /\ SessionsInv
  BY SceneIs
<1>4. online'[b]
  BY <1>1, <1>2, <1>3 DEF IndoorsInv, Indoors
<1>5. Untouched(b)
  BY <1>3, <1>4, ConnectionMoves DEF Broken, Renewed
<1>6. FrameTypes' /\ ViewersTyped'
  BY <1>1, TypedAfter
<1> QED
  BY <1>0, <1>1, <1>2, <1>3, <1>4, <1>5, <1>6 DEF Untouched, FrameTypes, ViewersTyped, WatchTypes

LEMMA TailAt ==
  ASSUME NEW S, NEW q \in Seq(S), q # <<>>, NEW i \in 1 .. Len(Tail(q))
  PROVE  i + 1 \in 2 .. Len(q) /\ Tail(q)[i] = q[i + 1]
OBVIOUS

LEMMA LongerAt ==
  ASSUME NEW S, NEW q \in Seq(S), NEW x \in S, NEW r, r = q \o <<x>> \/ r = q \o <<x, x>>, NEW i \in 1 .. Len(r)
  PROVE  r[i] = x \/ (i \in 1 .. Len(q) /\ r[i] = q[i])
<1>1. CASE r = q \o <<x>>
  BY <1>1
<1>2. CASE r = q \o <<x, x>>
  BY <1>2
<1> QED
  BY <1>1, <1>2

\* What b sends, in a step of its own or not.
LEMMA GuestLinks ==
  ASSUME NEW b \in CanWatch, Scene(b), Scene(b)', Next
  PROVE  Waits(b) \/ IsServed(b) \/ \E f \in UpFrames : Sends(b, f)
<1>1. Typed /\ SessionsInv /\ b \in Apps /\ online[b] /\ online'[b]
  BY SceneIs, SceneLater
<1> QED
  BY <1>1, LinkMoves DEF Broken, Renewed

\* A guest joins when all is settled.
LEMMA GuestJoins ==
  ASSUME NEW b \in CanWatch, Scene(b), Scene(b)', Next, Joins(b)
  PROVE  /\ \E r \in RoomIds : up'[b] = <<JoinMsg(r)>> /\ vw'[b].room = r
         /\ vw'[b].state = "connecting" /\ up[b] = <<>> /\ down'[b] = <<>> /\ down[b] = <<>>
         /\ offers[b] = <<>> /\ offers'[b] = <<>> /\ ~Unsettled(b) /\ ~Sharing(b)
         /\ UNCHANGED <<rmVars, sess, down>>
<1>0. Typed /\ NamesInv /\ online[b] /\ Calm(b)' /\ OneRole(b)' /\ b \in Apps /\ up \in [Apps -> Seq(UpFrames)]
      /\ vw \in [CanWatch -> Watchers]
  BY SceneIs, SceneLater, TypedIs DEF FrameTypes, ViewersTyped, WatchTypes
<1>1. PICK r \in RoomIds : Join(b, r)
  BY JoinsIs
<1>2. /\ vw[b].state \in Away /\ vw'[b].state = "connecting" /\ UNCHANGED <<down, offers>>
      /\ up[b] = <<>> /\ down[b] = <<>> /\ offers[b] = <<>>
  BY <1>0, JoinsConnect
<1>3. up' = Sent(b, <<JoinMsg(r)>>) /\ UNCHANGED <<rmVars, sess>>
  BY <1>1 DEF Join
<1>4. up'[b] = <<JoinMsg(r)>>
  <2>1. up'[b] = up[b] \o <<JoinMsg(r)>>
    BY <1>0, <1>3 DEF Sent
  <2> QED
    BY <1>2, <2>1, UpFramesAre
<1>5. vw'[b].room = r
  BY <1>0, <1>1 DEF Join, Watchers
<1> QED
  BY <1>0, <1>2, <1>3, <1>4, <1>5, JoinsSettled, JoinsAlone

LEMMA GuestLeaves ==
  ASSUME NEW b \in CanWatch, Typed, Leaves(b)
  PROVE  vw'[b].room = None /\ vw'[b].state = "idle" /\ vw'[b].remote = NoOffer /\ offers'[b] = <<>>
<1>1. CleanUpWatch(b, "idle", None, 0) /\ ViewersTyped
  BY TypedIs, LeavesIs DEF Leave
<1> QED
  BY <1>1, WentAway DEF CleanedUp

\* A room is entered by joining and left by leaving.
LEMMA RoomGoes ==
  ASSUME NEW b \in CanWatch, Typed, Next
  PROVE  vw'[b].room = vw[b].room \/ Joins(b) \/ (Leaves(b) /\ vw'[b].room = None)
<1>1. WatcherGoes(b)
  BY WatcherMoves
<1>2. CASE Rests(b) \/ Replies(b) \/ Rejects(b) \/ Fades(b) \/ Shows(b)
  BY <1>2 DEF Rests, Replies, Rejects, Fades, Shows, SameStay
<1> QED
  BY <1>1, <1>2 DEF WatcherGoes, JoinsRoom, LeavesRoom, Welcomes, TurnsAway

(***************************************************************************)
(* A guest's join-room is of the room it shows, and a leave-room is sent   *)
(* by who shows none.                                                      *)
(***************************************************************************)
JoinsItsRoom(b) ==
  \A i \in 1 .. Len(up[b]) :
    up[b][i].type = "join-room" => i = 1 /\ vw[b].room \in {up[b][i].room, None}
LeavesBehind(b) ==
  \A i \in 1 .. Len(up[b]) : up[b][i].type = "leave-room" => vw[b].room = None

LEMMA JoinsItsRoomStep ==
  ASSUME NEW b \in CanWatch, Scene(b), Scene(b)', Next, JoinsItsRoom(b)
  PROVE  JoinsItsRoom(b)'
<1>0. Typed /\ SessionsInv /\ b \in Apps
  BY SceneIs
<1>1. PICK q \in Seq(UpFrames), q1 \in Seq(UpFrames) : q = up[b] /\ q1 = up'[b]
  BY <1>0, TypedIs, SceneLater DEF FrameTypes
<1> SUFFICES ASSUME NEW i \in 1 .. Len(q1), q1[i].type = "join-room"
             PROVE  i = 1 /\ vw'[b].room \in {q1[i].room, None}
  BY <1>1 DEF JoinsItsRoom
<1>2. CASE Joins(b)
  <2>1. PICK r \in RoomIds : q1 = <<JoinMsg(r)>> /\ vw'[b].room = r
    BY <1>1, <1>2, GuestJoins
  <2>2. i = 1 /\ q1[i] = JoinMsg(r)
    BY <2>1
  <2> QED
    BY <2>1, <2>2 DEF JoinMsg
<1>3. CASE ~Joins(b)
  <2>1. vw'[b].room \in {vw[b].room, None}
    BY <1>0, <1>3, RoomGoes
  <2>2. \A j \in 1 .. Len(q) : q[j].type = "join-room" => j = 1 /\ vw[b].room \in {q[j].room, None}
    BY <1>1 DEF JoinsItsRoom
  <2>3. CASE q1 = q
    BY <2>1, <2>2, <2>3
  <2>4. CASE q # <<>> /\ q1 = Tail(q)
    <3>1. i + 1 \in 2 .. Len(q) /\ q1[i] = q[i + 1]
      BY <1>1, <2>4, TailAt
    <3> QED
      BY <2>2, <3>1
  <2>5. ASSUME NEW f \in UpFrames, Sends(b, f) PROVE i = 1 /\ vw'[b].room \in {q1[i].room, None}
    <3>1. f.type # "join-room"
      BY <1>0, <1>3, <2>5, GoesKinds DEF Sends
    <3>2. q1 = q \o <<f>> \/ q1 = q \o <<f, f>>
      BY <1>1, <2>5 DEF Sends
    <3>3. i \in 1 .. Len(q) /\ q1[i] = q[i]
      BY <3>1, <3>2, LongerAt
    <3> QED
      BY <2>1, <2>2, <3>3
  <2> QED
    BY <1>1, <2>3, <2>4, <2>5, GuestLinks DEF Waits, IsServed
<1> QED
  BY <1>2, <1>3

LEMMA LeavesBehindStep ==
  ASSUME NEW b \in CanWatch, Scene(b), Scene(b)', Next, LeavesBehind(b)
  PROVE  LeavesBehind(b)'
<1>0. Typed /\ SessionsInv /\ b \in Apps /\ Attends(b) /\ (b \in CanShare => Apart(b))
  BY SceneIs DEF InPlace
<1>1. PICK q \in Seq(UpFrames), q1 \in Seq(UpFrames) : q = up[b] /\ q1 = up'[b]
  BY <1>0, TypedIs, SceneLater DEF FrameTypes
<1> SUFFICES ASSUME NEW i \in 1 .. Len(q1), q1[i].type = "leave-room"
             PROVE  vw'[b].room = None
  BY <1>1 DEF LeavesBehind
<1>2. CASE Joins(b)
  <2>1. PICK r \in RoomIds : q1 = <<JoinMsg(r)>>
    BY <1>1, <1>2, GuestJoins
  <2>2. q1[i] = JoinMsg(r)
    BY <2>1
  <2> QED
    BY <2>2 DEF JoinMsg
<1>3. CASE ~Joins(b)
  <2>1. vw[b].room = None => vw'[b].room = None
    BY <1>0, <1>3, RoomGoes
  <2>2. \A j \in 1 .. Len(q) : q[j].type = "leave-room" => vw[b].room = None
    BY <1>1 DEF LeavesBehind
  <2>3. CASE q1 = q
    BY <2>1, <2>2, <2>3
  <2>4. CASE q # <<>> /\ q1 = Tail(q)
    <3>1. i + 1 \in 2 .. Len(q) /\ q1[i] = q[i + 1]
      BY <1>1, <2>4, TailAt
    <3> QED
      BY <2>1, <2>2, <3>1
  <2>5. ASSUME NEW f \in UpFrames, Sends(b, f) PROVE vw'[b].room = None
    <3>1. CASE f.type = "leave-room"
      <4>1. CASE b \in CanShare /\ sh[b].state # "idle"
        BY <1>0, <2>1, <4>1 DEF Apart, Watching, Sharing, Attends
      <4>2. CASE Leaves(b)
        BY <1>0, <4>2, GuestLeaves
      <4> QED
        BY <1>0, <2>5, <3>1, <4>1, <4>2, LeaveFrom
    <3>2. CASE f.type # "leave-room"
      <4>1. q1 = q \o <<f>> \/ q1 = q \o <<f, f>>
        BY <1>1, <2>5 DEF Sends
      <4>2. i \in 1 .. Len(q) /\ q1[i] = q[i]
        BY <3>2, <4>1, LongerAt
      <4> QED
        BY <2>1, <2>2, <4>2
    <3> QED
      BY <3>1, <3>2
  <2> QED
    BY <1>1, <2>3, <2>4, <2>5, GuestLinks DEF Waits, IsServed
<1> QED
  BY <1>2, <1>3

\* An answer that the sharer hears is one that has come back.
LEMMA HeardReplied ==
  ASSUME NEW a, NEW b, NEW o \in TakenOffers, IsOffered(a, b, o), Meets(a, b),
         NEW d \in Nat, NEW k \in Nat, Has(down[a], Answer(sess[b], d, k))
  PROVE  Replied(a, b, o) /\ d = o.conn
<1>1. Returned(a, b, d, k)
  BY DEF Returned
<1>2. d = o.conn
  BY <1>1 DEF Meets, IsOffered
<1>3. PICK f : f = Answer(sess[b], o.conn, k)
  OBVIOUS
<1>4. f \in AnswersOf(sess[b], o) /\ Has(down[a], f)
  BY <1>2, <1>3, RoundFrames
<1> QED
  BY <1>2, <1>4 DEF Replied, Among, Has

\* Who shows a viewer something knows of which room.
KnowsRoom(b) == Waiting(b) => vw[b].room # None

\* A guest that shows nothing has no connection, and shows something only by joining.
LEMMA ShowsByJoining ==
  ASSUME NEW b \in CanWatch, Scene(b), Next, ~Waiting(b), Waiting(b)'
  PROVE  Joins(b)
<1>0. Typed /\ vw[b] \in Watchers /\ Tidy(b) /\ \A s \in Away : s \notin {"connecting", "connected", "reconnecting"}
  BY SceneIs, TypedIs, WatcherIs DEF Away
<1>1. vw[b].conn = 0 /\ vw[b].remote = NoOffer
  BY <1>0 DEF Tidy, Waiting, Watchers, Away
<1>2. WatcherGoes(b)
  BY <1>0, WatcherMoves
<1> QED
  BY <1>0, <1>1, <1>2 DEF WatcherGoes, Rests, JoinsRoom, LeavesRoom, Replies, Rejects, Fades, Shows, Welcomes,
                          TurnsAway, Waiting

LEMMA KnowsRoomStep ==
  ASSUME NEW b \in CanWatch, Scene(b), Scene(b)', Next, KnowsRoom(b)
  PROVE  KnowsRoom(b)'
<1> SUFFICES ASSUME Waiting(b)' PROVE vw'[b].room # None
  BY DEF KnowsRoom
<1>0. Typed /\ online[b] /\ None \notin RoomIds
  BY SceneIs, NoneAssumption
<1>2. CASE Waiting(b) /\ ~Joins(b)
  <2>1. ~Leaves(b)
    BY <1>0, GuestLeaves DEF Waiting
  <2> QED
    BY <1>0, <1>2, <2>1, RoomGoes DEF KnowsRoom
<1>3. CASE Joins(b)
  BY <1>0, <1>3, GuestJoins
<1> QED
  BY <1>2, <1>3, ShowsByJoining

(***************************************************************************)
(* Every room has a sharer that is connected, or one whose session the     *)
(* server is still to forget.                                              *)
(***************************************************************************)
HostedBy(s) == (s \in gone /\ Indexed(s)) \/ \E a \in CanShare : online[a] /\ sess[a] = s
RoomsHosted == \A r \in RoomIds : sharerId[r] # None => HostedBy(sharerId[r])

LEMMA ForgetsIs ==
  ASSUME Typed, Next, NEW s \in gone, s \notin gone'
  PROVE  RemoveSession(s)
<1>0. TableTypes /\ FrameTypes /\ SharersTyped
  BY TypedIs
<1>1. ASSUME NEW x \in Apps, Receive(x) \/ Serve(x) PROVE UNCHANGED gone
  BY <1>0, <1>1, ServePushes DEF Receive
<1>2. ASSUME NEW x \in CanShare, SharingStep(x) PROVE UNCHANGED gone
  BY <1>2, SharersStepIs, SharersSend
<1>3. ASSUME NEW x \in CanWatch, ViewingStep(x) PROVE UNCHANGED gone
  BY <1>3, ViewersStepIs, ViewersSend
<1>4. SocketStep
  BY <1>1, <1>2, <1>3 DEF Next
<1> QED
  BY <1>0, <1>4, SocketsDo

\* The server does nothing to a broken session's place before it forgets it.
LEMMA GoneIndexed ==
  ASSUME Typed, SessionsInv, IndoorsInv, Next, NEW s \in gone, Indexed(s)
  PROVE  Indexed(s)'
<1>0. TableTypes /\ FrameTypes /\ RMTypeOK /\ s \in Sessions
  BY TypedIs DEF TableTypes
<1>1. ASSUME UNCHANGED rmVars PROVE Indexed(s)'
  BY <1>1 DEF rmVars, Indexed
<1>2. ASSUME NEW x \in Apps, Serve(x) PROVE Indexed(s)'
  <2>1. up[x] # <<>>
    BY <1>0, <1>2, ServePushes
  <2>2. online[x]
    BY <2>1 DEF SessionsInv
  <2>3. PICK t \in Sessions : t = sess[x] /\ t # s
    BY <1>0, <2>2 DEF IndoorsInv, Indoors, TableTypes
  <2>4. \/ \E c \in RoomIds : CreateRoom(t, c) \/ JoinRoom(c, t)
        \/ RemoveSession(t) \/ UNCHANGED rmVars
    BY <1>0, <1>2, <2>3, ServeIs
  <2> QED
    BY <1>0, <1>1, <2>3, <2>4, CreationPlaces, JoinPlaces, RemovalPlaces
<1> QED
  BY <1>0, <1>1, <1>2, TableMoves, RemovalPlaces

LEMMA RoomsHostedStep ==
  ASSUME ShownInv, Mannered, Next, RoomsHosted
  PROVE  RoomsHosted'
<1>0. /\ Typed /\ SessionsInv /\ IndoorsInv /\ PlaceInv /\ SharersAsk /\ TableTypes /\ FrameTypes /\ RMTypeOK
      /\ \A a \in CanShare : a \in Apps /\ Indexed(sess[a])
  BY TypedIs, SharersAssumption DEF ShownInv, TableTypes, Mannered, PlaceInv, InPlace
<1>1. SUFFICES ASSUME NEW r \in RoomIds, NEW s \in Sessions, s = sharerId'[r] PROVE HostedBy(s)'
  <2>2. RMTypeOK'
    BY <1>0, TypedStep, TypedIs, TypedAfter DEF TableTypes
  <2> QED
    BY <2>2 DEF RoomsHosted, RMTypeOK
<1>2. CASE sharerId[r] = s
  <2>0. s # None
    BY NoneAssumption
  <2>1. CASE s \in gone /\ Indexed(s)
    <3>1. Indexed(s)'
      BY <1>0, <2>1, GoneIndexed
    <3>2. ~RemoveSession(s) \/ ~Shareless(s)'
      BY <1>1 DEF Shareless
    <3>3. s \in gone'
      <4>1. CASE RemoveSession(s)
        <5>1. Shareless(s)'
          BY <1>0, <2>1, <4>1, RemovalPlaces
        <5> QED
          BY <5>1, <1>1 DEF Shareless
      <4> QED
        BY <1>0, <2>1, <4>1, ForgetsIs
    <3> QED
      BY <3>1, <3>3 DEF HostedBy
  <2>2. ASSUME NEW a \in CanShare, online[a], sess[a] = s PROVE HostedBy(s)'
    <3>1. CASE online'[a] /\ sess'[a] = s
      BY <3>1 DEF HostedBy
    <3>2. CASE ~(online'[a] /\ sess'[a] = s)
      <4>1. PICK x \in Apps : Drop(x) /\ online' = [online EXCEPT ![x] = FALSE] /\ gone' = gone \union {sess[x]}
                              /\ UNCHANGED sess
        BY <1>0, <2>2, <3>2, GoneMoves DEF TableTypes
      <4>2. x = a
        BY <1>0, <2>2, <3>2, <4>1 DEF TableTypes
      <4>3. UNCHANGED rmVars
        BY <4>1, DropIs
      <4>4. Indexed(s)
        BY <1>0, <2>2
      <4>5. Indexed(s)'
        BY <4>3, <4>4 DEF rmVars, Indexed
      <4> QED
        BY <2>2, <4>1, <4>2, <4>5 DEF HostedBy
    <3> QED
      BY <3>1, <3>2
  <2> QED
    BY <1>2, <2>0, <2>1, <2>2 DEF RoomsHosted, HostedBy
<1>3. CASE sharerId[r] # s
  <2>0. ASSUME NEW t \in Sessions, RemoveSession(t) PROVE FALSE
    BY <1>1, <1>3, <2>0, NoneAssumption DEF RemoveSession, SharersWithout
  <2>1. PICK x \in Apps : Serve(x)
    BY <1>0, <1>1, <1>3, <2>0, TableMoves DEF rmVars
  <2>2. ASSUME NEW t \in Sessions, NEW c \in RoomIds, CreateRoom(t, c) PROVE s = t
    <3>1. None \notin Sessions
      BY NoneAssumption
    <3>2. CASE r = c
      BY <1>1, <2>2, <3>2 DEF CreateRoom, SharersWithout
    <3>3. CASE r # c
      <4>1. sharerId'[r] = SharersWithout(t)[r]
        BY <2>2, <3>3 DEF CreateRoom, SharersWithout
      <4> QED
        BY <1>1, <1>3, <3>1, <4>1 DEF SharersWithout
    <3> QED
      BY <3>2, <3>3
  <2>3. Head(up[x]).type = "create-room" /\ s = sess[x]
    BY <1>0, <1>1, <1>3, <2>0, <2>1, <2>2, ServeIs DEF rmVars, JoinRoom, TableTypes
  <2>4. up[x] # <<>> /\ UNCHANGED <<sess, online>>
    BY <1>0, <2>1, ServePushes
  <2>5. x \in CanShare
    <3>1. PICK q \in Seq(UpFrames), f \in UpFrames : q = up[x] /\ f = Head(q) /\ Has(q, f)
      BY <1>0, <2>4, QueueShrinks DEF FrameTypes
    <3> QED
      BY <1>0, <2>3, <3>1 DEF SharersAsk
  <2>6. online[x]
    BY <1>0, <2>4 DEF SessionsInv
  <2> QED
    BY <2>3, <2>4, <2>5, <2>6 DEF HostedBy
<1> QED
  BY <1>2, <1>3

(***************************************************************************)
(* A sharer that knows of a guest whose session watches its room is one    *)
(* whose room the guest shows.                                             *)
(***************************************************************************)
Knows(a, b) ==
  \/ entry[a][sess[b]] # NoEntry \/ Told(a, b)
  \/ \E c \in Nat : Has(up[a], To(sess[b], Offer(sess[a], c)))
Tied(a, b) ==
  Knows(a, b) => \A r \in RoomIds :
    sharerId[r] = sess[a] /\ sess[b] \in viewers[r] => vw[b].room \in {r, None}

LEMMA GuestJoinsQuietly ==
  ASSUME NEW b \in CanWatch, Typed, Next, Joins(b)
  PROVE  Quietly /\ \E r \in RoomIds : JoinsRoom(b, r)
<1>0. vw[b].state \in Away /\ vw'[b].state = "connecting" /\ "connecting" \notin Away
  <2>1. vw \in [CanWatch -> Watchers]
    BY TypedIs DEF ViewersTyped, WatchTypes
  <2>2. PICK r \in RoomIds : Join(b, r)
    BY JoinsIs
  <2> QED
    BY <2>1, <2>2 DEF Join, Watchers, Away
<1>1. WatcherGoes(b)
  BY WatcherMoves
<1>2. \E r \in RoomIds : JoinsRoom(b, r)
  BY <1>0, <1>1 DEF WatcherGoes, Rests, LeavesRoom, Replies, Rejects, Fades, Shows, Welcomes, TurnsAway, Away
<1> QED
  BY <1>2 DEF JoinsRoom

\* The sharer of the room is who is told of a new viewer.
LEMMA JoinTold ==
  ASSUME Typed, NEW b \in Apps, Serve(b), NEW r \in RoomIds, Head(up[b]) = JoinMsg(r), NEW a \in Apps,
         NEW v \in Sessions, Has(down'[a], ViewerJoined(v)), ~Has(down[a], ViewerJoined(v))
  PROVE  sharerId[r] = sess[a] /\ UNCHANGED sharerId
<1>0. /\ TableTypes /\ FrameTypes /\ sess[b] \in Sessions /\ sess[a] \in Sessions
      /\ JoinMsg(r).type = "join-room" /\ JoinMsg(r).room = r
  BY TypedIs DEF TableTypes, JoinMsg
<1>1. PICK s \in Sessions : s = sess[b]
  BY <1>0
<1>2. ASSUME JoinResult(r, s) \in ErrorCodes, Pushed(OnlyTo(s, ErrorMsg(JoinResult(r, s)))) PROVE FALSE
  <2>1. PICK m : m = ErrorMsg(JoinResult(r, s))
    OBVIOUS
  <2>2. m \in DownFrames /\ m # ViewerJoined(v) /\ Silence # ViewerJoined(v)
    BY <1>2, <2>1, DownFramesAre, TellingFrames
  <2>3. OnlyTo(s, m) \in [Sessions -> DownFrames \union {Silence}] /\ OnlyTo(s, m)[sess[a]] \in {m, Silence}
    BY <1>0, <2>2, PushesAre DEF OnlyTo, Quiet
  <2> QED
    BY <1>0, <1>2, <2>1, <2>2, <2>3, PushedOnce
<1>3. ASSUME JoinResult(r, s) = "ok", JoinRoom(r, s), sharerId[r] \in Sessions,
             Pushed([Quiet EXCEPT ![s] = RoomJoined(r, sharerId[r]), ![sharerId[r]] = ViewerJoined(s)])
      PROVE  sharerId[r] = sess[a] /\ UNCHANGED sharerId
  <2>1. UNCHANGED sharerId
    BY <1>3 DEF JoinRoom
  <2>2. PICK h \in Sessions, g \in DownFrames, j \in DownFrames :
               h = sharerId[r] /\ g = RoomJoined(r, h) /\ j = ViewerJoined(s)
    BY <1>3, DownFramesAre
  <2>3. PICK msgs : msgs = [Quiet EXCEPT ![s] = g, ![h] = j]
    OBVIOUS
  <2>4. /\ msgs \in [Sessions -> DownFrames \union {Silence}]
        /\ sess[a] # h => msgs[sess[a]] \in {g, Silence}
    BY <1>0, <2>3 DEF Quiet
  <2>5. g # ViewerJoined(v) /\ Silence # ViewerJoined(v)
    BY <2>2, TellingFrames
  <2>6. Pushed(msgs)
    BY <1>3, <2>2, <2>3
  <2>7. msgs[sess[a]] = ViewerJoined(v)
    BY <1>0, <2>4, <2>6, PushedOnce
  <2> QED
    BY <2>1, <2>2, <2>4, <2>5, <2>7
<1> QED
  BY <1>0, <1>1, <1>2, <1>3, ServeIs

LEMMA TiedStep ==
  ASSUME NEW b \in CanWatch, Scene(b), Scene(b)', Next, NEW a \in CanShare, Tied(a, b), JoinsItsRoom(b)
  PROVE  Tied(a, b)'
<1>0. /\ Typed /\ TableTypes /\ FrameTypes /\ SessionsInv /\ NamesInv /\ PlaceInv /\ MeetInv /\ b \in Apps
      /\ a \in Apps /\ sess[b] \in Sessions /\ sess[a] \in Sessions /\ sess'[b] = sess[b]
      /\ Indexed(sess[a]) /\ MeetsInOrder(a, b) /\ up \in [Apps -> Seq(UpFrames)] /\ RMTypeOK
  BY SceneIs, SceneLater, TypedIs DEF TableTypes, InPlace, FrameTypes
<1> SUFFICES ASSUME Knows(a, b)', NEW r \in RoomIds, sharerId'[r] = sess'[a], sess[b] \in viewers'[r]
             PROVE  vw'[b].room \in {r, None}
  BY <1>0 DEF Tied
<1>1. CASE Joins(b)
  <2>0. Quietly /\ Untouched(b) /\ \E q \in RoomIds : up'[b] = <<JoinMsg(q)>>
    BY <1>0, <1>1, GuestJoins, GuestJoinsQuietly, SceneLater
  <2>1. ~Unsettled(b) /\ \E q \in RoomIds : up' = Sent(b, <<JoinMsg(q)>>)
    BY <1>0, <1>1, GuestJoins, GuestJoinsQuietly DEF JoinsRoom
  <2>2. entry[a][sess[b]] = NoEntry /\ NoneUnderWay(a, b) /\ ~Told(a, b)
    BY <1>0, <2>1, SettledIs
  <2>3. UNCHANGED <<entry, down, sess>>
    BY <2>0 DEF Quietly, shVars
  <2>4. entry'[a][sess'[b]] = NoEntry /\ ~Told(a, b)'
    BY <2>2, <2>3 DEF Told
  <2>5. ASSUME NEW c \in Nat, Has(up'[a], To(sess[b], Offer(sess[a], c))) PROVE FALSE
    <3>1. CASE a = b
      <4>1. PICK q \in RoomIds : up'[a] = <<JoinMsg(q)>>
        BY <2>0, <3>1
      <4>2. JoinMsg(q) # To(sess[b], Offer(sess[a], c))
        BY DEF JoinMsg, To
      <4> QED
        BY <2>5, <4>1, <4>2 DEF Has
    <3>2. CASE a # b
      <4>1. up'[a] = up[a]
        BY <1>0, <2>1, <3>2 DEF Sent
      <4> QED
        BY <2>2, <2>5, <4>1 DEF NoneUnderWay, UnderWay
    <3> QED
      BY <3>1, <3>2
  <2> QED
    BY <2>3, <2>4, <2>5 DEF Knows
<1>2. CASE Serve(b) /\ Head(up[b]).type = "join-room"
  <2>0. /\ UNCHANGED <<sess, shVars, vwVars>> /\ up[b] # <<>> /\ up' = [up EXCEPT ![b] = Tail(up[b])]
        /\ up[b] \in Seq(UpFrames)
    BY <1>0, <1>2, ServePushes
  <2>1. PICK q \in RoomIds : Head(up[b]) = JoinMsg(q)
    <3>1. Head(up[b]) \in UpFrames
      BY <2>0
    <3> QED
      BY <1>2, <3>1 DEF UpFrames, JoinMsg
  <2>2. 1 \in 1 .. Len(up[b]) /\ up[b][1] = JoinMsg(q) /\ JoinMsg(q).type = "join-room" /\ JoinMsg(q).room = q
    BY <2>0, <2>1 DEF JoinMsg
  <2>3. Asks(b)
    BY <2>2 DEF Asks, Has
  <2>4. entry[a][sess[b]] = NoEntry /\ NoneUnderWay(a, b) /\ ~Told(a, b)
    BY <1>0, <2>3 DEF MeetsInOrder, Asking
  <2>5. UNCHANGED entry /\ UNCHANGED vw
    BY <2>0 DEF shVars, vwVars
  <2>6. ASSUME NEW c \in Nat, Has(up'[a], To(sess[b], Offer(sess[a], c))) PROVE FALSE
    <3>1. Goes(a, To(sess[b], Offer(sess[a], c))) => entry[a][sess[b]].phase = "offering"
      BY OfferGoes
    <3>2. Has(up[a], To(sess[b], Offer(sess[a], c)))
      BY <1>0, <2>4, <2>6, <3>1, UpHas DEF NoEntry
    <3> QED
      BY <2>4, <3>2 DEF NoneUnderWay, UnderWay
  <2>7. Told(a, b)'
    BY <2>0, <2>4, <2>5, <2>6 DEF Knows
  <2>8. sharerId[q] = sess[a] /\ UNCHANGED sharerId
    BY <1>0, <1>2, <2>0, <2>1, <2>4, <2>7, JoinTold DEF Told
  <2>9. r = q
    <3>1. sharerId[r] = sess[a]
      BY <2>0, <2>8
    <3> QED
      BY <1>0, <2>8, <3>1 DEF Indexed
  <2> QED
    BY <2>2, <2>5, <2>9 DEF JoinsItsRoom
<1>3. CASE ~Joins(b) /\ ~(Serve(b) /\ Head(up[b]).type = "join-room")
  <2>1. sess[b] \in viewers[r] /\ sharerId'[r] = sharerId[r]
    BY <1>0, <1>3, SeatsKept
  <2>2. sess'[a] = sess[a]
    <3>1. sess'[a] \in used
      <4>1. sess'[a] \in Sessions
        BY <1>0, SceneLater, TypedAfter DEF TableTypes
      <4> QED
        BY <1>0, <2>1, <4>1, NoneAssumption DEF PlaceInv, TablesInUse
    <3> QED
      BY <1>0, <3>1, ConnectionMoves DEF Untouched, Broken, Renewed
  <2>3. Knows(a, b)
    <3>1. CASE entry'[a][sess[b]] # NoEntry
      <4>1. EntryGoes(a, sess[b])
        BY <1>0, EntryMoves
      <4>2. entry[a][sess[b]] # NoEntry \/ (down[a] # <<>> /\ Head(down[a]) = ViewerJoined(sess[b]))
        BY <3>1, <4>1 DEF EntryGoes, NoEntry
      <4>3. ASSUME down[a] # <<>>, Head(down[a]) = ViewerJoined(sess[b]) PROVE Told(a, b)
        <5>1. down[a] \in Seq(DownFrames)
          BY <1>0, HeadOfDown, <4>3
        <5>2. 1 \in 1 .. Len(down[a]) /\ down[a][1] = ViewerJoined(sess[b])
          BY <4>3, <5>1
        <5> QED
          BY <5>2 DEF Told, Has
      <4> QED
        BY <4>2, <4>3 DEF Knows
    <3>2. CASE Told(a, b)'
      <4>1. Has(down'[a], ViewerJoined(sess[b]))
        BY <1>0, <3>2 DEF Told
      <4>2. ASSUME Comes(a, ViewerJoined(sess[b])) PROVE FALSE
        <5>1. PICK x \in Apps : Serve(x) /\ Head(up[x]).type = "join-room" /\ sess[b] = sess[x]
          BY <1>0, <4>2, JoinedComes
        <5>2. x = b
          BY <1>0, <5>1 DEF SessionsInv
        <5> QED
          BY <1>3, <5>1, <5>2
      <4> QED
        BY <1>0, <4>1, <4>2, DownHas DEF Told, Knows
    <3>3. ASSUME NEW c \in Nat, Has(up'[a], To(sess[b], Offer(sess[a], c))) PROVE Knows(a, b)
      <4>1. Goes(a, To(sess[b], Offer(sess[a], c))) => entry[a][sess[b]].phase = "offering"
        BY OfferGoes
      <4> QED
        BY <1>0, <3>3, <4>1, UpHas DEF Knows, NoEntry
    <3> QED
      BY <1>0, <2>2, <3>1, <3>2, <3>3 DEF Knows
  <2>4. vw[b].room \in {r, None}
    BY <2>1, <2>2, <2>3 DEF Tied
  <2> QED
    BY <1>0, <1>3, <2>4, RoomGoes
<1> QED
  BY <1>1, <1>2, <1>3

(***************************************************************************)
(* A guest that waits has a seat in the room it shows, is still to be given*)
(* one, or is warned.                                                      *)
(***************************************************************************)
HasSeat(b) ==
  Waiting(b) => \/ IsWarned(b) \/ sess[b] \in viewers[vw[b].room]
                \/ up[b] # <<>> /\ Head(up[b]) = JoinMsg(vw[b].room)
\* The room that b shows is shared by session s, and b's session watches it.
Hosted(b, s) ==
  vw[b].room = None \/ (sharerId[vw[b].room] = s /\ sess[b] \in viewers[vw[b].room])

LEMMA WarnedLasts ==
  ASSUME NEW b \in CanWatch, Scene(b), Scene(b)', Next, vw[b].listening # 0, IsWarned(b)
  PROVE  IsWarned(b)' \/ TurnsAway(b)
<1>0. Typed /\ b \in Apps /\ online'[b] /\ "offer" \notin Warning /\ \A p : OfferOf(p).type = "offer"
  BY SceneIs, SceneLater DEF Warning, OfferOf, Offer
<1>1. CASE Receive(b) /\ Head(down[b]).type \in Warning
  <2>1. ~Rests(b)
    BY <1>1 DEF Rests
  <2>2. ~Welcomes(b)
    BY <1>0, <1>1 DEF Welcomes
  <2> QED
    BY <1>0, <1>1, <2>1, <2>2, WatcherHears
<1> QED
  BY <1>0, <1>1, WarnedStays

LEMMA SeatLasts ==
  ASSUME NEW b \in CanWatch, Scene(b), Next, LeavesBehind(b), NEW r \in RoomIds, vw[b].room = r,
         sess[b] \in viewers[r]
  PROVE  StaysIn(sess[b], r) \/ WarnedAnew(b)
<1>0. /\ ShownInv /\ Mannered /\ Typed /\ TableTypes /\ FrameTypes /\ b \in Apps /\ online[b]
      /\ sess[b] \in Sessions /\ sess[b] \notin gone /\ r # None
  BY SceneIs, TypedIs, NoneAssumption
<1>1. ASSUME Serve(b), Head(up[b]).type = "leave-room" PROVE FALSE
  <2>1. up[b] # <<>> /\ up[b] \in Seq(UpFrames)
    BY <1>0, <1>1, ServePushes DEF FrameTypes
  <2>2. 1 \in 1 .. Len(up[b]) /\ up[b][1] = Head(up[b])
    BY <2>1
  <2> QED
    BY <1>0, <1>1, <2>2 DEF LeavesBehind
<1>2. ASSUME Serve(b), Head(up[b]).type = "create-room" PROVE FALSE
  BY <1>0, <1>2, CreatesShareless DEF Seatless
<1>3. PICK s \in Sessions : s = sess[b]
  BY <1>0
<1> QED
  BY <1>0, <1>1, <1>2, <1>3, SeatMoves

LEMMA HostedStays ==
  ASSUME NEW b \in CanWatch, Scene(b), Scene(b)', Next, LeavesBehind(b), ~Joins(b), NEW s, Hosted(b, s)
  PROVE  Hosted(b, s)' \/ WarnedAnew(b)
<1>0. Typed /\ vw[b] \in Watchers /\ sess'[b] = sess[b]
  BY SceneIs, SceneLater, TypedIs, WatcherIs
<1>1. vw'[b].room \in {vw[b].room, None}
  BY <1>0, RoomGoes
<1>2. CASE vw[b].room = None \/ vw'[b].room = None
  BY <1>1, <1>2 DEF Hosted
<1>3. CASE vw[b].room # None /\ vw'[b].room = vw[b].room
  <2>1. PICK r \in RoomIds : r = vw[b].room
    BY <1>0, <1>3 DEF Watchers
  <2>2. sharerId[r] = s /\ sess[b] \in viewers[r]
    BY <1>3, <2>1 DEF Hosted
  <2>3. StaysIn(sess[b], r) \/ WarnedAnew(b)
    BY <2>1, <2>2, SeatLasts
  <2> QED
    BY <1>0, <1>3, <2>1, <2>2, <2>3 DEF StaysIn, Hosted
<1> QED
  BY <1>1, <1>2, <1>3

LEMMA HasSeatStep ==
  ASSUME NEW b \in CanWatch, Scene(b), Scene(b)', Next, HasSeat(b), KnowsRoom(b), LeavesBehind(b)
  PROVE  HasSeat(b)'
<1> SUFFICES ASSUME Waiting(b)'
             PROVE  \/ IsWarned(b)' \/ sess[b] \in viewers'[vw'[b].room]
                    \/ up'[b] # <<>> /\ Head(up'[b]) = JoinMsg(vw'[b].room)
  BY SceneLater DEF HasSeat
<1>0. /\ Typed /\ FrameTypes /\ online[b] /\ None \notin RoomIds /\ Attends(b) /\ b \in Apps
      /\ vw[b] \in Watchers /\ sess[b] \in Sessions /\ online'[b] /\ sess'[b] = sess[b] /\ up[b] \in Seq(UpFrames)
  BY SceneIs, SceneLater, NoneAssumption, TypedIs, WatcherIs DEF FrameTypes
<1>2. CASE Joins(b)
  <2>1. PICK r \in RoomIds : up'[b] = <<JoinMsg(r)>> /\ vw'[b].room = r
    BY <1>2, GuestJoins
  <2> QED
    BY <2>1
<1>3. CASE Waiting(b) /\ ~Joins(b)
  <2>1. ~Leaves(b)
    BY <1>0, GuestLeaves DEF Waiting
  <2>2. PICK r \in RoomIds : r = vw[b].room
    BY <1>0, <1>3 DEF KnowsRoom, Watchers
  <2>3. vw'[b].room = r
    BY <1>0, <1>3, <2>1, <2>2, RoomGoes
  <2>4. CASE IsWarned(b)
    <3>1. ~TurnsAway(b)
      BY DEF TurnsAway, Away, Waiting
    <3> QED
      BY <1>0, <1>3, <2>4, <3>1, WarnedLasts DEF Attends
  <2>5. CASE sess[b] \in viewers[r]
    <3>1. StaysIn(sess[b], r) \/ WarnedAnew(b)
      BY <2>2, <2>5, SeatLasts
    <3> QED
      BY <1>0, <2>3, <3>1, AnewIs DEF StaysIn
  <2>6. CASE up[b] # <<>> /\ Head(up[b]) = JoinMsg(r)
    <3>1. CASE Waits(b)
      BY <2>3, <2>6, <3>1 DEF Waits
    <3>2. CASE IsServed(b)
      BY <1>0, <2>3, <2>6, <3>2, JoinAnswered, AnewIs DEF IsServed
    <3>3. ASSUME NEW f \in UpFrames, Sends(b, f) PROVE up'[b] # <<>> /\ Head(up'[b]) = JoinMsg(r)
      <4>1. PICK q \in Seq(UpFrames) : q = up[b]
        BY <1>0
      <4>2. up'[b] = q \o <<f>> \/ up'[b] = q \o <<f, f>>
        BY <3>3, <4>1 DEF Sends
      <4> QED
        BY <2>6, <4>1, <4>2
    <3> QED
      BY <2>3, <3>1, <3>2, <3>3, GuestLinks
  <2> QED
    BY <1>3, <2>2, <2>4, <2>5, <2>6 DEF HasSeat
<1> QED
  BY <1>2, <1>3, ShowsByJoining

(***************************************************************************)
(* The offers that reach a guest are of who shares the room it shows, or a *)
(* warning comes after them.                                               *)
(***************************************************************************)
BoundDown(b) ==
  \A i \in 1 .. Len(down[b]) : down[b][i].type = "offer" =>
    \/ Hosted(b, down[b][i].from)
    \/ \E j \in i + 1 .. Len(down[b]) : down[b][j].type \in Warning
BoundWork(b) == \A o \in TakenOffers : Pending(b, o) => IsWarned(b) \/ Hosted(b, o.from)

LEMMA NewOffer ==
  ASSUME NEW b \in CanWatch, Scene(b), RoomsHosted, LeavesBehind(b), \A a \in CanShare : Tied(a, b),
         NEW x \in Apps, up[x] # <<>>, NEW g \in DownFrames, g.type = "offer", Head(up[x]) = To(sess[b], g),
         ResolveTarget(sess[x], sess[b]) = "ok"
  PROVE  Hosted(b, g.from)
<1>0. /\ Typed /\ FrameTypes /\ RMTypeOK /\ SessionsInv /\ NamesInv /\ SharersAsk /\ Attends(b) /\ b \in Apps
      /\ sess[b] \in Sessions /\ sess[x] \in Sessions /\ sess[b] \notin gone /\ online[b] /\ up[x] \in Seq(UpFrames)
      /\ vw[b] \in Watchers /\ up[b] \in Seq(UpFrames)
  BY SceneIs, TypedIs, WatcherIs DEF TableTypes, FrameTypes
<1> SUFFICES ASSUME vw[b].room # None PROVE Hosted(b, g.from)
  BY DEF Hosted
<1>1. PICK s \in Sessions, c \in Nat : g = Offer(s, c) /\ g.from = s
  BY DownFrameHas DEF DownFrames, Signals, Offer
<1>2. Has(up[x], To(sess[b], g)) /\ To(sess[b], g) \in UpFrames
  <2>1. 1 \in 1 .. Len(up[x]) /\ up[x][1] = Head(up[x]) /\ Head(up[x]) \in UpFrames
    BY <1>0
  <2> QED
    BY <2>1 DEF Has
<1>3. x \in CanShare
  BY <1>0, <1>2 DEF SharersAsk, IsOffer, To
<1>4. s = sess[x]
  BY <1>0, <1>1, <1>2 DEF NamesInv, SentInOwnName
<1>5. Knows(x, b)
  BY <1>1, <1>2, <1>4 DEF Knows
<1>6. PICK r : r = sessionRooms[sess[x]]
  OBVIOUS
<1>7. /\ r \in RoomIds /\ sharerId[r] # None
      /\ (sharerId[r] = sess[x] /\ sess[b] \in viewers[r]) \/ sharerId[r] = sess[b]
  BY <1>0, <1>6 DEF ResolveTarget, RoomExists, RMTypeOK
<1>8. CASE sharerId[r] = sess[x] /\ sess[b] \in viewers[r]
  <2>1. vw[b].room = r
    BY <1>3, <1>5, <1>7, <1>8 DEF Tied
  <2> QED
    BY <1>1, <1>4, <1>8, <2>1 DEF Hosted
<1>9. CASE sharerId[r] = sess[b]
  <2>1. PICK a \in CanShare : online[a] /\ sess[a] = sess[b]
    BY <1>0, <1>7, <1>9 DEF RoomsHosted, HostedBy
  <2>2. a = b /\ b \in CanShare
    BY <1>0, <2>1, SharersAssumption DEF SessionsInv
  <2>3. Apart(b) /\ OutWhenSilent(b)
    BY <2>2, SceneIs DEF InPlace
  <2>4. sh[b].stream = 0
    BY <1>0, <2>2, <2>3 DEF Apart, Watching, Sharing, Attends
  <2>5. NoShareAt(b, Last(b))
    BY <1>0, <2>3, <2>4 DEF OutWhenSilent, Silent
  <2>6. LeftBy(up[b], Last(b), "create-room")
    BY <1>7, <1>9, <2>5 DEF NoShareAt, Shareless
  <2>7. PICK j \in 1 .. Last(b) - 1 : up[b][j].type = "leave-room"
    BY <2>6 DEF LeftBy
  <2>8. j \in 1 .. Len(up[b])
    BY <1>0, <2>7 DEF Last
  <2> QED
    BY <2>7, <2>8 DEF LeavesBehind
<1> QED
  BY <1>7, <1>8, <1>9

LEMMA BoundDownStep ==
  ASSUME NEW b \in CanWatch, Scene(b), Scene(b)', Next, RoomsHosted, LeavesBehind(b),
         \A a \in CanShare : Tied(a, b), BoundDown(b)
  PROVE  BoundDown(b)'
<1>0. Typed /\ b \in Apps /\ online'[b] /\ sess'[b] = sess[b]
  BY SceneIs, SceneLater
<1>1. PICK q \in Seq(DownFrames), q1 \in Seq(DownFrames) : q = down[b] /\ q1 = down'[b]
  BY <1>0, SceneLater, TypedIs DEF FrameTypes
<1> SUFFICES ASSUME NEW i \in 1 .. Len(q1), q1[i].type = "offer"
             PROVE  Hosted(b, q1[i].from)' \/ \E j \in i + 1 .. Len(q1) : q1[j].type \in Warning
  BY <1>1 DEF BoundDown
<1>2. CASE Joins(b)
  BY <1>1, <1>2, GuestJoins
<1>3. CASE WarnedAnew(b)
  <2>1. PICK g \in DownFrames : g.type \in Warning /\ q1 = q \o <<g>>
    BY <1>1, <1>3 DEF WarnedAnew
  <2>2. "offer" \notin Warning
    BY DEF Warning
  <2>3. Len(q1) = Len(q) + 1 /\ q1[Len(q1)] = g
    BY <1>1, <2>1
  <2>4. i # Len(q1)
    BY <2>1, <2>2, <2>3
  <2>5. Len(q1) \in i + 1 .. Len(q1)
    BY <1>1, <2>3, <2>4
  <2> QED
    BY <2>1, <2>3, <2>5
<1>4. CASE ~Joins(b) /\ ~WarnedAnew(b)
  <2>1. \A s : Hosted(b, s) => Hosted(b, s)'
    BY <1>4, HostedStays
  <2>2. \A k \in 1 .. Len(q) : q[k].type = "offer" =>
          Hosted(b, q[k].from)' \/ \E j \in k + 1 .. Len(q) : q[j].type \in Warning
    BY <1>1, <2>1 DEF BoundDown
  <2>3. CASE q1 = q
    BY <2>2, <2>3
  <2>4. CASE q # <<>> /\ q1 = Tail(q)
    <3>1. i + 1 \in 1 .. Len(q) /\ q1[i] = q[i + 1]
      BY <1>1, <2>4, TailAt
    <3>2. ASSUME NEW j \in i + 2 .. Len(q), q[j].type \in Warning
          PROVE  \E k \in i + 1 .. Len(q1) : q1[k].type \in Warning
      <4>1. j - 1 \in 1 .. Len(q1) /\ j - 1 \in i + 1 .. Len(q1)
        BY <1>1, <2>4
      <4>2. q1[j - 1] = q[j]
        BY <1>1, <2>4, <4>1, TailAt
      <4> QED
        BY <3>2, <4>1, <4>2
    <3>3. (i + 1) + 1 = i + 2
      OBVIOUS
    <3> QED
      BY <2>2, <3>1, <3>2, <3>3
  <2>5. ASSUME NEW g \in DownFrames, q1 = q \o <<g>>, Comes(b, g)
        PROVE  Hosted(b, q1[i].from)' \/ \E j \in i + 1 .. Len(q1) : q1[j].type \in Warning
    <3>1. Len(q1) = Len(q) + 1 /\ q1[Len(q1)] = g /\ \A k \in 1 .. Len(q) : q1[k] = q[k]
      BY <1>1, <2>5
    <3>2. CASE i \in 1 .. Len(q)
      <4>1. Hosted(b, q[i].from)' \/ \E j \in i + 1 .. Len(q) : q[j].type \in Warning
        BY <2>2, <3>1, <3>2
      <4>2. \A j \in i + 1 .. Len(q) : j \in i + 1 .. Len(q1) /\ q1[j] = q[j]
        BY <1>1, <3>1
      <4> QED
        BY <3>1, <3>2, <4>1, <4>2
    <3>3. CASE i = Len(q1)
      <4>1. g.type = "offer" /\ q1[i] = g
        BY <3>1, <3>3
      <4>2. \E x \in Apps : up[x] # <<>> /\ Head(up[x]) = To(sess[b], g) /\ ResolveTarget(sess[x], sess[b]) = "ok"
        BY <1>0, <1>1, <2>5, <4>1, SignalPushed
      <4>3. Hosted(b, g.from)
        BY <4>1, <4>2, NewOffer
      <4> QED
        BY <2>1, <4>1, <4>3
    <3> QED
      BY <1>1, <3>1, <3>2, <3>3
  <2> QED
    BY <1>0, <1>1, <2>3, <2>4, <2>5, DownGoes DEF Broken
<1> QED
  BY <1>2, <1>3, <1>4

LEMMA BoundWorkStep ==
  ASSUME NEW b \in CanWatch, Scene(b), Scene(b)', Next, LeavesBehind(b), BoundDown(b), BoundWork(b)
  PROVE  BoundWork(b)'
<1>0. Typed /\ b \in Apps /\ online'[b] /\ sess'[b] = sess[b] /\ Attends(b) /\ offers[b] \in Seq(TakenOffers)
  BY SceneIs, SceneLater, TypedIs, WatcherIs
<1> SUFFICES ASSUME NEW o \in TakenOffers, Pending(b, o)' PROVE IsWarned(b)' \/ Hosted(b, o.from)'
  BY DEF BoundWork
<1>1. CASE Joins(b)
  BY <1>1, GuestJoins DEF Pending, Has
<1>2. ASSUME ~Joins(b), Hosted(b, o.from) PROVE IsWarned(b)' \/ Hosted(b, o.from)'
  BY <1>0, <1>2, HostedStays, AnewIs
<1>3. CASE ~Joins(b) /\ Pending(b, o)
  <2>1. vw[b].listening # 0
    BY <1>0, <1>3 DEF Attends, Pending, Has
  <2>2. ~TurnsAway(b)
    BY DEF TurnsAway, Pending, Has
  <2> QED
    BY <1>2, <1>3, <2>1, <2>2, WarnedLasts DEF BoundWork
<1>4. CASE ~Joins(b) /\ ~Pending(b, o)
  <2>1. TakesOne(b) /\ Head(down[b]) = OfferOf(o)
    <3>1. PICK q \in Seq(TakenOffers) : q = offers[b]
      BY <1>0
    <3>2. ASSUME q # <<>>, offers'[b] = Tail(q) PROVE FALSE
      <4>1. PICK i \in 1 .. Len(Tail(q)) : Tail(q)[i] = o
        BY <3>2 DEF Pending, Has
      <4>2. i + 1 \in 1 .. Len(q) /\ q[i + 1] = o
        BY <3>2, <4>1, TailAt
      <4> QED
        BY <1>4, <3>1, <4>2 DEF Pending, Has
    <3>3. offers'[b] # offers[b] /\ offers'[b] # <<>>
      BY <1>4 DEF Pending, Has
    <3>4. TakesOne(b)
      BY <1>0, <3>1, <3>2, <3>3, OffersDo DEF OffersGo, RefusesOne, AppliesOne
    <3>5. PICK p \in TakenOffers, n \in Nat : Head(down[b]) = OfferOf(p) /\ offers'[b] = q \o [k \in 1 .. n |-> p]
      BY <3>1, <3>4 DEF TakesOne
    <3>6. PICK i \in 1 .. Len(q \o [k \in 1 .. n |-> p]) : (q \o [k \in 1 .. n |-> p])[i] = o
      BY <3>5 DEF Pending, Has
    <3>7. i \in 1 .. Len(q) => q[i] = o
      BY <3>6
    <3>8. o = p
      <4>1. i \notin 1 .. Len(q)
        BY <1>4, <3>1, <3>7 DEF Pending, Has
      <4> QED
        BY <3>6, <4>1
    <3> QED
      BY <3>4, <3>5, <3>8
  <2>2. PICK q \in Seq(DownFrames) : q = down[b]
    BY <1>0, TypedIs DEF FrameTypes
  <2>3. q # <<>> /\ down'[b] = Tail(q) /\ q[1] = OfferOf(o) /\ 1 \in 1 .. Len(q)
    BY <2>1, <2>2 DEF TakesOne
  <2>4. OfferOf(o).type = "offer" /\ OfferOf(o).from = o.from
    BY DEF OfferOf, Offer
  <2>5. CASE Hosted(b, o.from)
    BY <1>2, <1>4, <2>5
  <2>6. ASSUME NEW j \in 2 .. Len(q), q[j].type \in Warning PROVE IsWarned(b)'
    <3>1. j - 1 \in 1 .. Len(Tail(q))
      BY <2>3
    <3>2. Tail(q)[j - 1] = q[j]
      BY <2>3, <3>1, TailAt
    <3> QED
      BY <2>3, <2>6, <3>1, <3>2 DEF IsWarned
  <2>7. Hosted(b, o.from) \/ \E j \in 1 + 1 .. Len(q) : q[j].type \in Warning
    BY <2>2, <2>3, <2>4 DEF BoundDown
  <2>8. 1 + 1 = 2
    OBVIOUS
  <2> QED
    BY <2>5, <2>6, <2>7, <2>8
<1> QED
  BY <1>1, <1>3, <1>4

(***************************************************************************)
(* An offer that was made has been sent, and an answer that is heard is    *)
(* applied.                                                                *)
(***************************************************************************)
LEMMA HearsNoOffer ==
  ASSUME Typed, NEW x \in CanShare, Receive(x), NEW a \in CanShare, NEW v \in Sessions,
         entry'[a][v].phase = "offered"
  PROVE  entry[a][v].phase = "offered"
<1>0. /\ SharersTyped /\ SharingTypeOK /\ FrameTypes /\ x \in Apps
      /\ entry \in [CanShare -> [Sessions -> Entries]] /\ entry[x][v] \in Entries
      /\ down \in [Apps -> Seq(DownFrames)] /\ NoEntry.phase = "none"
  BY TypedIs, SharersAssumption DEF SharersTyped, SharingTypeOK, FrameTypes, NoEntry
<1> DEFINE f == Head(down[x])
<1>1. SharingHears(x, f) /\ f \in DownFrames
  BY <1>0, HeadOfDown DEF Receive
<1>2. CASE a # x
  BY <1>0, <1>1, <1>2, SharingHearsOf
<1>3. CASE a = x
  <2>2. ~(entry' = [entry EXCEPT ![x] = NoEntries])
    BY <1>0, <1>3 DEF NoEntries
  <2>3. CASE f.type = "viewer-left" /\ RemoveViewer(x, f.viewer)
    BY <1>0, <1>1, <1>3, <2>3, DownFrameHas DEF RemoveViewer
  <2>4. CASE f.type = "viewer-joined" /\ AddViewer(x, f.viewer)
    <3> DEFINE n == sh[x].made + 1
    <3>1. f.viewer \in Sessions /\ entry' = [entry EXCEPT ![x][f.viewer] = Offering(n)]
      BY <1>1, <2>4, DownFrameHas DEF AddViewer
    <3> QED
      BY <1>0, <1>3, <3>1 DEF Offering
  <2>5. CASE /\ f.type = "answer"
             /\ \E e \in AfterAnswer(entry[x][f.from], f, sh[x].listening) :
                  entry' = [entry EXCEPT ![x][f.from] = e]
    <3>1. PICK e \in AfterAnswer(entry[x][f.from], f, sh[x].listening) :
                  entry' = [entry EXCEPT ![x][f.from] = e]
      BY <2>5
    <3>2. f.from \in Sessions /\ f.conn \in Nat /\ f.by \in Nat /\ entry[x][f.from] \in Entries
      BY <1>0, <1>1, <2>5, DownFrameHas
    <3>3. e.phase # "offered"
      BY <1>0, <3>1, <3>2, AnsweredIs
    <3> QED
      BY <1>0, <1>3, <3>1, <3>2, <3>3
  <2> HIDE DEF f
  <2> QED
    BY <1>1, <2>2, <2>3, <2>4, <2>5 DEF SharingHears
<1> QED
  BY <1>2, <1>3

LEMMA OfferSent ==
  ASSUME Typed, Next, NEW a \in CanShare, NEW v \in Sessions, online[a],
         entry'[a][v].phase = "offered", entry[a][v].phase # "offered"
  PROVE  Has(up'[a], To(v, Offer(sess[a], entry[a][v].conn)))
<1>0. /\ TableTypes /\ FrameTypes /\ SharersTyped /\ a \in Apps
      /\ entry \in [CanShare -> [Sessions -> Entries]] /\ NoEntry.phase = "none"
      /\ up \in [Apps -> Seq(UpFrames)] /\ v \in Sessions /\ up[a] \in Seq(UpFrames)
  BY TypedIs, SharersAssumption DEF SharersTyped, SharingTypeOK, FrameTypes, NoEntry
<1>1. ~UNCHANGED entry
  OBVIOUS
<1>2. ASSUME NEW x \in Apps, Receive(x) PROVE FALSE
  BY <1>1, <1>2, HearsNoOffer DEF Receive
<1>3. ASSUME NEW x \in Apps, Serve(x) PROVE FALSE
  BY <1>0, <1>1, <1>3, ServePushes DEF shVars
<1>4. ASSUME NEW x \in CanWatch, ViewingStep(x) PROVE FALSE
  BY <1>1, <1>4, ViewersStepIs DEF ViewersStep, shVars
<1>5. ASSUME NEW x \in CanShare, SharersStep(x)
      PROVE  Has(up'[a], To(v, Offer(sess[a], entry[a][v].conn)))
  <2>1. x = a
    BY <1>0, <1>5, SharersStepOf
  <2>2. ASSUME NEW m, NEW state, CleanUp(x, m, state) PROVE FALSE
    BY <1>0, <2>1, <2>2 DEF CleanUp, NoEntries
  <2>3. ~Stop(x)
    BY <2>2, StopIs DEF Stopped
  <2>4. ASSUME NEW n \in Starts
        PROVE  ~Begins(x, n) /\ ~PickerAnswers(x, n) /\ ~PickerFails(x, n) /\ ~CaptureEnds(x, n)
               /\ ~CaptureStarts(x, n)
    BY <1>1, <2>2, BeginsIs, CaptureEndsIs DEF PickerAnswers, PickerFails, CaptureStarts, Stopped
  <2>5. ASSUME NEW w \in Sessions, ConnectionFails(x, w) PROVE FALSE
    <3>1. entry' = [entry EXCEPT ![x] = [entry[x] EXCEPT ![w] = NoEntry]]
      BY <1>0, <2>5, ConnectionFailsIs DEF RemoveViewer
    <3> QED
      BY <1>0, <2>1, <3>1
  <2>6. PICK w \in Sessions : OfferReady(x, w)
    BY <1>5, <2>3, <2>4, <2>5 DEF SharersStep
  <2>7. PICK phase : entry' = [entry EXCEPT ![a] = [entry[a] EXCEPT ![w] = [entry[a][w] EXCEPT !.phase = phase]]]
    BY <1>0, <2>1, <2>6 DEF OfferReady
  <2>8. w = v
    BY <1>0, <2>7
  <2>9. PICK f \in UpFrames : f = To(v, Offer(sess[a], entry[a][v].conn))
    <3>1. sess[a] \in Sessions /\ entry[a][v].conn \in Nat
      BY <1>0 DEF TableTypes, Entries
    <3>2. Offer(sess[a], entry[a][v].conn) \in Signals
      BY <3>1 DEF Signals, Offer
    <3> QED
      BY <3>2, UpFramesAre
  <2>10. up'[a] = up[a] \o <<f>>
    BY <1>0, <2>1, <2>6, <2>8, <2>9 DEF OfferReady, Sent
  <2>11. Len(up'[a]) \in 1 .. Len(up'[a]) /\ up'[a][Len(up'[a])] = f
    BY <1>0, <2>10
  <2> QED
    BY <2>9, <2>11 DEF Has
<1> QED
  BY <1>1, <1>2, <1>3, <1>4, <1>5, SharersStepIs DEF Next, shVars

LEMMA HearsAnswer ==
  ASSUME Typed, NEW a \in CanShare, InOrder(a), Receive(a), NEW v \in Sessions, NEW c \in Nat, NEW k \in Nat,
         Head(down[a]) = Answer(v, c, k), entry[a][v].phase = "offered"
  PROVE  entry'[a][v].phase = "answered" /\ entry'[a][v].by = k
<1>0. /\ SharersTyped /\ SharingTypeOK /\ entry \in [CanShare -> [Sessions -> Entries]] /\ entry[a][v] \in Entries
  BY TypedIs DEF SharersTyped, SharingTypeOK
<1>1. sh[a].listening = 1
  <2>1. entry[a] # NoEntries
    BY <1>0 DEF NoEntries, NoEntry
  <2> QED
    BY <2>1 DEF InOrder, Holds, HoldsNothing
<1>2. PICK f : f = Answer(v, c, k)
  OBVIOUS
<1>3. SharingHears(a, f)
  BY <1>2 DEF Receive
<1>4. f.type = "answer" /\ f.from = v /\ f.conn = c /\ f.by = k
  BY <1>2 DEF Answer
<1>5. PICK e \in AfterAnswer(entry[a][v], f, 1) : entry' = [entry EXCEPT ![a] = [entry[a] EXCEPT ![v] = e]]
  BY <1>0, <1>1, <1>3, <1>4 DEF SharingHears
<1>6. e = [entry[a][v] EXCEPT !.phase = "answered", !.of = c, !.by = k]
  <2>1. PICK old : old = entry[a][v] /\ old.phase = "offered"
    OBVIOUS
  <2>2. AfterAnswer(old, f, 1) = {[[old EXCEPT !.of = f.conn, !.by = f.by] EXCEPT !.phase = "answered"]}
    BY <2>1 DEF AfterAnswer
  <2>3. old \in Entries
    BY <1>0, <2>1
  <2>4. e = [[old EXCEPT !.of = f.conn, !.by = f.by] EXCEPT !.phase = "answered"]
    BY <1>5, <2>1, <2>2
  <2> QED
    BY <1>4, <2>1, <2>3, <2>4 DEF Entries
<1>7. e.phase = "answered" /\ e.by = k
  BY <1>0, <1>6 DEF Entries
<1> QED
  BY <1>0, <1>5, <1>7

(***************************************************************************)
(* A guest that sits in a's room, and that no warning is on its way to, is *)
(* being connected with a.                                                 *)
(***************************************************************************)
Met(a, b) ==
  /\ Waiting(b) /\ ~IsWarned(b) /\ online[a]
  /\ sharerId[vw[b].room] = sess[a] /\ sess[b] \in viewers[vw[b].room]
Answering(a, b, o) ==
  LET m == Answer(sess[b], o.conn, vw[b].conn) IN Has(up[b], To(sess[a], m)) \/ Has(down[a], m)
Connects(a, b, o) ==
  LET e == entry[a][sess[b]] IN
  /\ e.phase = "offered" => \/ Sending(a, b, o) \/ Coming(b, o)
                            \/ Pending(b, o) /\ ~Applied(b, o)
                            \/ Applied(b, o) /\ Answering(a, b, o)
  /\ e.phase = "answered" => Applied(b, o) /\ e.by = vw[b].conn
Connecting(a, b) == \A o \in TakenOffers : IsOffered(a, b, o) /\ Met(a, b) => Connects(a, b, o)

\* How a guest and the sharer come to be so placed.
LEMMA MetBefore ==
  ASSUME NEW b \in CanWatch, Scene(b), Scene(b)', Next, NEW a \in CanShare, KnowsRoom(b)',
         Met(a, b)', entry[a][sess[b]] # NoEntry, entry'[a][sess[b]] # NoEntry
  PROVE  /\ ~Joins(b) /\ ~Leaves(b) /\ ~TurnsAway(b) /\ ~WarnedAnew(b) /\ Untouched(a) /\ ~IsWarned(b)
         /\ vw'[b].room = vw[b].room /\ vw[b].room \in RoomIds
         /\ sharerId[vw[b].room] = sess[a] /\ sess[b] \in viewers[vw[b].room] /\ online[a]
         /\ Waiting(b)
<1>0. /\ Typed /\ TableTypes /\ FrameTypes /\ SessionsInv /\ NamesInv /\ PlaceInv /\ b \in Apps /\ a \in Apps
      /\ Attends(b) /\ sess'[b] = sess[b] /\ sess[b] \in Sessions /\ MeetsInOrder(a, b) /\ vw'[b] \in Watchers
      /\ \A s \in Away : s \notin {"connecting", "connected", "reconnecting"}
  BY SceneIs, SceneLater, TypedIs DEF Away
<1>1. /\ Waiting(b)' /\ ~IsWarned(b)' /\ online'[a]
      /\ sharerId'[vw'[b].room] = sess'[a] /\ sess[b] \in viewers'[vw'[b].room]
  BY <1>0 DEF Met
<1>2. ~Joins(b)
  <2> SUFFICES ASSUME Joins(b) PROVE FALSE
    OBVIOUS
  <2>1. entry[a][sess[b]] = NoEntry
    BY <1>0, GuestJoins, SettledIs
  <2> QED
    BY <2>1
<1>3. ~Leaves(b) /\ ~TurnsAway(b)
  BY <1>0, <1>1, GuestLeaves DEF TurnsAway, Waiting
<1>4. PICK r \in RoomIds : r = vw'[b].room
  BY <1>0, <1>1 DEF KnowsRoom, Watchers
<1>5. vw[b].room = r
  BY <1>0, <1>2, <1>3, <1>4, RoomGoes
<1>6. ~(Serve(b) /\ Head(up[b]).type = "join-room")
  <2> SUFFICES ASSUME Serve(b), Head(up[b]).type = "join-room" PROVE FALSE
    OBVIOUS
  <2>1. up[b] # <<>> /\ up[b] \in Seq(UpFrames)
    BY <1>0, ServePushes DEF FrameTypes
  <2>2. PICK q \in RoomIds : Head(up[b]) = JoinMsg(q)
    <3>1. Head(up[b]) \in UpFrames
      BY <2>1
    <3> QED
      BY <3>1 DEF UpFrames, JoinMsg
  <2>3. 1 \in 1 .. Len(up[b]) /\ up[b][1] = JoinMsg(q)
    BY <2>1, <2>2
  <2>4. Asks(b)
    BY <2>3 DEF Asks, Has
  <2> QED
    BY <1>0, <2>4 DEF MeetsInOrder, Asking
<1>7. sess[b] \in viewers[r] /\ sharerId'[r] = sharerId[r]
  BY <1>0, <1>1, <1>4, <1>6, SeatsKept
<1>8. Untouched(a)
  <2>1. sess'[a] \in Sessions
    BY <1>0, SceneLater, TypedAfter DEF TableTypes
  <2>2. sess'[a] \in used
    BY <1>0, <1>1, <1>4, <1>7, <2>1, NoneAssumption DEF PlaceInv, TablesInUse
  <2> QED
    BY <1>0, <1>1, <2>2, ConnectionMoves DEF Broken, Renewed
<1>9. Waiting(b)
  BY <1>1, <1>2, ShowsByJoining
<1>10. vw[b].listening # 0
  BY <1>0, <1>9 DEF Attends
<1>11. ~IsWarned(b) /\ ~WarnedAnew(b)
  BY <1>0, <1>1, <1>3, <1>10, WarnedLasts, AnewIs
<1> QED
  BY <1>1, <1>2, <1>3, <1>4, <1>5, <1>7, <1>8, <1>9, <1>11 DEF Untouched

\* The offers that a guest so placed works on are those of the connection there is.
LEMMA WorksOn ==
  ASSUME NEW b \in CanWatch, Scene(b), BoundWork(b), NEW a \in CanShare, vw[b].room # None, ~IsWarned(b),
         sharerId[vw[b].room] = sess[a], NEW o \in TakenOffers, IsOffered(a, b, o),
         NEW p \in TakenOffers, Pending(b, p)
  PROVE  p = o
<1>1. p.from = sess[a]
  BY DEF BoundWork, Hosted
<1>2. p = [from |-> sess[a], conn |-> p.conn] /\ p.conn \in Nat /\ o = [from |-> o.from, conn |-> o.conn]
  BY <1>1 DEF TakenOffers
<1>3. UnderWay(a, b, p.conn, 0)
  BY <1>2 DEF UnderWay, Pending
<1>4. p.conn = entry[a][sess[b]].conn
  BY <1>2, <1>3, SceneIs DEF MeetsInOrder, Meets, IsOffered
<1> QED
  BY <1>2, <1>4 DEF IsOffered

LEMMA RepliesHead ==
  ASSUME NEW b \in CanWatch, Typed, offers[b] # <<>>
  PROVE  Head(offers[b]) \in TakenOffers /\ Pending(b, Head(offers[b]))
<1>1. offers[b] \in Seq(TakenOffers)
  BY TypedIs, WatcherIs
<1>2. 1 \in 1 .. Len(offers[b]) /\ offers[b][1] = Head(offers[b]) /\ Head(offers[b]) \in TakenOffers
  BY <1>1
<1> QED
  BY <1>2 DEF Pending, Has

LEMMA StaysApplied ==
  ASSUME NEW b \in CanWatch, Scene(b), Scene(b)', Next, BoundWork(b), NEW a \in CanShare, vw[b].room # None,
         ~IsWarned(b), sharerId[vw[b].room] = sess[a], ~Joins(b), ~Leaves(b), ~TurnsAway(b),
         NEW o \in TakenOffers, IsOffered(a, b, o), Applied(b, o)
  PROVE  Applied(b, o)' /\ vw'[b].conn = vw[b].conn
<1>0. Typed /\ Attends(b) /\ o # NoOffer
  <2>1. o # NoOffer
    BY NoneAssumption DEF TakenOffers, NoOffer
  <2> QED
    BY <2>1, SceneIs
<1>1. vw[b].conn # 0
  BY <1>0 DEF Attends, Applied
<1>2. ~Replies(b)
  <2> SUFFICES ASSUME Replies(b) PROVE FALSE
    OBVIOUS
  <2>1. PICK p \in TakenOffers : p = Head(offers[b]) /\ Pending(b, p) /\ vw[b].remote # p
    BY <1>0, RepliesHead DEF Replies
  <2>2. p = o
    BY <2>1, WorksOn
  <2> QED
    BY <2>1, <2>2 DEF Applied
<1>3. WatcherGoes(b)
  BY <1>0, WatcherMoves
<1> QED
  BY <1>1, <1>2, <1>3 DEF WatcherGoes, Rests, JoinsRoom, LeavesRoom, Rejects, Fades, Shows, Welcomes, SameStay, Applied

(***************************************************************************)
(* What was queued stays queued until its turn comes.                      *)
(***************************************************************************)
LEMMA WelcomedHas ==
  ASSUME NEW q \in Seq(TakenOffers), NEW n \in Nat, NEW p \in TakenOffers
  PROVE  /\ n # 0 => Has(q \o [i \in 1 .. n |-> p], p)
         /\ \A o : Has(q, o) => Has(q \o [i \in 1 .. n |-> p], o)
<1> DEFINE t == [i \in 1 .. n |-> p]
<1>1. t \in Seq(TakenOffers) /\ Len(t) = n /\ \A i \in 1 .. n : t[i] = p
  OBVIOUS
<1> HIDE DEF t
<1>2. /\ Len(q \o t) = Len(q) + n /\ Len(q) \in Nat
      /\ \A i \in 1 .. Len(q) + n : (q \o t)[i] = IF i <= Len(q) THEN q[i] ELSE t[i - Len(q)]
  BY <1>1
<1>3. n # 0 => Has(q \o t, p)
  <2> SUFFICES ASSUME n # 0 PROVE Len(q) + 1 \in 1 .. Len(q \o t) /\ (q \o t)[Len(q) + 1] = p
    BY DEF Has
  <2> QED
    BY <1>1, <1>2
<1>4. \A o : Has(q, o) => Has(q \o t, o)
  <2> SUFFICES ASSUME NEW o, NEW i \in 1 .. Len(q), q[i] = o PROVE i \in 1 .. Len(q \o t) /\ (q \o t)[i] = o
    BY DEF Has
  <2> QED
    BY <1>2
<1> QED
  BY <1>3, <1>4 DEF t

LEMMA UpKeeps ==
  ASSUME Typed, SessionsInv, Next, NEW a \in Apps, online[a], Untouched(a), NEW m, Has(up[a], m)
  PROVE  Has(up'[a], m) \/ (Serve(a) /\ up[a] # <<>> /\ Head(up[a]) = m)
<1>1. PICK q \in Seq(UpFrames) : q = up[a]
  BY TypedIs DEF FrameTypes
<1>2. CASE Waits(a)
  BY <1>2 DEF Waits
<1>3. CASE IsServed(a)
  BY <1>1, <1>3, QueueShrinks DEF IsServed
<1>4. ASSUME NEW f \in UpFrames, Sends(a, f) PROVE Has(up'[a], m)
  <2>1. up'[a] = q \o <<f>> \/ up'[a] = q \o <<f, f>>
    BY <1>1, <1>4 DEF Sends
  <2>2. Has(q, m)
    BY <1>1
  <2>3. Has(q \o <<f>>, m) /\ Has(q \o <<f, f>>, m)
    BY <2>2, QueueGrows, QueueGrowsTwice
  <2> QED
    BY <2>1, <2>3
<1> QED
  BY <1>2, <1>3, <1>4, LinkMoves DEF Untouched, Broken, Renewed

LEMMA DownKeeps ==
  ASSUME Typed, Next, NEW y \in Apps, online'[y], NEW m, Has(down[y], m)
  PROVE  Has(down'[y], m) \/ (Receive(y) /\ down[y] # <<>> /\ Head(down[y]) = m)
<1>1. PICK q \in Seq(DownFrames) : q = down[y]
  BY TypedIs DEF FrameTypes
<1>2. CASE down'[y] = q
  BY <1>1, <1>2
<1>3. CASE q # <<>> /\ down'[y] = Tail(q) /\ Receive(y)
  BY <1>1, <1>3, QueueShrinks
<1>4. ASSUME NEW g \in DownFrames, down'[y] = q \o <<g>> PROVE Has(down'[y], m)
  BY <1>1, <1>4, QueueGrows
<1> QED
  BY <1>1, <1>2, <1>3, <1>4, DownGoes DEF Broken

\* A signal that is served is pushed, unless it is refused.
LEMMA SignalGoesOn ==
  ASSUME Typed, Next, NEW x \in Apps, online[x], Serve(x), NEW y \in Apps, online[y], NEW g \in Signals,
         Head(up[x]) = To(sess[y], g)
  PROVE  Has(down'[y], g) \/ (ResolveTarget(sess[x], sess[y]) # "ok" /\ WarnedAnew(x))
<1>1. PICK q \in Seq(DownFrames) : q = down[y]
  BY TypedIs DEF FrameTypes
<1>2. g \in DownFrames
  BY DownFramesAre
<1>3. Has(q \o <<g>>, g)
  BY <1>2, QueueGrows
<1>4. down'[y] = q \o <<g>> \/ (ResolveTarget(sess[x], sess[y]) # "ok" /\ WarnedAnew(x))
  BY <1>1, SignalServed
<1> QED
  BY <1>3, <1>4

LEMMA SharerReaches ==
  ASSUME RMTypeOK, NEW s \in Sessions, Indexed(s), NEW r \in RoomIds, sharerId[r] = s, NEW t \in viewers[r]
  PROVE  ResolveTarget(s, t) = "ok"
BY NoneAssumption DEF Indexed, ResolveTarget, RoomExists

LEMMA SendingGoes ==
  ASSUME NEW b \in CanWatch, Scene(b), Scene(b)', Next, NEW a \in CanShare, NEW r \in RoomIds,
         sharerId[r] = sess[a], sess[b] \in viewers[r], online[a], Untouched(a),
         NEW o \in TakenOffers, Sending(a, b, o)
  PROVE  Sending(a, b, o)' \/ Coming(b, o)'
<1>0. /\ Typed /\ SessionsInv /\ RMTypeOK /\ a \in Apps /\ b \in Apps /\ sess'[b] = sess[b] /\ online[b]
      /\ sess[a] \in Sessions /\ Indexed(sess[a])
  BY SceneIs, SceneLater, TypedIs DEF TableTypes, InPlace
<1>1. OfferOf(o) \in Signals
  BY DEF TakenOffers, OfferOf, Offer, Signals
<1>2. CASE Has(up'[a], To(sess[b], OfferOf(o)))
  BY <1>0, <1>2 DEF Sending
<1>3. CASE Serve(a) /\ Head(up[a]) = To(sess[b], OfferOf(o))
  <2>1. ResolveTarget(sess[a], sess[b]) = "ok"
    BY <1>0, SharerReaches
  <2>2. Has(down'[b], OfferOf(o))
    BY <1>0, <1>1, <1>3, <2>1, SignalGoesOn
  <2> QED
    BY <2>2 DEF Coming
<1> QED
  BY <1>0, <1>2, <1>3, UpKeeps DEF Sending

LEMMA ComingGoes ==
  ASSUME NEW b \in CanWatch, Scene(b), Scene(b)', Next, vw[b].listening # 0, ~TurnsAway(b),
         NEW o \in TakenOffers, Coming(b, o), ~Applied(b, o)
  PROVE  Coming(b, o)' \/ (Pending(b, o)' /\ ~Applied(b, o)')
<1>0. Typed /\ b \in Apps /\ online'[b] /\ vw[b].listening \in Nat /\ offers[b] \in Seq(TakenOffers)
  BY SceneIs, SceneLater, TypedIs, WatcherIs
<1>1. CASE Receive(b) /\ Head(down[b]) = OfferOf(o)
  <2>1. OfferOf(o).type = "offer"
    BY DEF OfferOf, Offer
  <2>2. Welcomes(b)
    BY <1>0, <1>1, <2>1, WatcherHears DEF Rests
  <2>3. PICK p \in TakenOffers : /\ Head(down[b]) = OfferOf(p)
                                 /\ offers'[b] = offers[b] \o [i \in 1 .. vw[b].listening |-> p]
    BY <2>2 DEF Welcomes
  <2>4. p = o
    <3>1. p.from = o.from /\ p.conn = o.conn
      BY <1>1, <2>3 DEF OfferOf, Offer
    <3> QED
      BY <3>1 DEF TakenOffers
  <2>5. PICK n \in Nat : n = vw[b].listening /\ n >= 1
    BY <1>0
  <2>6. PICK q \in Seq(TakenOffers) : q = offers[b]
    BY <1>0
  <2>7. offers'[b] = q \o [i \in 1 .. n |-> o]
    BY <2>3, <2>4, <2>5, <2>6
  <2>8. Pending(b, o)'
    <3>1. PICK w : w = q \o [i \in 1 .. n |-> o]
      OBVIOUS
    <3>2. Has(w, o)
      BY <2>5, <3>1, WelcomedHas
    <3> QED
      BY <2>7, <3>1, <3>2 DEF Pending
  <2> QED
    BY <2>2, <2>8 DEF Welcomes, Applied
<1> QED
  BY <1>0, <1>1, DownKeeps DEF Coming

LEMMA PendingGoes ==
  ASSUME NEW b \in CanWatch, Scene(b), Scene(b)', Next, BoundWork(b), NEW a \in CanShare, vw[b].room # None,
         ~IsWarned(b), sharerId[vw[b].room] = sess[a], ~Joins(b), ~Leaves(b), ~TurnsAway(b),
         Waiting(b)', NEW o \in TakenOffers, IsOffered(a, b, o), Pending(b, o), ~Applied(b, o)
  PROVE  \/ Pending(b, o)' /\ ~Applied(b, o)'
         \/ Applied(b, o)' /\ Has(up'[b], To(sess[a], Answer(sess[b], o.conn, vw'[b].conn)))
<1>0. /\ Typed /\ FrameTypes /\ b \in Apps /\ online[b] /\ offers[b] \in Seq(TakenOffers) /\ up[b] \in Seq(UpFrames)
      /\ vw[b].listening \in Nat /\ vw[b].conn \in Nat /\ sess[a] \in Sessions /\ sess[b] \in Sessions
      /\ up \in [Apps -> Seq(UpFrames)] /\ SharersTyped /\ "error" \notin {"connecting", "connected", "reconnecting"}
  BY SceneIs, TypedIs, WatcherIs, SharersAssumption DEF FrameTypes, TableTypes
<1>1. CASE Replies(b)
  <2>1. PICK p \in TakenOffers : p = Head(offers[b]) /\ Pending(b, p)
    BY <1>0, <1>1, RepliesHead DEF Replies
  <2>2. p = o
    BY <2>1, WorksOn
  <2>3. o.from = sess[a] /\ o.conn \in Nat
    BY DEF IsOffered, TakenOffers
  <2>4. PICK f \in UpFrames : f = To(sess[a], Answer(sess[b], o.conn, vw[b].conn))
    <3>1. Answer(sess[b], o.conn, vw[b].conn) \in Signals
      BY <1>0, <2>3 DEF Signals, Answer
    <3> QED
      BY <1>0, <3>1, UpFramesAre
  <2>5. up'[b] = up[b] \o <<f>>
    BY <1>0, <1>1, <2>1, <2>2, <2>3, <2>4 DEF Replies, Sent
  <2>6. Has(up'[b], f)
    BY <1>0, <2>5, QueueGrows
  <2>7. Applied(b, o)' /\ vw'[b].conn = vw[b].conn
    BY <1>1, <2>1, <2>2 DEF Replies, SameStay, Applied
  <2> QED
    BY <2>4, <2>6, <2>7
<1>2. CASE Rests(b) \/ Fades(b) \/ Shows(b)
  BY <1>2 DEF Rests, Fades, Shows, Pending, Applied
<1>3. ~Rejects(b)
  BY <1>0 DEF Rejects, Waiting
<1>4. CASE Welcomes(b)
  <2>1. PICK p \in TakenOffers : offers'[b] = offers[b] \o [i \in 1 .. vw[b].listening |-> p]
    BY <1>4 DEF Welcomes
  <2>2. PICK q \in Seq(TakenOffers) : q = offers[b]
    BY <1>0
  <2>3. PICK n \in Nat : n = vw[b].listening
    BY <1>0
  <2>4. Has(q, o)
    BY <2>2 DEF Pending
  <2>5. Pending(b, o)'
    <3>1. PICK w : w = q \o [i \in 1 .. n |-> p]
      OBVIOUS
    <3>2. Has(w, o)
      BY <2>3, <2>4, <3>1, WelcomedHas
    <3> QED
      BY <2>1, <2>2, <2>3, <3>1, <3>2 DEF Pending
  <2> QED
    BY <1>4, <2>5 DEF Welcomes, Applied
<1>5. WatcherGoes(b)
  BY <1>0, WatcherMoves
<1> QED
  BY <1>1, <1>2, <1>3, <1>4, <1>5 DEF WatcherGoes, JoinsRoom, LeavesRoom

(***************************************************************************)
(* How the connection of a guest that is being connected goes on.          *)
(***************************************************************************)
LEMMA TailReceived ==
  ASSUME Typed, Next, NEW y \in Apps, online'[y], down[y] # <<>>, down'[y] = Tail(down[y])
  PROVE  Receive(y)
<1>1. PICK q \in Seq(DownFrames) : q = down[y]
  BY TypedIs DEF FrameTypes
<1>2. Len(Tail(q)) = Len(q) - 1 /\ Len(q) \in Nat
  BY <1>1
<1>3. \A g \in DownFrames : Len(q \o <<g>>) = Len(q) + 1
  BY <1>1
<1>4. Tail(q) # q
  BY <1>2
<1>5. ASSUME NEW g \in DownFrames, Tail(q) = q \o <<g>> PROVE FALSE
  <2>1. Len(Tail(q)) = Len(q) + 1
    BY <1>3, <1>5
  <2> QED
    BY <1>2, <2>1
<1> QED
  BY <1>1, <1>4, <1>5, DownGoes DEF Broken

LEMMA AnsweringGoes ==
  ASSUME NEW b \in CanWatch, Scene(b), Scene(b)', Next, NEW a \in CanShare, online[a], Untouched(a),
         ~WarnedAnew(b), NEW o \in TakenOffers, Answering(a, b, o), vw'[b].conn = vw[b].conn
  PROVE  \/ Answering(a, b, o)'
         \/ Receive(a) /\ down[a] # <<>> /\ Head(down[a]) = Answer(sess[b], o.conn, vw[b].conn)
<1>0. /\ Typed /\ SessionsInv /\ a \in Apps /\ b \in Apps /\ sess'[b] = sess[b] /\ online[b] /\ Untouched(b)
      /\ sess[b] \in Sessions /\ vw[b].conn \in Nat /\ sess'[a] = sess[a] /\ online'[a]
  BY SceneIs, SceneLater, TypedIs, WatcherIs DEF Untouched
<1>1. PICK m \in Signals : m = Answer(sess[b], o.conn, vw[b].conn)
  BY <1>0 DEF TakenOffers, Answer, Signals
<1>2. PICK f : f = To(sess[a], m)
  OBVIOUS
<1>3. Answering(a, b, o)' <=> Has(up'[b], f) \/ Has(down'[a], m)
  BY <1>0, <1>1, <1>2 DEF Answering
<1>4. CASE Has(up[b], f)
  <2>1. CASE Serve(b) /\ Head(up[b]) = f
    BY <1>0, <1>2, <1>3, <2>1, SignalGoesOn
  <2> QED
    BY <1>0, <1>3, <1>4, <2>1, UpKeeps
<1>5. CASE Has(down[a], m)
  BY <1>0, <1>1, <1>3, <1>5, DownKeeps
<1> QED
  BY <1>1, <1>2, <1>4, <1>5 DEF Answering

LEMMA HeardGoes ==
  ASSUME NEW b \in CanWatch, Scene(b), Scene(b)', Next, BoundWork(b), NEW a \in CanShare, vw[b].room # None,
         ~IsWarned(b), sharerId[vw[b].room] = sess[a], ~Joins(b), ~Leaves(b), ~TurnsAway(b),
         NEW o \in TakenOffers, IsOffered(a, b, o), Connects(a, b, o), Receive(a),
         NEW d \in Nat, NEW k \in Nat, Head(down[a]) = Answer(sess[b], d, k)
  PROVE  Applied(b, o)' /\ entry'[a][sess[b]].by = vw'[b].conn
<1>0. /\ Typed /\ FrameTypes /\ RoundInv /\ Calm(b) /\ a \in Apps /\ Meets(a, b) /\ InOrder(a)
      /\ sess[b] \in Sessions /\ down[a] # <<>> /\ vw[b].conn \in Nat
  BY SceneIs, TypedIs, WatcherIs DEF MeetsInOrder, Receive
<1>1. PICK q \in Seq(DownFrames) : q = down[a] /\ 1 \in 1 .. Len(q) /\ q[1] = Answer(sess[b], d, k)
  BY <1>0 DEF FrameTypes
<1>2. Has(down[a], Answer(sess[b], d, k))
  BY <1>1 DEF Has
<1>3. Replied(a, b, o) /\ d = o.conn
  <2>1. Meets(a, b)
    BY <1>0
  <2> QED
    BY <1>2, <2>1, HeardReplied
<1>4. EachOnce(a, b, o) /\ OneByOne(a, b, o) /\ InPhase(a, b, o)
  BY <1>0 DEF RoundInv, Round
<1>5. entry[a][sess[b]].phase = "offered"
  BY <1>3, <1>4 DEF InPhase
<1>6. Applied(b, o) /\ Answering(a, b, o)
  BY <1>3, <1>4, <1>5 DEF OneByOne, Connects
<1>7. ~Has(up[b], To(sess[a], Answer(sess[b], o.conn, vw[b].conn)))
  <2>1. To(sess[a], Answer(sess[b], o.conn, vw[b].conn)) \in RepliesOf(sess[b], o)
    BY <1>0, RoundFrames DEF IsOffered
  <2> QED
    BY <1>3, <1>4, <2>1 DEF OneByOne, Replying, Among, Has
<1>8. PICK i \in 1 .. Len(q) : q[i] = Answer(sess[b], o.conn, vw[b].conn)
  BY <1>1, <1>6, <1>7 DEF Answering, Has
<1>9. i = 1
  <2>1. q[i] \in AnswersOf(sess[b], o) /\ q[1] \in AnswersOf(sess[b], o)
    BY <1>0, <1>1, <1>3, <1>8, RoundFrames
  <2> QED
    BY <1>1, <1>4, <2>1 DEF EachOnce, OneOf
<1>10. k = vw[b].conn
  BY <1>1, <1>8, <1>9 DEF Answer
<1>11. entry'[a][sess[b]].by = k
  BY <1>0, <1>5, HearsAnswer
<1> QED
  BY <1>6, <1>10, <1>11, StaysApplied

LEMMA ConnectingStep ==
  ASSUME NEW b \in CanWatch, Scene(b), Scene(b)', Next, NEW a \in CanShare, KnowsRoom(b)', BoundWork(b),
         Connecting(a, b)
  PROVE  Connecting(a, b)'
<1>0. /\ Typed /\ TableTypes /\ SessionsInv /\ RoundInv /\ Calm(b) /\ a \in Apps /\ b \in Apps /\ Attends(b)
      /\ sess'[b] = sess[b] /\ sess[b] \in Sessions /\ NoEntry.phase = "none" /\ None \notin RoomIds
      /\ MeetsInOrder(a, b) /\ InOrder(a) /\ SharersTyped
  BY SceneIs, SceneLater, TypedIs, NoneAssumption DEF NoEntry
<1> SUFFICES ASSUME NEW o \in TakenOffers, IsOffered(a, b, o)', Met(a, b)' PROVE Connects(a, b, o)'
  BY DEF Connecting
<1>1. /\ Connects(a, b, o)' <=>
           /\ entry'[a][sess[b]].phase = "offered" =>
                \/ Sending(a, b, o)' \/ Coming(b, o)' \/ (Pending(b, o)' /\ ~Applied(b, o)')
                \/ Applied(b, o)' /\ Answering(a, b, o)'
           /\ entry'[a][sess[b]].phase = "answered" => Applied(b, o)' /\ entry'[a][sess[b]].by = vw'[b].conn
      /\ entry'[a][sess[b]] # NoEntry /\ o.conn = entry'[a][sess[b]].conn /\ Waiting(b)'
      /\ o.from = sess'[a]
  BY <1>0 DEF Connects, IsOffered, Met
<1>2. EntryMeets(a, sess[b])
  <2>1. Meets(a, b)
    BY SceneIs DEF MeetsInOrder
  <2> QED
    BY <1>0, <2>1, MeetingGoes
<1>3. CASE entry[a][sess[b]] = NoEntry
  <2>1. entry'[a][sess[b]].phase = "offering"
    BY <1>0, <1>1, <1>2, <1>3 DEF EntryMeets
  <2> QED
    BY <1>1, <2>1
<1>4. CASE entry[a][sess[b]] # NoEntry
  <2>1. /\ ~Joins(b) /\ ~Leaves(b) /\ ~TurnsAway(b) /\ ~WarnedAnew(b) /\ Untouched(a) /\ ~IsWarned(b)
        /\ vw'[b].room = vw[b].room /\ vw[b].room \in RoomIds /\ vw[b].room # None
        /\ sharerId[vw[b].room] = sess[a] /\ sess[b] \in viewers[vw[b].room] /\ online[a]
        /\ Waiting(b)
    BY <1>0, <1>1, <1>4, MetBefore
  <2>2. sess'[a] = sess[a] /\ online'[a]
    BY <2>1 DEF Untouched
  <2>3. IsOffered(a, b, o)
    BY <1>0, <1>1, <1>2, <1>4, <2>2 DEF EntryMeets, IsOffered
  <2>4. Round(a, b, o)
    BY <1>0, <2>3 DEF RoundInv
  <2>11. Met(a, b) /\ vw[b].listening # 0
    BY <1>0, <2>1 DEF Met, Attends
  <2>12. Connects(a, b, o)
    BY <2>3, <2>11 DEF Connecting
  <2>13. CASE entry'[a][sess[b]] = entry[a][sess[b]]
    <3>1. CASE entry[a][sess[b]].phase = "answered"
      <4>1. Applied(b, o) /\ entry[a][sess[b]].by = vw[b].conn
        BY <2>12, <3>1 DEF Connects
      <4>2. Applied(b, o)' /\ vw'[b].conn = vw[b].conn
        BY <2>1, <2>3, <4>1, StaysApplied
      <4> QED
        BY <1>1, <2>13, <3>1, <4>1, <4>2
    <3>2. CASE entry[a][sess[b]].phase = "offered"
      <4>1. CASE Sending(a, b, o)
        <5>1. PICK r \in RoomIds : r = vw[b].room
          BY <2>1
        <5>2. Sending(a, b, o)' \/ Coming(b, o)'
          BY <2>1, <4>1, <5>1, SendingGoes
        <5> QED
          BY <1>1, <2>13, <3>2, <5>2
      <4>2. CASE Coming(b, o)
        <5>1. ~Applied(b, o)
          BY <2>4, <4>2 DEF Round, OneByOne
        <5>2. Coming(b, o)' \/ (Pending(b, o)' /\ ~Applied(b, o)')
          BY <2>1, <2>11, <4>2, <5>1, ComingGoes
        <5> QED
          BY <1>1, <2>13, <3>2, <5>2
      <4>3. CASE Pending(b, o) /\ ~Applied(b, o)
        <5>1. \/ Pending(b, o)' /\ ~Applied(b, o)'
              \/ Applied(b, o)' /\ Has(up'[b], To(sess[a], Answer(sess[b], o.conn, vw'[b].conn)))
          BY <1>1, <2>1, <2>3, <4>3, PendingGoes
        <5> QED
          BY <1>0, <1>1, <2>2, <2>13, <3>2, <5>1 DEF Answering
      <4>4. CASE Applied(b, o) /\ Answering(a, b, o)
        <5>1. Applied(b, o)' /\ vw'[b].conn = vw[b].conn
          BY <2>1, <2>3, <4>4, StaysApplied
        <5>2. ASSUME Receive(a), Head(down[a]) = Answer(sess[b], o.conn, vw[b].conn) PROVE FALSE
          <6>1. o.conn \in Nat /\ vw[b].conn \in Nat
            BY <1>0, TypedIs, WatcherIs DEF TakenOffers
          <6>2. entry'[a][sess[b]].phase = "answered"
            BY <1>0, <3>2, <5>2, <6>1, HearsAnswer
          <6> QED
            BY <2>13, <3>2, <6>2
        <5>3. Answering(a, b, o)'
          BY <2>1, <4>4, <5>1, <5>2, AnsweringGoes
        <5> QED
          BY <1>1, <2>13, <3>2, <5>1, <5>3
      <4> QED
        BY <2>12, <3>2, <4>1, <4>2, <4>3, <4>4 DEF Connects
    <3> QED
      BY <1>1, <2>13, <3>1, <3>2
  <2>14. CASE entry[a][sess[b]].phase = "offering" /\ entry'[a][sess[b]].phase = "offered"
    <3>1. Has(up'[a], To(sess[b], Offer(sess[a], entry[a][sess[b]].conn)))
      BY <1>0, <2>1, <2>14, OfferSent
    <3>2. OfferOf(o) = Offer(sess[a], entry[a][sess[b]].conn)
      BY <2>3 DEF IsOffered, OfferOf
    <3>3. Sending(a, b, o)'
      BY <1>0, <3>1, <3>2, StationsLater
    <3> QED
      BY <1>1, <2>14, <3>3
  <2>15. CASE entry'[a][sess[b]] # entry[a][sess[b]] /\ entry'[a][sess[b]].phase = "answered"
    <3>1. /\ down[a] # <<>> /\ down'[a] = Tail(down[a])
          /\ \E d \in Nat, k \in Nat : Head(down[a]) = Answer(sess[b], d, k)
      BY <1>1, <1>2, <2>15 DEF EntryMeets
    <3>2. Receive(a)
      BY <1>0, <2>2, <3>1, TailReceived
    <3>3. Applied(b, o)' /\ entry'[a][sess[b]].by = vw'[b].conn
      BY <2>1, <2>3, <2>12, <3>1, <3>2, HeardGoes
    <3> QED
      BY <1>1, <2>15, <3>3
  <2> QED
    BY <1>1, <1>2, <1>4, <2>13, <2>14, <2>15 DEF EntryMeets
<1> QED
  BY <1>3, <1>4

(***************************************************************************)
(* All that holds of a guest, among sharers that are never in two places.  *)
(***************************************************************************)
GuestFacts(b) ==
  /\ JoinsItsRoom(b) /\ LeavesBehind(b) /\ KnowsRoom(b)
  /\ HasSeat(b) /\ BoundDown(b) /\ BoundWork(b)
  /\ \A a \in CanShare : Tied(a, b) /\ Connecting(a, b)
GuestInv == Mannered => RoomsHosted /\ \A b \in CanWatch : Guest(b) => GuestFacts(b)
\* A connection that there is has made its offer or is about to.
PhaseInv == \A a \in CanShare, v \in Sessions : entry[a][v].phase = "none" => entry[a][v] = NoEntry

LEMMA GuestFactsStep ==
  ASSUME NEW b \in CanWatch, Scene(b), Scene(b)', Next, RoomsHosted, GuestFacts(b)
  PROVE  GuestFacts(b)'
<1>0. /\ JoinsItsRoom(b) /\ LeavesBehind(b) /\ KnowsRoom(b)
      /\ HasSeat(b) /\ BoundDown(b) /\ BoundWork(b)
      /\ \A a \in CanShare : Tied(a, b) /\ Connecting(a, b)
  BY DEF GuestFacts
<1>1. JoinsItsRoom(b)' /\ LeavesBehind(b)'
  BY <1>0, JoinsItsRoomStep, LeavesBehindStep
<1>2. KnowsRoom(b)'
  BY <1>0, KnowsRoomStep
<1>3. HasSeat(b)'
  BY <1>0, HasSeatStep
<1>4. BoundDown(b)' /\ BoundWork(b)'
  BY <1>0, BoundDownStep, BoundWorkStep
<1>5. ASSUME NEW a \in CanShare PROVE Tied(a, b)' /\ Connecting(a, b)'
  <2>1. Tied(a, b) /\ Connecting(a, b)
    BY <1>0
  <2>3. Tied(a, b)'
    BY <1>0, <2>1, TiedStep
  <2>5. Connecting(a, b)'
    BY <1>0, <1>2, <2>1, ConnectingStep
  <2> QED
    BY <2>3, <2>5
<1> QED
  BY <1>1, <1>2, <1>3, <1>4, <1>5 DEF GuestFacts

LEMMA GuestStep ==
  ASSUME ShownInv, ShownInv', GuestInv, Next
  PROVE  GuestInv'
<1>1. happened \subseteq happened'
  BY MishapsStay
<1> SUFFICES ASSUME Mannered' PROVE RoomsHosted' /\ \A b \in CanWatch : Guest(b)' => GuestFacts(b)'
  BY DEF GuestInv
<1>2. Mannered
  BY <1>1, MannersBefore
<1>3. RoomsHosted /\ RoomsHosted'
  BY <1>2, RoomsHostedStep DEF GuestInv
<1>4. ASSUME NEW b \in CanWatch, Guest(b)' PROVE GuestFacts(b)'
  <2>1. Guest(b)
    BY <1>1, <1>4, MannersBefore
  <2>2. Scene(b) /\ GuestFacts(b)
    BY <1>2, <2>1 DEF Scene, GuestInv
  <2>3. Scene(b)'
    BY <1>4 DEF Scene
  <2> QED
    BY <1>3, <2>2, <2>3, GuestFactsStep
<1> QED
  BY <1>3, <1>4

LEMMA GuestInit == Init => GuestInv
<1> SUFFICES ASSUME Init PROVE GuestInv
  OBVIOUS
<1>1. /\ \A b \in CanWatch : vw[b].room = None /\ vw[b].state = "idle" /\ vw[b].remote = NoOffer /\ offers[b] = <<>>
      /\ \A a \in Apps : up[a] = <<>> /\ down[a] = <<>>
      /\ \A s \in Sessions : sessionRooms[s] = None
      /\ \A r \in RoomIds : sharerId[r] = None
      /\ \A a \in CanShare : entry[a] = NoEntries
  BY DEF Init, LinkInit, RMInit, SharingInit, ViewingInit
<1>2. RoomsHosted
  BY <1>1 DEF RoomsHosted
<1>3. ASSUME NEW b \in CanWatch PROVE GuestFacts(b)
  <2>0. /\ vw[b].room = None /\ ~Waiting(b) /\ vw[b].remote = NoOffer /\ offers[b] = <<>> /\ b \in Apps
        /\ up[b] = <<>> /\ down[b] = <<>> /\ sess[b] \in Sessions
    BY <1>1, WatchersAssumption, TypedInit, TypedIs DEF Waiting, TableTypes
  <2>1. JoinsItsRoom(b) /\ LeavesBehind(b) /\ KnowsRoom(b) /\ HasSeat(b) /\ BoundDown(b) /\ BoundWork(b)
    BY <2>0 DEF JoinsItsRoom, LeavesBehind, KnowsRoom, HasSeat, BoundDown, BoundWork, Pending, Has
  <2>3. ASSUME NEW a \in CanShare PROVE Tied(a, b) /\ Connecting(a, b)
    <3>1. entry[a][sess[b]] = NoEntry
      BY <1>1, <2>0 DEF NoEntries
    <3>2. \A o : ~IsOffered(a, b, o)
      BY <3>1 DEF IsOffered
    <3> QED
      BY <2>0, <3>2 DEF Tied, Connecting
  <2> QED
    BY <2>1, <2>3 DEF GuestFacts
<1> QED
  BY <1>2, <1>3 DEF GuestInv

LEMMA GuestKept == GuestInv /\ UNCHANGED shareVars => GuestInv'
<1> SUFFICES ASSUME GuestInv, Mannered',
                    UNCHANGED <<sharerId, viewers, sessionRooms, sess, online, gone, up, down, happened,
                                entry, vw, offers>>
             PROVE  RoomsHosted' /\ \A b \in CanWatch : Guest(b)' => GuestFacts(b)'
  BY DEF GuestInv, shareVars, linkVars, rmVars, shVars, vwVars
<1>1. Mannered /\ \A b : Guest(b)' => Guest(b)
  BY MannersBefore
<1>2. RoomsHosted'
  BY <1>1 DEF GuestInv, RoomsHosted, HostedBy, Indexed
<1>3. ASSUME NEW b \in CanWatch, Guest(b)' PROVE GuestFacts(b)'
  <2>1. /\ JoinsItsRoom(b) /\ LeavesBehind(b) /\ KnowsRoom(b)
        /\ HasSeat(b) /\ BoundDown(b) /\ BoundWork(b)
        /\ \A a \in CanShare : Tied(a, b) /\ Connecting(a, b)
    BY <1>1, <1>3 DEF GuestInv, GuestFacts
  <2>2. /\ IsWarned(b)' <=> IsWarned(b)
        /\ Waiting(b)' <=> Waiting(b)
    BY DEF IsWarned, Waiting
  <2>3. \A s : Hosted(b, s)' <=> Hosted(b, s)
    BY DEF Hosted
  <2>4. JoinsItsRoom(b)' /\ LeavesBehind(b)' /\ KnowsRoom(b)'
    BY <2>1, <2>2 DEF JoinsItsRoom, LeavesBehind, KnowsRoom
  <2>5. HasSeat(b)' /\ BoundDown(b)' /\ BoundWork(b)'
    BY <2>1, <2>2, <2>3 DEF HasSeat, BoundDown, BoundWork, Pending, Has
  <2>6. ASSUME NEW a \in CanShare PROVE Tied(a, b)' /\ Connecting(a, b)'
    <3>0. Tied(a, b) /\ Connecting(a, b)
      BY <2>1
    <3>1. \A o : /\ IsOffered(a, b, o)' <=> IsOffered(a, b, o)
                 /\ Applied(b, o)' <=> Applied(b, o)
                 /\ Pending(b, o)' <=> Pending(b, o)
                 /\ Coming(b, o)' <=> Coming(b, o)
                 /\ Sending(a, b, o)' <=> Sending(a, b, o)
                 /\ Replied(a, b, o)' <=> Replied(a, b, o)
                 /\ Answering(a, b, o)' <=> Answering(a, b, o)
      BY DEF IsOffered, Applied, Pending, Coming, Sending, Replied, Answering, Has, Among
    <3>3. Tied(a, b)'
      BY <3>0 DEF Tied, Knows, Told, Has
    <3>5. Connecting(a, b)'
      BY <2>2, <3>0, <3>1 DEF Connecting, Met, Connects
    <3> QED
      BY <3>3, <3>5
  <2> QED
    BY <2>4, <2>5, <2>6 DEF GuestFacts
<1> QED
  BY <1>2, <1>3

LEMMA PhaseStep ==
  ASSUME Typed, PhaseInv, Next
  PROVE  PhaseInv'
<1> SUFFICES ASSUME NEW a \in CanShare, NEW v \in Sessions, entry'[a][v].phase = "none" PROVE entry'[a][v] = NoEntry
  BY DEF PhaseInv
<1> QED
  BY EntryMoves DEF EntryGoes, PhaseInv

LEMMA PhaseInit == Init => PhaseInv
BY DEF Init, SharingInit, NoEntries, PhaseInv

LEMMA PhaseKept == PhaseInv /\ UNCHANGED shareVars => PhaseInv'
BY DEF PhaseInv, shareVars, shVars

LEMMA GuestsHold ==
  Spec => [](SharerInv /\ HostInv /\ ShownInv /\ GuestInv /\ PhaseInv)
<1>1. GuestInv /\ PhaseInv /\ ShownInv /\ ShownInv' /\ [Next]_shareVars => GuestInv' /\ PhaseInv'
  BY GuestStep, GuestKept, PhaseStep, PhaseKept DEF ShownInv
<1>2. Init => GuestInv /\ PhaseInv
  BY GuestInit, PhaseInit
<1> QED
  BY <1>1, <1>2, ShownHolds, HostsHold, PTL DEF Spec

\* At rest, a guest that shows its room is in it, and the room is a sharer's.
LEMMA GuestSeated ==
  ASSUME NEW b \in CanWatch, Scene(b), RoomsHosted, KnowsRoom(b), HasSeat(b), AtRest, Waiting(b)
  PROVE  \E a \in CanShare, r \in RoomIds :
           /\ vw[b].room = r /\ sess[b] \in viewers[r] /\ sharerId[r] = sess[a]
           /\ Met(a, b) /\ sh[a].stream # 0
<1>0. b \in Apps /\ up[b] = <<>> /\ down[b] = <<>> /\ sess[b] \in Sessions /\ gone = {} /\ Typed
  BY SceneIs, RestIs DEF AtRest
<1>1. vw[b].room \in RoomIds /\ ~IsWarned(b) /\ sess[b] \in viewers[vw[b].room]
  <2>1. vw[b] \in Watchers
    BY <1>0, TypedIs DEF ViewersTyped, WatchTypes
  <2>2. vw[b].room \in RoomIds
    BY <2>1 DEF KnowsRoom, Watchers
  <2> QED
    BY <1>0, <2>2 DEF HasSeat, IsWarned
<1>2. PICK r \in RoomIds : vw[b].room = r /\ sess[b] \in viewers[r]
  BY <1>1
<1>3. sharerId[r] # None
  BY <1>0, <1>2, TypedIs DEF TableTypes, RMTypeOK, RoomExists
<1>4. PICK a \in CanShare : online[a] /\ sess[a] = sharerId[r]
  BY <1>0, <1>3 DEF RoomsHosted, HostedBy
<1>5. a \in Apps /\ OutWhenSilent(a) /\ up[a] = <<>>
  BY <1>4, SceneIs, RestIs DEF InPlace
<1>6. sh[a].stream # 0
  <2> SUFFICES ASSUME sh[a].stream = 0 PROVE FALSE
    OBVIOUS
  <2>1. NoShareAt(a, 1)
    BY <1>4, <1>5 DEF OutWhenSilent, Silent, Last
  <2>2. ~LeftBy(up[a], 1, "create-room")
    BY <1>5 DEF LeftBy
  <2> QED
    BY <1>4, <2>1, <2>2 DEF NoShareAt, Shareless
<1> QED
  BY <1>1, <1>2, <1>4, <1>6 DEF Met

\* At rest, a sharer has a connection to every guest in its room.
LEMMA GuestServed ==
  ASSUME NEW b \in CanWatch, Scene(b), HostInv, AtRest, NEW a \in CanShare, NEW r \in RoomIds,
         online[a], sharerId[r] = sess[a], sess[b] \in viewers[r], sh[a].stream # 0
  PROVE  entry[a][sess[b]] # NoEntry
<1>0. /\ a \in Apps /\ up[a] = <<>> /\ down[a] = <<>> /\ down[a] \in Seq(DownFrames)
      /\ Tame(a) /\ InPlace(a) /\ Typed /\ Calmly(b)
  BY SceneIs, RestIs, TypedIs DEF FrameTypes
<1>1. ~Strayed(a)
  BY DEF Strayed, Roomless, Shareless
<1>2. ~AsksForRoom(up[a])
  BY <1>0 DEF AsksForRoom
<1>3. PICK x \in RoomIds, i \in 0 .. Len(down[a]) :
        sharerId[x] = sess[a] /\ RoomStart(a, x, i) /\ Follows(a, x, i)
  BY <1>0, <1>1, <1>2 DEF HostInv, HasRoom
<1>4. x = r
  BY <1>0, <1>3 DEF InPlace, Indexed
<1>5. i = 0
  BY <1>0, <1>3
<1>6. Present(a, 0, sess[b])
  BY <1>0, <1>3, <1>4, <1>5 DEF Follows
<1> QED
  BY <1>0, <1>6, ExpectedAtEnd DEF Present

\* At rest, the two have each other's descriptions.
LEMMA GuestMatched ==
  ASSUME NEW b \in CanWatch, Scene(b), PhaseInv, AtRest, NEW a \in CanShare, Met(a, b), Connecting(a, b),
         entry[a][sess[b]] # NoEntry
  PROVE  Matched(a, b)
<1>0. /\ a \in Apps /\ b \in Apps /\ up[a] = <<>> /\ down[a] = <<>> /\ up[b] = <<>> /\ down[b] = <<>>
      /\ offers[b] = <<>> /\ sess[a] \in Sessions /\ sess[b] \in Sessions
      /\ Attends(b) /\ Meets(a, b) /\ Typed
  BY SceneIs, RestIs, TypedIs DEF AtRest, TableTypes, MeetsInOrder
<1>1. PICK e : e = entry[a][sess[b]]
  OBVIOUS
<1>2. e \in Entries /\ e.conn \in Nat
  <2>1. entry \in [CanShare -> [Sessions -> Entries]]
    BY <1>0, TypedIs DEF SharersTyped, SharingTypeOK
  <2>2. e \in Entries
    BY <1>0, <1>1, <2>1
  <2> QED
    BY <2>2 DEF Entries
<1>3. e.phase \in {"offered", "answered"}
  BY <1>0, <1>1, <1>2 DEF AtRest, PhaseInv, Entries
<1>4. PICK o \in TakenOffers : o.from = sess[a] /\ o.conn = e.conn /\ o = [from |-> sess[a], conn |-> e.conn]
  BY <1>0, <1>2 DEF TakenOffers
<1>5. IsOffered(a, b, o)
  BY <1>1, <1>4 DEF IsOffered
<1>6. Connects(a, b, o)
  BY <1>5 DEF Connecting
<1>7. /\ ~Sending(a, b, o) /\ ~Coming(b, o) /\ ~Pending(b, o) /\ ~Answering(a, b, o)
  BY <1>0 DEF Sending, Coming, Pending, Answering, Has
<1>8. e.phase = "answered" /\ Applied(b, o) /\ e.by = vw[b].conn
  BY <1>1, <1>3, <1>6, <1>7 DEF Connects
<1>9. o # NoOffer
  BY NoneAssumption DEF TakenOffers, NoOffer
<1>10. vw[b].remote = o /\ vw[b].conn # 0
  BY <1>0, <1>8, <1>9 DEF Applied, Attends
<1>11. e.of = e.conn
  BY <1>0, <1>1, <1>8 DEF Meets
<1> QED
  BY <1>1, <1>4, <1>8, <1>10, <1>11 DEF Matched

\* Apart from what a mishap of its own or a refused offer excuses, a viewer is a guest.
LEMMA WaitersAreGuests ==
  ASSUME NEW b, b \in CanWatch, Spared(CanWatch, {"offer refused"}),
         Spared({b}, {"drop", "connection fails", "quick rejoin", "both roles"})
  PROVE  Guest(b)
<1>1. Spared({b}, {"offer refused"})
  BY Zenon DEF Spared
<1> QED
  BY <1>1, Zenon DEF Guest, GuestMishaps, Spared

(***************************************************************************)
(* Nobody waits in vain: at rest, an application that shows a viewer a     *)
(* picture or a spinner is in the room, and its connection and the         *)
(* sharer's have each other's descriptions (join, acceptOffer, addViewer,  *)
(* handleAnswer), whatever the others did in between, as long as no sharer *)
(* is one that the server has in two places and no viewer's acceptOffer    *)
(* has failed.                                                             *)
(***************************************************************************)
THEOREM NobodyWaitsInVain ==
  Spec => [](Spared(CanWatch, {"offer refused"}) => WaitingMeansConnecting)
<1> DEFINE Accepted == Spared(CanWatch, {"offer refused"})
<1>1. HostInv /\ ShownInv /\ GuestInv /\ PhaseInv => (Accepted => WaitingMeansConnecting)
  <2> SUFFICES ASSUME HostInv, ShownInv, GuestInv, PhaseInv, AtRest,
                      NEW b \in CanWatch, Waiting(b), Guest(b),
                      Spared(CanShare, Restarts) /\ Spared(CanShare, {"both roles"}),
                      \A a \in CanShare : InOnePlace(a)
               PROVE  /\ sess[b] \in viewers[vw[b].room]
                      /\ \E a \in CanShare : sharerId[vw[b].room] = sess[a] /\ Matched(a, b)
    BY SparedBoth, WaitersAreGuests, Zenon DEF WaitingMeansConnecting, Waiting
  <2>1. Mannered
    <3> SUFFICES ASSUME NEW a \in CanShare PROVE Tame(a) /\ OneRole(a)
      BY DEF Mannered
    <3>1. Steady(a)
      BY SparedOne, Zenon DEF Steady
    <3>2. OneRole(a)
      BY SparedOne, Zenon DEF OneRole
    <3> QED
      BY <3>1, <3>2 DEF Tame
  <2>2. Scene(b)
    BY <2>1 DEF Scene
  <2>3. RoomsHosted /\ GuestFacts(b)
    BY <2>1 DEF GuestInv
  <2>4. KnowsRoom(b) /\ HasSeat(b) /\ \A a \in CanShare : Connecting(a, b)
    BY <2>3 DEF GuestFacts
  <2>5. PICK a \in CanShare, r \in RoomIds :
          /\ vw[b].room = r /\ sess[b] \in viewers[r] /\ sharerId[r] = sess[a]
          /\ Met(a, b) /\ sh[a].stream # 0
    BY <2>2, <2>3, <2>4, GuestSeated
  <2>6. online[a]
    BY <2>5 DEF Met
  <2>7. entry[a][sess[b]] # NoEntry
    BY <2>2, <2>5, <2>6, GuestServed
  <2>8. Matched(a, b)
    BY <2>2, <2>4, <2>5, <2>7, GuestMatched
  <2> QED
    BY <2>5, <2>8
<1> HIDE DEF Accepted
<1>2. Spec => [](Accepted => WaitingMeansConnecting)
  BY <1>1, GuestsHold, PTL
<1> QED
  BY <1>2 DEF Accepted
=============================================================================
