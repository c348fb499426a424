--------------------------- MODULE ViewingSession ---------------------------
(***************************************************************************)
(* The viewing half of a desktop application: ViewingManager and the       *)
(* screen that owns it (apps/desktop/src/features/viewing/).  acceptOffer  *)
(* awaits the browser, so an offer is first taken and answered in a later  *)
(* step.  Statistics, candidates and the picture itself are left out.      *)
(***************************************************************************)
EXTENDS SignalingLink

CONSTANTS
  CanWatch,   \* the applications whose user watches
  MaxJoins,   \* bound: calls of join() per application
  MaxLeaves   \* bound: times the watch screen is left

ASSUME WatchersAssumption ==
  CanWatch \subseteq Apps /\ MaxJoins \in Nat /\ MaxLeaves \in Nat

VARIABLES
  vw,       \* the manager's fields, see Watchers
  offers,   \* app -> offers acceptOffer is working on, first come first
  visits    \* app -> calls of join() and screens left so far

vwVars == <<vw, offers, visits>>

Offers == [from : Sessions \union {None}, conn : Nat]
NoOffer == [from |-> None, conn |-> 0]

(***************************************************************************)
(* conn is #connection: 0, or the number of the connection this application*)
(* made (of made); remote is the offer in its remote description.          *)
(* listening counts the listeners registered, subscribed says that the     *)
(* manager can still remove the last one.                                  *)
(***************************************************************************)
Watchers ==
  [state : {"idle", "connecting", "connected", "reconnecting", "disconnected", "error"},
   room : RoomIds \union {None}, conn : Nat, remote : Offers, made : Nat,
   listening : Nat, subscribed : BOOLEAN]

ViewingTypeOK ==
  /\ vw \in [CanWatch -> Watchers]
  /\ \A b \in CanWatch : \A i \in 1 .. Len(offers[b]) :
       offers[b][i] \in Offers
  /\ visits \in [CanWatch -> [joins : 0 .. MaxJoins, leaves : 0 .. MaxLeaves]]

ViewingInit ==
  /\ vw = [b \in CanWatch |->
            [state |-> "idle", room |-> None, conn |-> 0, remote |-> NoOffer, made |-> 0,
             listening |-> 0, subscribed |-> FALSE]]
  /\ offers = [b \in CanWatch |-> <<>>]
  /\ visits = [b \in CanWatch |-> [joins |-> 0, leaves |-> 0]]
-----------------------------------------------------------------------------
\* Faulty variant: an offer that is being answered is answered after all.
CleanUpWatchKeepsOffers(b, state, room, left) ==
  /\ vw' = [vw EXCEPT ![b] =
              [@ EXCEPT !.state = state, !.room = room, !.conn = 0, !.remote = NoOffer,
                        !.subscribed = FALSE, !.listening = left]]
  /\ UNCHANGED offers

\* #cleanup: a closed connection settles nothing it still owed.
CleanUpWatch(b, state, room, left) ==
  /\ vw' = [vw EXCEPT ![b] =
              [@ EXCEPT !.state = state, !.room = room, !.conn = 0, !.remote = NoOffer,
                        !.subscribed = FALSE, !.listening = left]]
  /\ offers' = [offers EXCEPT ![b] = <<>>]

\* The listeners left when the last one registered is taken off.
Unsubscribed(b) == vw[b].listening - (IF vw[b].subscribed THEN 1 ELSE 0)

(***************************************************************************)
(* join(), from the form the screen shows when it shows no picture.  While *)
(* offline send throws, after everything else has been done.               *)
(***************************************************************************)
Join(b, r) ==
  /\ vw[b].state \in {"idle", "disconnected", "error"}
  /\ visits[b].joins < MaxJoins
  /\ visits' = [visits EXCEPT ![b].joins = @ + 1]
  /\ vw' = [vw EXCEPT ![b] = [@ EXCEPT !.state = "connecting", !.room = r,
                                       !.listening = vw[b].listening + 1,
                                       !.subscribed = TRUE]]
  /\ up' = Sent(b, <<JoinMsg(r)>>)
  /\ UNCHANGED <<rmVars, sess, online, used, gone, down, offers>>

\* Faulty variant: the server is not told.
LeaveFramesNone(b) == {<<>>}

\* What leaving sends: the screen's own button calls leave() before it goes.
LeaveFrames(b) ==
  {<<Plain("leave-room")>>} \union
  (IF vw[b].state \in {"connecting", "connected", "reconnecting"}
   THEN {<<Plain("leave-room"), Plain("leave-room")>>} ELSE {})

(***************************************************************************)
(* leave(), when the screen goes away; the next one has a manager of its   *)
(* own.  Left out is what a manager does that nobody uses any more, whose  *)
(* screen went away while it was registered twice.                         *)
(***************************************************************************)
Leave(b) ==
  /\ visits[b].leaves < MaxLeaves
  /\ visits' = [visits EXCEPT ![b].leaves = @ + 1]
  /\ \E frames \in LeaveFrames(b) : up' = Sent(b, frames)
  /\ CleanUpWatch(b, "idle", None, 0)
  /\ UNCHANGED <<rmVars, sess, online, used, gone, down>>

(***************************************************************************)
(* The offer is applied and answered; send throws while offline.  The      *)
(* connection answers an offer once: a second listener's answer to it is   *)
(* rejected, as an offer may be for reasons of its own.  Then the state    *)
(* says so and all else stays.                                             *)
(***************************************************************************)
AnswerReady(b) ==
  /\ offers[b] # <<>>
  /\ LET o == Head(offers[b]) IN
     /\ vw[b].remote # o
     /\ vw' = [vw EXCEPT ![b] = [@ EXCEPT !.remote = o,
                                          !.state = IF online[b] THEN vw[b].state ELSE "error"]]
     /\ up' = Sent(b, <<To(o.from, Answer(sess[b], o.conn, vw[b].conn))>>)
  /\ offers' = [offers EXCEPT ![b] = Tail(@)]
  /\ UNCHANGED <<rmVars, sess, online, used, gone, down, happened, visits>>

AnswerFails(b) ==
  /\ offers[b] # <<>>
  /\ MishapsAllowed({b}, OnlyIf(vw[b].remote # Head(offers[b]), "offer refused"))
  /\ vw' = [vw EXCEPT ![b].state = "error"]
  /\ offers' = [offers EXCEPT ![b] = Tail(@)]
  /\ UNCHANGED <<linkVars, visits>>

\* onconnectionstatechange "disconnected" or "failed": a connection that was
\* negotiated may fail before there was a picture.
PictureLost(b) ==
  /\ vw[b].remote # NoOffer /\ vw[b].state # "reconnecting"
  /\ vw' = [vw EXCEPT ![b].state = "reconnecting"]
  /\ UNCHANGED <<linkVars, happened, offers, visits>>

\* onconnectionstatechange "connected".
PictureArrives(b) ==
  /\ vw[b].conn # 0 /\ vw[b].state # "connected"
  /\ vw' = [vw EXCEPT ![b].state = "connected"]
  /\ UNCHANGED <<linkVars, happened, offers, visits>>

\* An offer, through a new connection or the one there is.
TakeOffer(b, m) ==
  LET o == [from |-> m.from, conn |-> m.conn] IN
  /\ offers' = [offers EXCEPT ![b] = @ \o [i \in 1 .. vw[b].listening |-> o]]
  /\ vw' = IF vw[b].conn # 0 THEN vw
           ELSE [vw EXCEPT ![b] = [@ EXCEPT !.conn = vw[b].made + 1, !.made = vw[b].made + 1]]

\* Faulty variants: the message is ignored.
RoomOverIgnored(b) == UNCHANGED <<vw, offers>>
RefusedIgnored(b) == UNCHANGED <<vw, offers>>

RoomOver(b) == CleanUpWatch(b, "disconnected", vw[b].room, Unsubscribed(b))
Refused(b) == CleanUpWatch(b, "error", vw[b].room, Unsubscribed(b))

\* #handleSignalingMessage, once per listener registered.
ViewingHears(b, m) ==
  IF vw[b].listening = 0 THEN UNCHANGED <<vw, offers>>
  ELSE CASE m.type = "offer" -> TakeOffer(b, m)
         [] m.type = "room-ended" -> RoomOver(b)
         [] m.type = "error" -> Refused(b)
         [] OTHER -> UNCHANGED <<vw, offers>>
=============================================================================
