--------------------------- MODULE SharingSession ---------------------------
(***************************************************************************)
(* The sharing half of a desktop application: SharingManager with its      *)
(* ViewerConnectionManager (apps/desktop/src/features/sharing/) and the    *)
(* captures that screen-capture.ts starts.  What awaits in the code is     *)
(* several steps here: a start() waits for the picker and then for the     *)
(* audio, an addViewer() for its offer; anything may happen in between.    *)
(* Each start() of a behaviour is numbered and its capture bears its       *)
(* number; ICE candidates, quality and statistics are left out.            *)
(***************************************************************************)
EXTENDS SignalingLink

CONSTANTS
  CanShare,    \* the applications whose user shares
  MaxStarts    \* bound: calls of start() per application

ASSUME SharersAssumption == CanShare \subseteq Apps /\ MaxStarts \in Nat

VARIABLES
  sh,         \* the manager's fields, see Managers
  starting,   \* start() call -> where it stands, see StartPhases
  capturing,  \* app -> captures whose video track is live
  entry       \* app -> viewer -> its ViewerEntry, see Entries

shVars == <<sh, starting, capturing, entry>>

Starts == 1 .. MaxStarts
\* "picker": getDisplayMedia is open.  "audio": it resolved, attachAudio runs.
StartPhases == {"none", "picker", "audio", "done"}

(***************************************************************************)
(* stopping is left within the step that enters it.  stream is 0 or a      *)
(* capture; managing says that #viewers is defined; listening counts the   *)
(* signaling listeners of this manager, subscribed says that it still has  *)
(* the means to remove the last one; made counts connections.              *)
(***************************************************************************)
Managers ==
  [state : {"idle", "starting", "sharing", "error"}, room : RoomIds \union {None},
   stream : 0 .. MaxStarts, managing : BOOLEAN, listening : 0 .. MaxStarts,
   subscribed : BOOLEAN, made : Nat]

\* of, by: which offer the answer that was applied answers, and from which end; 0 until then.
Entries == [phase : {"none", "offering", "offered", "answered"}, conn : Nat, of : Nat, by : Nat]
NoEntry == [phase |-> "none", conn |-> 0, of |-> 0, by |-> 0]
NoEntries == [v \in Sessions |-> NoEntry]
Offering(conn) == [phase |-> "offering", conn |-> conn, of |-> 0, by |-> 0]

SharingTypeOK ==
  /\ sh \in [CanShare -> Managers]
  /\ starting \in [CanShare -> [Starts -> StartPhases]]
  /\ capturing \in [CanShare -> SUBSET Starts]
  /\ entry \in [CanShare -> [Sessions -> Entries]]

SharingInit ==
  /\ sh = [a \in CanShare |->
            [state |-> "idle", room |-> None, stream |-> 0, managing |-> FALSE,
             listening |-> 0, subscribed |-> FALSE, made |-> 0]]
  /\ starting = [a \in CanShare |-> [n \in Starts |-> "none"]]
  /\ capturing = [a \in CanShare |-> {}]
  /\ entry = [a \in CanShare |-> NoEntries]

AwaitsCapture(a) == \E n \in Starts : starting[a][n] \in {"picker", "audio"}
-----------------------------------------------------------------------------
\* Faulty variant: the listener stays registered.
CleanedStillListening(m) == [m EXCEPT !.stream = 0, !.managing = FALSE, !.subscribed = FALSE]

\* The fields after #cleanup.
Cleaned(m) ==
  [m EXCEPT !.stream = 0, !.managing = FALSE, !.subscribed = FALSE,
            !.listening = IF m.subscribed THEN @ - 1 ELSE @]

\* #cleanup of a manager with fields m: connections closed, the capture stopped.
CleanUp(a, m, state) ==
  /\ sh' = [sh EXCEPT ![a] = [Cleaned(m) EXCEPT !.state = state]]
  /\ entry' = [entry EXCEPT ![a] = NoEntries]

\* start(): from "error" nothing is cleaned up first.  `other` is what else is unusual.
Start(a, n, other) ==
  /\ sh[a].state \in {"idle", "error"}
  /\ starting[a][n] = "none" /\ \A k \in 1 .. n - 1 : starting[a][k] # "none"
  /\ MishapsAllowed({a}, other \union OnlyIf(sh[a].stream # 0, "start over error"))
  /\ sh' = [sh EXCEPT ![a].state = "starting"]
  /\ starting' = [starting EXCEPT ![a][n] = "picker"]
  /\ UNCHANGED <<linkVars, capturing, entry>>

\* The user picks a screen: the capture runs from here on.
PickerAnswers(a, n) ==
  /\ starting[a][n] = "picker"
  /\ starting' = [starting EXCEPT ![a][n] = "audio"]
  /\ capturing' = [capturing EXCEPT ![a] = @ \union {n}]
  /\ UNCHANGED <<linkVars, happened, sh, entry>>

\* The picker is cancelled, or the capture is refused.
PickerFails(a, n) ==
  /\ starting[a][n] = "picker"
  /\ starting' = [starting EXCEPT ![a][n] = "done"]
  /\ \E state \in {"idle", "error"} : CleanUp(a, sh[a], state)
  /\ capturing' = [capturing EXCEPT ![a] = @ \ {sh[a].stream}]
  /\ UNCHANGED <<linkVars, happened>>

(***************************************************************************)
(* startCapture returns and start() goes on, in whatever state the manager *)
(* is by now: listen, ask for a room.  send throws while offline.          *)
(***************************************************************************)
CaptureStarts(a, n) ==
  LET listens == [sh[a] EXCEPT !.stream = n, !.listening = @ + 1, !.subscribed = TRUE] IN
  /\ starting[a][n] = "audio"
  /\ starting' = [starting EXCEPT ![a][n] = "done"]
  /\ up' = Sent(a, <<Plain("create-room")>>)
  /\ IF online[a]
     THEN sh' = [sh EXCEPT ![a] = listens] /\ UNCHANGED <<capturing, entry>>
     ELSE CleanUp(a, listens, "error") /\ capturing' = [capturing EXCEPT ![a] = @ \ {n}]
  /\ UNCHANGED <<rmVars, sess, online, used, gone, down, happened>>

\* Faulty variant: the server is not told.
StoppedUntold(a) ==
  /\ CleanUp(a, [sh[a] EXCEPT !.room = None], "idle")
  /\ UNCHANGED up

\* The effect of stop(): the server is told, everything is let go.
Stopped(a) ==
  /\ up' = Sent(a, <<Plain("leave-room")>>)
  /\ CleanUp(a, [sh[a] EXCEPT !.room = None], "idle")

\* Faulty variant: the tracks are not stopped.
StopKeepsCapture(a) ==
  /\ sh[a].state # "idle"
  /\ MishapsAllowed({a}, OnlyIf(AwaitsCapture(a), "stop in picker"))
  /\ Stopped(a)
  /\ UNCHANGED <<rmVars, sess, online, used, gone, down, starting, capturing>>

Stop(a) ==
  /\ sh[a].state # "idle"
  /\ MishapsAllowed({a}, OnlyIf(AwaitsCapture(a), "stop in picker"))
  /\ Stopped(a)
  /\ capturing' = [capturing EXCEPT ![a] = @ \ {sh[a].stream}]
  /\ UNCHANGED <<rmVars, sess, online, used, gone, down, starting>>

\* Faulty variant: nobody listens for the end of the track.
CaptureEndsUnheard(a, n) ==
  /\ n \in capturing[a]
  /\ capturing' = [capturing EXCEPT ![a] = @ \ {n}]
  /\ UNCHANGED <<linkVars, happened, sh, starting, entry>>

(***************************************************************************)
(* Windows' own bar ends a capture.  onCaptureEnded listens only once      *)
(* attachAudio has returned; then the end is a stop().                     *)
(***************************************************************************)
CaptureEnds(a, n) ==
  /\ n \in capturing[a]
  /\ MishapsAllowed({a}, OnlyIf(starting[a][n] = "audio", "early end")
                         \union OnlyIf(starting[a][n] = "done" /\ AwaitsCapture(a), "stop in picker"))
  /\ IF starting[a][n] = "audio" \/ sh[a].state = "idle"
     THEN /\ capturing' = [capturing EXCEPT ![a] = @ \ {n}]
          /\ UNCHANGED <<up, sh, entry>>
     ELSE /\ Stopped(a)
          /\ capturing' = [capturing EXCEPT ![a] = @ \ {n, sh[a].stream}]
  /\ UNCHANGED <<rmVars, sess, online, used, gone, down, starting>>
-----------------------------------------------------------------------------
\* addViewer, up to its first await.
AddViewer(a, v) ==
  /\ sh' = [sh EXCEPT ![a].made = @ + 1]
  /\ entry' = [entry EXCEPT ![a][v] = Offering(sh[a].made + 1)]

\* Faulty variants: a departure is ignored; one viewer's departure is everybody's.
RemoveViewerNever(a, v) == UNCHANGED entry
RemoveViewerAll(a, v) == entry' = [entry EXCEPT ![a] = NoEntries]

RemoveViewer(a, v) == entry' = [entry EXCEPT ![a][v] = NoEntry]

\* createOffer and setLocalDescription are done: the offer goes out.
OfferReady(a, v) ==
  /\ entry[a][v].phase = "offering"
  /\ entry' = [entry EXCEPT ![a][v].phase = IF entry[a][v].of = 0 THEN "offered" ELSE "answered"]
  /\ up' = Sent(a, <<To(v, Offer(sess[a], entry[a][v].conn))>>)
  /\ UNCHANGED <<rmVars, sess, online, used, gone, down, happened, sh, starting, capturing>>

\* The negotiation throws, or ICE reports "failed": only this viewer goes.
ConnectionFails(a, v) ==
  /\ entry[a][v].phase # "none"
  /\ MishapsAllowed({b \in Apps : sess[b] = v}, {"connection fails"})
  /\ RemoveViewer(a, v)
  /\ UNCHANGED <<linkVars, sh, starting, capturing>>

(***************************************************************************)
(* The entry of v once its answer m was applied by each listener.  WebRTC  *)
(* accepts an answer to whatever offer is outstanding and rejects one when *)
(* none is.  An answer that finds the offer still being made is either:    *)
(* when it is accepted the offer still goes out, as OfferReady.  A         *)
(* rejected answer drops the viewer, and closes what makes its offer.      *)
(***************************************************************************)
AfterAnswer(e, m, listeners) ==
  LET accepted == [e EXCEPT !.of = m.conn, !.by = m.by] IN
  IF \/ e.phase \in {"none", "answered"}
     \/ e.phase = "offering" /\ e.of # 0
     \/ listeners > 1 THEN {NoEntry}
  ELSE IF e.phase = "offering" THEN {accepted, NoEntry}
  ELSE {[accepted EXCEPT !.phase = "answered"]}

\* #handleSignalingMessage, once per listener this manager has registered.
SharingHears(a, m) ==
  IF sh[a].listening = 0 THEN UNCHANGED <<sh, entry>>
  ELSE CASE m.type = "room-created" ->
              /\ sh' = [sh EXCEPT ![a] = [@ EXCEPT !.room = m.room, !.managing = TRUE,
                                                   !.state = "sharing"]]
              /\ entry' = [entry EXCEPT ![a] = NoEntries]
         [] m.type = "viewer-joined" /\ sh[a].managing /\ sh[a].stream # 0
                                     /\ entry[a][m.viewer] = NoEntry -> AddViewer(a, m.viewer)
         [] m.type = "viewer-left" -> RemoveViewer(a, m.viewer) /\ UNCHANGED sh
         [] m.type = "answer" ->
              /\ \E e \in AfterAnswer(entry[a][m.from], m, sh[a].listening) :
                   entry' = [entry EXCEPT ![a][m.from] = e]
              /\ UNCHANGED sh
         [] m.type = "error" /\ m.code # "ROOM_FULL" ->
              sh' = [sh EXCEPT ![a].state = "error"] /\ UNCHANGED entry
         [] OTHER -> UNCHANGED <<sh, entry>>
=============================================================================
