------------------------------ MODULE PeerLink ------------------------------
(***************************************************************************)
(* One viewer's connection to a sharer, from the offer to the statistics:  *)
(* the ICE candidates both ends find and exchange while acceptOffer, which *)
(* suspends at every call of the browser, works on the offer, and what the *)
(* viewer is shown of the stream (viewing-manager.ts,                      *)
(* viewer-connection-manager.ts).  The server relays in order and only     *)
(* between members, so its queues are those of its two ends.  One          *)
(* ViewingManager serves until its screen is left; Leave replaces it.      *)
(* A viewer that is back before its departure was dealt with is a mishap   *)
(* ("quick rejoin"): what the old stay has under way reaches the new one.  *)
(* Sockets that break and listeners registered twice are ScreenShare's.    *)
(***************************************************************************)
EXTENDS Mishaps, Sequences, StreamQuality

CONSTANTS
  MaxConnections,   \* bound: connections each end makes
  MaxCandidates,    \* bound: candidates a connection finds
  MaxUnderway,      \* bound: messages of an old stay that a viewer can be ahead of
  Arrivals,         \* how many packets may come between two looks at them
  MaxLost,          \* bound: packets of a connection that are missing
  MaxPackets,       \* bound: packets of a connection, delivered or lost
  OtherRatings      \* what latency and frame rate may be rated

ASSUME BoundsAssumption ==
  /\ {MaxConnections, MaxCandidates, MaxUnderway, MaxLost, MaxPackets} \subseteq Nat
  /\ Arrivals \subseteq Nat
  /\ OtherRatings \subseteq Ratings \union {Unmeasured}

VARIABLES
  state, listening,   \* of the manager: #state, and whether it is subscribed
  conn,        \* #connection: its number, 0 if undefined
  made,        \* connections this end made so far
  remote,      \* the sharer's connection whose offer is its remoteDescription, 0 if null
  answered,    \* its local description answers that offer
  found,       \* candidates it has found
  accepting,   \* offer, by the connection it is of -> where its acceptOffer is suspended
  pending,     \* #pendingCandidates
  applied,     \* candidates that were given to its addIceCandidate
  member,      \* the server has the viewer in the room
  toViewer, toSharer,   \* messages on their way
  entry,       \* the sharer's ViewerEntry for this viewer, see Entries
  offers       \* connections the sharer made so far

VARIABLES
  path,        \* iceConnectionState of conn
  traffic,     \* connection of this end -> its counters
  poll,        \* the connection whose getStats pollQuality awaits, 0 if none
  previous,    \* #previous of the tracker
  shown        \* #quality and, of #streamStats, whether it is there and its loss

negotiationVars == <<conn, made, remote, answered, found, accepting, pending, applied>>
sharerVars == <<entry, offers>>
linkVars == <<member, toViewer, toSharer>>
streamVars == <<path, traffic, poll, previous, shown>>
peerVars == <<state, listening, negotiationVars, sharerVars, linkVars, streamVars, happened>>

Connections == 1 .. MaxConnections
Candidates == [from : {"viewer", "sharer"}, of : Connections, n : 1 .. MaxCandidates]
\* "describing" awaits setRemoteDescription, "draining" addIceCandidate for the
\* first of todo, "answering" createAnswer and setLocalDescription.
Suspended ==
  [at : {"nowhere", "describing", "draining", "answering"}, todo : Seq(Candidates)]
Nowhere == [at |-> "nowhere", todo |-> <<>>]
Idle == [c \in Connections |-> Nowhere]
\* of, by: the offer that was answered and the viewer's connection that did, 0
\* until then; found and applied as above.
Entries == [conn : 0 .. MaxConnections, phase : {"none", "offering", "offered", "answered"},
            of : 0 .. MaxConnections, by : 0 .. MaxConnections, found : 0 .. MaxCandidates,
            applied : SUBSET Candidates]
NoEntry == [conn |-> 0, phase |-> "none", of |-> 0, by |-> 0, found |-> 0, applied |-> {}]
NothingShown == [quality |-> "reconnecting", stats |-> FALSE, loss |-> Unmeasured]

Offer(c) == [type |-> "offer", conn |-> c]
Answer(c, by) == [type |-> "answer", conn |-> c, by |-> by]
Candidate(candidate) == [type |-> "ice-candidate", candidate |-> candidate]
Plain(type) == [type |-> type]

PLTypeOK ==
  /\ state \in {"idle", "connecting", "connected", "reconnecting", "disconnected", "error"}
  /\ listening \in BOOLEAN /\ answered \in BOOLEAN /\ member \in BOOLEAN
  /\ {conn, made, remote, offers, poll} \subseteq 0 .. MaxConnections
  /\ accepting \in [Connections -> Suspended]
  /\ pending \in Seq(Candidates)
  /\ found \in 0 .. MaxCandidates
  /\ applied \subseteq Candidates
  /\ entry \in Entries
  /\ path \in PathStates
  /\ traffic \in [Connections -> Counters(MaxPackets)]
  /\ previous \in Counters(MaxPackets) \union {NoPrevious}
  /\ shown.quality \in Qualities
  /\ happened \subseteq MishapKinds

PLInit ==
  /\ state = "idle" /\ listening = FALSE
  /\ conn = 0 /\ made = 0 /\ remote = 0 /\ answered = FALSE
  /\ found = 0 /\ accepting = Idle /\ pending = <<>> /\ applied = {}
  /\ member = FALSE /\ toViewer = <<>> /\ toSharer = <<>>
  /\ entry = NoEntry /\ offers = 0
  /\ path = "new" /\ traffic = [c \in Connections |-> [delivered |-> 0, lost |-> 0]]
  /\ poll = 0 /\ previous = NoPrevious /\ shown = NothingShown
  /\ happened = {}
-----------------------------------------------------------------------------
(***************************************************************************)
(* The viewer joins, leaves and is told that the room is over.             *)
(***************************************************************************)
\* Faulty variant: candidates outlive their connection.
PendingAfterCleanUpKept == pending
PendingAfterCleanUp == <<>>

\* Faulty variant: the tracker goes on from the last connection.
PreviousAfterResetKept == previous
\* StatsTracker.reset.
PreviousAfterReset == NoPrevious

\* #cleanup: what a closed connection still owed never comes.
CleanUp(becomes) ==
  /\ state' = becomes /\ listening' = FALSE
  /\ conn' = 0 /\ remote' = 0 /\ answered' = FALSE /\ found' = 0 /\ applied' = {}
  /\ accepting' = Idle /\ pending' = PendingAfterCleanUp
  /\ path' = "new" /\ previous' = PreviousAfterReset /\ shown' = NothingShown
  /\ UNCHANGED <<made, traffic>>

\* Something of an earlier stay has not been dealt with.
Unsettled == toViewer # <<>> \/ toSharer # <<>> \/ entry # NoEntry

(***************************************************************************)
(* join(), from the form.  The code would also take it while reconnecting, *)
(* when the screen shows no form, and after a failed offer, whose listener *)
(* then stays: that one is ViewingSession's.  Who is a member already is   *)
(* refused (ALREADY_IN_ROOM); the room is there and has a place.           *)
(***************************************************************************)
Join ==
  /\ state \in {"idle", "disconnected", "error"} /\ ~listening
  /\ Len(toViewer) + Len(toSharer) <= MaxUnderway
  /\ Befalls(OnlyIf(Unsettled, "quick rejoin"))
  /\ state' = "connecting" /\ listening' = TRUE
  /\ member' = TRUE
  /\ IF member THEN toViewer' = Append(toViewer, Plain("error")) /\ UNCHANGED toSharer
     ELSE toSharer' = Append(toSharer, Plain("viewer-joined")) /\ UNCHANGED toViewer
  /\ UNCHANGED <<negotiationVars, sharerVars, streamVars>>

\* leave(), and the screen goes, and its manager with all that it awaited.
Leave ==
  /\ state # "idle"
  /\ CleanUp("idle") /\ poll' = 0
  /\ member' = FALSE
  /\ toSharer' = IF member THEN Append(toSharer, Plain("viewer-left")) ELSE toSharer
  /\ UNCHANGED <<sharerVars, toViewer, happened>>

\* The sharer stops: its end is closed, the viewer will hear of it.
SharerStops ==
  /\ member
  /\ member' = FALSE
  /\ entry' = NoEntry
  /\ toSharer' = <<>> /\ toViewer' = Append(toViewer, Plain("room-ended"))
  /\ UNCHANGED <<state, listening, negotiationVars, offers, streamVars, happened>>

\* A member's message is relayed, anybody else's is answered with an error.
ViewerSends(message) ==
  IF member THEN toSharer' = Append(toSharer, message) /\ UNCHANGED toViewer
  ELSE toViewer' = Append(toViewer, Plain("error")) /\ UNCHANGED toSharer
SharerSends(message) ==
  /\ toViewer' = IF member THEN Append(toViewer, message) ELSE toViewer
  /\ UNCHANGED toSharer
-----------------------------------------------------------------------------
(***************************************************************************)
(* acceptOffer of c's offer, one step for each thing it awaits.  An offer  *)
(* of an earlier stay may be accepted at the same time, on the connection  *)
(* there is.                                                               *)
(***************************************************************************)
TakeOffer(c) ==
  /\ IF conn # 0 THEN UNCHANGED <<conn, made, previous>>
     ELSE /\ made < MaxConnections
          /\ conn' = made + 1 /\ made' = made + 1 /\ previous' = PreviousAfterReset
  /\ accepting' = [accepting EXCEPT ![c] = [at |-> "describing", todo |-> <<>>]]
  /\ UNCHANGED <<state, listening, remote, answered, found, pending, applied, path, shown>>

Described(c) ==
  /\ accepting[c].at = "describing"
  /\ remote' = c /\ answered' = FALSE
  /\ accepting' = [accepting EXCEPT ![c] = [at |-> "draining", todo |-> pending]]
  /\ UNCHANGED <<state, listening, conn, made, found, pending, applied, sharerVars, linkVars,
                 streamVars, happened>>

\* The loop gives the connection one candidate at a time, accepted or not.
Drain(c) ==
  /\ accepting[c].at = "draining" /\ accepting[c].todo # <<>>
  /\ applied' = applied \union {Head(accepting[c].todo)}
  /\ accepting' = [accepting EXCEPT ![c].todo = Tail(@)]
  /\ UNCHANGED <<state, listening, conn, made, remote, answered, found, pending, sharerVars,
                 linkVars, streamVars, happened>>

Drained(c) ==
  /\ accepting[c].at = "draining" /\ accepting[c].todo = <<>>
  /\ pending' = <<>>
  /\ accepting' = [accepting EXCEPT ![c].at = "answering"]
  /\ UNCHANGED <<state, listening, conn, made, remote, answered, found, applied, sharerVars,
                 linkVars, streamVars, happened>>

\* The answer is one to the offer described last.
SendAnswer(c) ==
  /\ accepting[c].at = "answering" /\ ~answered
  /\ answered' = TRUE /\ accepting' = [accepting EXCEPT ![c] = Nowhere]
  /\ ViewerSends(Answer(remote, conn))
  /\ UNCHANGED <<state, listening, conn, made, remote, found, pending, applied, sharerVars, member,
                 streamVars, happened>>

\* The browser rejects a description, as it does when the offer has its answer
\* already: all else stays as it is.
AcceptFails(c) ==
  /\ accepting[c].at \in {"describing", "answering"}
  /\ Befalls(OnlyIf(accepting[c].at = "describing" \/ ~answered, "offer refused"))
  /\ state' = "error" /\ accepting' = [accepting EXCEPT ![c] = Nowhere]
  /\ UNCHANGED <<listening, conn, made, remote, answered, found, pending, applied, sharerVars,
                 linkVars, streamVars>>

\* A candidate has to wait for the offer's description.
MustWait == conn = 0 \/ remote = 0

\* Faulty variant: what comes too early is let go.
AddCandidateUnbuffered(candidate) ==
  /\ applied' = IF MustWait THEN applied ELSE applied \union {candidate}
  /\ UNCHANGED <<state, listening, conn, made, remote, answered, found, accepting, pending, path,
                 previous, shown>>

AddCandidate(candidate) ==
  /\ IF MustWait THEN pending' = Append(pending, candidate) /\ UNCHANGED applied
     ELSE applied' = applied \union {candidate} /\ UNCHANGED pending
  /\ UNCHANGED <<state, listening, conn, made, remote, answered, found, accepting, path, previous,
                 shown>>

\* #handleSignalingMessage.
ViewerHears ==
  /\ toViewer # <<>>
  /\ toViewer' = Tail(toViewer)
  /\ LET m == Head(toViewer) IN
     \/ ~listening /\ UNCHANGED <<state, listening, negotiationVars, path, traffic, previous, shown>>
     \/ listening /\ m.type = "offer" /\ TakeOffer(m.conn) /\ UNCHANGED traffic
     \/ listening /\ m.type = "ice-candidate" /\ AddCandidate(m.candidate) /\ UNCHANGED traffic
     \/ listening /\ m.type = "room-ended" /\ CleanUp("disconnected")
     \/ listening /\ m.type = "error" /\ CleanUp("error")
  /\ UNCHANGED <<sharerVars, member, toSharer, poll, happened>>

\* onicecandidate: what setLocalDescription starts comes after its continuation,
\* which sends the answer.
ViewerFinds ==
  /\ answered /\ found < MaxCandidates
  /\ found' = found + 1
  /\ ViewerSends(Candidate([from |-> "viewer", of |-> conn, n |-> found + 1]))
  /\ UNCHANGED <<state, listening, conn, made, remote, answered, accepting, pending, applied,
                 sharerVars, member, streamVars, happened>>
-----------------------------------------------------------------------------
(***************************************************************************)
(* The sharer's end.                                                       *)
(***************************************************************************)
OfferReady ==
  /\ entry.phase = "offering"
  /\ entry' = [entry EXCEPT !.phase = IF entry.by = 0 THEN "offered" ELSE "answered"]
  /\ SharerSends(Offer(entry.conn))
  /\ UNCHANGED <<state, listening, negotiationVars, offers, member, streamVars, happened>>

\* Its candidates may outrun the offer: the viewer's #pendingCandidates is there
\* for that, so the model allows it.
SharerFinds ==
  /\ entry # NoEntry /\ entry.found < MaxCandidates
  /\ entry' = [entry EXCEPT !.found = @ + 1]
  /\ SharerSends(Candidate([from |-> "sharer", of |-> entry.conn, n |-> entry.found + 1]))
  /\ UNCHANGED <<state, listening, negotiationVars, offers, member, streamVars, happened>>

(***************************************************************************)
(* The entry after the answer m: one to no offer drops the viewer, and     *)
(* before the offer is out it may be one or the other (see SharingSession).*)
(***************************************************************************)
AfterAnswer(m) ==
  LET accepted == [entry EXCEPT !.of = m.conn, !.by = m.by] IN
  IF entry.phase = "none" \/ entry.by # 0 THEN {NoEntry}
  ELSE IF entry.phase = "offering" THEN {accepted, NoEntry}
  ELSE {[accepted EXCEPT !.phase = "answered"]}

\* #handleSignalingMessage.  Nothing is buffered: a candidate that comes before
\* the answer is rejected.
SharerHears ==
  /\ toSharer # <<>>
  /\ toSharer' = Tail(toSharer)
  /\ LET m == Head(toSharer) IN
     \/ m.type = "viewer-joined" /\ entry # NoEntry /\ UNCHANGED <<entry, offers>>
     \/ /\ m.type = "viewer-joined" /\ entry = NoEntry /\ offers < MaxConnections
        /\ entry' = [NoEntry EXCEPT !.conn = offers + 1, !.phase = "offering"]
        /\ offers' = offers + 1
     \/ m.type = "viewer-left" /\ entry' = NoEntry /\ UNCHANGED offers
     \/ m.type = "answer" /\ entry' \in AfterAnswer(m) /\ UNCHANGED offers
     \/ /\ m.type = "ice-candidate"
        /\ entry' = IF entry.by # 0 THEN [entry EXCEPT !.applied = @ \union {m.candidate}] ELSE entry
        /\ UNCHANGED offers
  /\ UNCHANGED <<state, listening, negotiationVars, member, toViewer, streamVars, happened>>

\* ICE reports "failed" at the sharer's end.
ConnectionFails ==
  /\ entry # NoEntry
  /\ Befalls({"connection fails"})
  /\ entry' = NoEntry
  /\ UNCHANGED <<state, listening, negotiationVars, offers, linkVars, streamVars>>
-----------------------------------------------------------------------------
(***************************************************************************)
(* The stream.                                                             *)
(***************************************************************************)
Matched ==
  /\ remote # 0 /\ answered /\ entry.phase = "answered"
  /\ entry.conn = remote /\ entry.of = remote /\ entry.by = conn

\* onconnectionstatechange: a negotiated connection may fail before it was one.
PathChanges(becomes) ==
  /\ conn # 0 /\ path # becomes
  /\ becomes = "connected" => Matched
  /\ becomes = "disconnected" => path = "connected"
  /\ becomes = "failed" => answered
  /\ path' = becomes
  /\ state' = IF becomes = "connected" THEN "connected" ELSE "reconnecting"
  /\ UNCHANGED <<listening, negotiationVars, sharerVars, linkVars, traffic, poll, previous, shown,
                 happened>>

\* Packets come, others are missed, and some of these turn up late after all.
Packet ==
  /\ path = "connected"
  /\ LET t == traffic[conn] IN
     \E n \in Arrivals, missing \in 0 .. MaxLost :
       /\ t.lost <= n + missing
       /\ t.delivered + n + missing <= MaxPackets
       /\ traffic' = [traffic EXCEPT ![conn] = [delivered |-> t.delivered + n, lost |-> missing]]
  /\ UNCHANGED <<state, listening, negotiationVars, sharerVars, linkVars, path, poll, previous, shown,
                 happened>>

\* pollQuality, up to its await.  Polls that overlap are SharingQuality's.
PollStarts ==
  /\ conn # 0 /\ state = "connected" /\ poll = 0
  /\ poll' = conn
  /\ UNCHANGED <<state, listening, negotiationVars, sharerVars, linkVars, path, traffic, previous,
                 shown, happened>>

\* The statistics of a connection that may have been closed since.
PollReturns ==
  /\ poll # 0
  /\ Befalls(OnlyIf(poll # conn, "poll outlives connection"))
  /\ LET loss == LossOverInterval(previous, traffic[poll])
         at == IF poll = conn THEN path ELSE "closed" IN
     \E latency, frames \in OtherRatings :
       shown' = [quality |-> Classify(latency, loss, frames, at), stats |-> TRUE, loss |-> loss]
  /\ previous' = traffic[poll] /\ poll' = 0
  /\ UNCHANGED <<state, listening, negotiationVars, sharerVars, linkVars, path, traffic>>

\* getStats rejects: nothing is shown rather than the last numbers.
PollFails ==
  /\ poll # 0
  /\ poll' = 0 /\ shown' = NothingShown
  /\ UNCHANGED <<state, listening, negotiationVars, sharerVars, linkVars, path, traffic, previous,
                 happened>>

PLNext ==
  \/ Join \/ Leave \/ SharerStops
  \/ \E c \in Connections :
       Described(c) \/ Drain(c) \/ Drained(c) \/ SendAnswer(c) \/ AcceptFails(c)
  \/ ViewerHears \/ ViewerFinds
  \/ OfferReady \/ SharerFinds \/ SharerHears \/ ConnectionFails
  \/ \E becomes \in {"connected", "disconnected", "failed"} : PathChanges(becomes)
  \/ Packet \/ PollStarts \/ PollReturns \/ PollFails

PLSpec == PLInit /\ [][PLNext]_peerVars
-----------------------------------------------------------------------------
(***************************************************************************)
(* A connection is only given candidates of the one it negotiates with,    *)
(* and none before that one's description, which WebRTC would reject       *)
(* (#addCandidate, #acceptOffer, #cleanup).  Excused: a quick rejoin,      *)
(* after which a candidate of the old stay's connection is buffered for    *)
(* the new one: nothing in the message tells them apart.                   *)
(***************************************************************************)
NoStrayCandidate ==
  Spared({"quick rejoin"}) =>
    /\ \A candidate \in applied : candidate.of = remote
    /\ \A candidate \in entry.applied : candidate.of = entry.by

(***************************************************************************)
(* No candidate is lost: when nothing is under way, both ends of a         *)
(* connection were given all that the other end found, whether they came   *)
(* before the offer, during its application or after (#acceptOffer,        *)
(* #addCandidate, handleIceCandidate).  Excused: a quick rejoin, after     *)
(* which the old stay's candidates count as well.                          *)
(***************************************************************************)
CandidatesArrive ==
  /\ Spared({"quick rejoin"})
  /\ Matched /\ toViewer = <<>> /\ toSharer = <<>> /\ accepting = Idle
  => Cardinality(applied) = entry.found /\ Cardinality(entry.applied) = found

(***************************************************************************)
(* "Packets lost over the last interval as a ratio, 0 to 1": the loss that *)
(* is shown is a share of the packets of the connection there is, not of   *)
(* one before it (StatsTracker, its reset and pollQuality).                *)
(***************************************************************************)
LossIsOfThisConnection ==
  shown.stats /\ Spared({"poll outlives connection"}) =>
    /\ conn # 0
    /\ shown.loss # Unmeasured =>
         shown.loss.lost <= shown.loss.total
         /\ shown.loss.total <= traffic[conn].delivered + traffic[conn].lost

(***************************************************************************)
(* "The worst dimension wins": the word that is shown is no better than    *)
(* the loss beside it, however good the latency and the picture are: from  *)
(* 1 percent on it is not "excellent", from 3 percent on not "good" either *)
(* (classifyQuality).                                                      *)
(***************************************************************************)
WordFitsTheNumbers ==
  shown.loss # Unmeasured =>
    /\ 100 * shown.loss.lost >= shown.loss.total => shown.quality # "excellent"
    /\ 100 * shown.loss.lost >= 3 * shown.loss.total => shown.quality \in {"poor", "reconnecting"}
=============================================================================
